------------------------ MODULE MemoryAnnotator_proofs ------------------------
(***************************************************************************)
(* Proofs about MemoryAnnotator for every module: the blocks stay in SSA   *)
(* form, whatever is inserted into them and copied from them, and behind   *)
(* the walk every tracker is in its place, in the copy of main, too.       *)
(***************************************************************************)
EXTENDS MemoryAnnotator, SequenceTheorems, Induction, TLAPS

-----------------------------------------------------------------------------
(* Blocks                                                                  *)

(* The instruction i fits into a function with n numbers.                  *)
Fits(i, n) ==
    /\ i.id \in 1 .. n
    /\ Len(i.args) >= Arity(i.op)
    /\ \A k \in DOMAIN i.args : i.args[k] <= n
    /\ i.op \in {"load", "store"} => i.ty # "none"
    /\ i.op = "cast" /\ i.ty # "float" => ValidCast(i)
    /\ i.op \in Conversions => 1 \in DOMAIN i.args

(* Everything the pass reads or inserts comes behind what it uses.         *)
Ordered == Tracked \cup Inserted \cup {"ret"}

GoodBlock(block, n) ==
    /\ block \in Seq(Insts)
    /\ block # <<>>
    /\ \A p \in DOMAIN block : Fits(block[p], n)
    /\ \A p, q \in DOMAIN block : block[p].id = block[q].id => p = q
    /\ UsedBehind(block, Ordered)

NumbersOf(block) == {block[p].id : p \in DOMAIN block}

(* The value v has its instruction at p; or in front of p, if in the block *)
At(block, p, v) == p \in DOMAIN block /\ block[p].id = v
InFront(block, v, p) == \A q \in DOMAIN block : block[q].id = v => q < p

Inserts(new, block, k, i) ==
    /\ new \in Seq(Insts)
    /\ Len(new) = Len(block) + 1
    /\ \A p \in 1 .. Len(new) :
          new[p] = IF p < k THEN block[p] ELSE IF p = k THEN i ELSE block[p - 1]

LEMMA InsertAtInserts ==
    ASSUME NEW block \in Seq(Insts), NEW i \in Insts, NEW k \in 1 .. Len(block) + 1
    PROVE  Inserts(InsertAt(block, k, i), block, k, i)
<1> DEFINE L == Len(block)
           pre == SubSeq(block, 1, k - 1)
           post == SubSeq(block, k, L)
<1>1. L \in Nat /\ k \in Nat /\ \A p \in 1 .. L : block[p] \in Insts
  BY LenProperties, ElementOfSeq
<1>2. pre \in Seq(Insts) /\ Len(pre) = k - 1 /\ \A p \in 1 .. k - 1 : pre[p] = block[p]
  <2>1. \A p \in 1 .. k - 1 : block[p] \in Insts BY <1>1
  <2>2. /\ pre \in Seq(Insts)
        /\ Len(pre) = IF 1 <= k - 1 THEN k - 1 - 1 + 1 ELSE 0
        /\ \A p \in 1 .. k - 1 - 1 + 1 : pre[p] = block[1 + p - 1]
    BY <1>1, <2>1, SubSeqProperties
  <2> QED BY <1>1, <2>2
<1>3. /\ post \in Seq(Insts) /\ Len(post) = L - k + 1
      /\ \A p \in 1 .. L - k + 1 : post[p] = block[k + p - 1]
  <2>1. \A p \in k .. L : block[p] \in Insts BY <1>1
  <2>2. /\ post \in Seq(Insts)
        /\ Len(post) = IF k <= L THEN L - k + 1 ELSE 0
        /\ \A p \in 1 .. L - k + 1 : post[p] = block[k + p - 1]
    BY <1>1, <2>1, SubSeqProperties
  <2> QED BY <1>1, <2>2
<1>4. <<i>> \in Seq(Insts) /\ Len(<<i>>) = 1 /\ <<i>>[1] = i OBVIOUS
<1> HIDE DEF pre, post
<1> DEFINE mid == pre \o <<i>>
<1>5. /\ mid \in Seq(Insts) /\ Len(mid) = k
      /\ \A p \in 1 .. k : mid[p] = IF p < k THEN block[p] ELSE i
  <2>1. /\ mid \in Seq(Insts) /\ Len(mid) = Len(pre) + Len(<<i>>)
        /\ \A p \in 1 .. Len(pre) + Len(<<i>>) :
              mid[p] = IF p <= Len(pre) THEN pre[p] ELSE <<i>>[p - Len(pre)]
    BY <1>2, <1>4, ConcatProperties
  <2>2. Len(mid) = k BY <1>1, <1>2, <1>4, <2>1
  <2>3. ASSUME NEW p \in 1 .. k PROVE mid[p] = IF p < k THEN block[p] ELSE i
    <3>1. p \in 1 .. Len(pre) + Len(<<i>>) BY <1>1, <1>2, <1>4
    <3>2. mid[p] = IF p <= Len(pre) THEN pre[p] ELSE <<i>>[p - Len(pre)] BY <2>1, <3>1
    <3>3. CASE p < k BY <1>1, <1>2, <3>2, <3>3
    <3>4. CASE p = k BY <1>1, <1>2, <1>4, <3>2, <3>4
    <3>5. p < k \/ p = k BY <1>1
    <3> QED BY <3>3, <3>4, <3>5
  <2> QED BY <2>1, <2>2, <2>3
<1> HIDE DEF mid
<1> DEFINE new == mid \o post
<1>6. /\ new \in Seq(Insts) /\ Len(new) = Len(mid) + Len(post)
      /\ \A p \in 1 .. Len(mid) + Len(post) :
            new[p] = IF p <= Len(mid) THEN mid[p] ELSE post[p - Len(mid)]
  BY <1>3, <1>5, ConcatProperties
<1>7. InsertAt(block, k, i) = new BY DEF InsertAt, new, mid, pre, post
<1> HIDE DEF new
<1>8. Len(new) = L + 1 BY <1>1, <1>3, <1>5, <1>6
<1>9. ASSUME NEW p \in 1 .. Len(new)
      PROVE  new[p] = IF p < k THEN block[p] ELSE IF p = k THEN i ELSE block[p - 1]
  <2>1. new[p] = IF p <= k THEN mid[p] ELSE post[p - k] BY <1>1, <1>5, <1>6
  <2>2. CASE p <= k BY <1>1, <1>5, <2>1, <2>2
  <2>3. CASE p > k
    <3>1. p - k \in 1 .. L - k + 1 /\ k + (p - k) - 1 = p - 1 BY <1>1, <1>8, <2>3
    <3> QED BY <1>1, <1>3, <2>1, <2>3, <3>1
  <2> QED BY <1>1, <2>2, <2>3
<1> QED BY <1>6, <1>7, <1>8, <1>9 DEF Inserts

LEMMA GoodBlockLarger ==
    ASSUME NEW n \in Nat, NEW m \in Nat, n <= m, NEW block, GoodBlock(block, n)
    PROVE  GoodBlock(block, m)
<1> SUFFICES ASSUME NEW p \in DOMAIN block PROVE Fits(block[p], m) BY DEF GoodBlock
<1>1. Fits(block[p], n) /\ block[p] \in Insts
  BY LenProperties, ElementOfSeq DEF GoodBlock
<1>2. block[p].args \in Seq(Int) BY <1>1 DEF Insts
<1>3. \A k \in DOMAIN block[p].args : block[p].args[k] \in Int
  BY <1>2, LenProperties, ElementOfSeq
<1> QED BY <1>1, <1>3 DEF Fits

(* The instruction with the new number n has come to position k.           *)
Grown(new, block, k, n) ==
    /\ GoodBlock(new, n)
    /\ NumbersOf(new) = NumbersOf(block) \cup {n}
    /\ At(new, k, n)
    /\ InFront(new, n, k + 1)
    /\ \A v \in Int : \A p \in Nat :
          At(block, p, v) => At(new, IF p < k THEN p ELSE p + 1, v)
    /\ \A v \in Int : \A p \in Nat :
          v # n /\ InFront(block, v, p) =>
              InFront(new, v, p + 1) /\ (p <= k => InFront(new, v, p))

(* What is inserted must have a new number and come behind what it uses.   *)
LEMMA InsertGrows ==
    ASSUME NEW n \in Nat, NEW m \in Nat, n < m,
           NEW block, GoodBlock(block, n),
           NEW i \in Insts, Fits(i, m), i.id = m,
           NEW k \in 1 .. Len(block) + 1,
           \A a \in DOMAIN i.args : i.args[a] # m /\ InFront(block, i.args[a], k)
    PROVE  Grown(InsertAt(block, k, i), block, k, m)
<1> DEFINE new == InsertAt(block, k, i)
           L == Len(block)
<1>1. /\ block \in Seq(Insts) /\ L \in Nat /\ DOMAIN block = 1 .. L /\ k \in Nat
      /\ \A p \in 1 .. L : block[p] \in Insts
  BY LenProperties, ElementOfSeq DEF GoodBlock
<1>2. Inserts(new, block, k, i) BY <1>1, InsertAtInserts
<1> HIDE DEF new
<1>3. DOMAIN new = 1 .. L + 1 /\ new \in Seq(Insts) /\ Len(new) = L + 1
  BY <1>2, LenProperties DEF Inserts
<1>4. /\ \A p \in 1 .. k - 1 : p \in DOMAIN new /\ p \in 1 .. L /\ new[p] = block[p]
      /\ k \in DOMAIN new /\ new[k] = i
      /\ \A p \in k .. L : p + 1 \in DOMAIN new /\ p \in 1 .. L /\ new[p + 1] = block[p]
  <2>1. ASSUME NEW p \in 1 .. k - 1 PROVE p \in DOMAIN new /\ p \in 1 .. L /\ new[p] = block[p]
    BY <1>1, <1>2, <1>3 DEF Inserts
  <2>2. k \in DOMAIN new /\ new[k] = i BY <1>1, <1>2, <1>3 DEF Inserts
  <2>3. ASSUME NEW p \in k .. L
        PROVE  p + 1 \in DOMAIN new /\ p \in 1 .. L /\ new[p + 1] = block[p]
    <3>1. p + 1 \in 1 .. L + 1 /\ p \in 1 .. L /\ ~(p + 1 < k) /\ p + 1 # k /\ (p + 1) - 1 = p
      BY <1>1
    <3> QED BY <1>2, <1>3, <3>1 DEF Inserts
  <2> QED BY <2>1, <2>2, <2>3
<1> DEFINE moved(p) == IF p < k THEN p ELSE p + 1
(* Where an instruction of new comes from.                                 *)
<1>5. ASSUME NEW p \in DOMAIN new
      PROVE  p = k \/ \E q \in 1 .. L : p = moved(q) /\ new[p] = block[q]
  <2>1. CASE p < k
    <3>1. p \in 1 .. k - 1 BY <1>1, <1>3, <2>1
    <3>2. p \in 1 .. L /\ new[p] = block[p] BY <1>4, <3>1
    <3> QED BY <2>1, <3>2
  <2>2. CASE p > k
    <3>1. p - 1 \in k .. L /\ (p - 1) + 1 = p /\ ~(p - 1 < k) BY <1>1, <1>3, <2>2
    <3>2. p - 1 \in 1 .. L /\ new[p] = block[p - 1] BY <1>4, <3>1
    <3> QED BY <3>1, <3>2
  <2>3. p < k \/ p = k \/ p > k BY <1>1, <1>3
  <2> QED BY <2>1, <2>2, <2>3
<1>6. ASSUME NEW q \in 1 .. L PROVE moved(q) \in DOMAIN new /\ new[moved(q)] = block[q]
  <2>1. CASE q < k
    <3>1. q \in 1 .. k - 1 BY <1>1, <2>1
    <3> QED BY <1>4, <2>1, <3>1
  <2>2. CASE ~(q < k)
    <3>1. q \in k .. L BY <1>1, <2>2
    <3> QED BY <1>4, <2>2, <3>1
  <2> QED BY <2>1, <2>2
<1>7. \A p, q \in 1 .. L : (moved(p) < moved(q) <=> p < q) /\ moved(p) # k
  BY <1>1
<1>8. \A q \in 1 .. L : block[q].id \in 1 .. n
  BY <1>1 DEF GoodBlock, Fits
<1>9. \A q \in 1 .. L : block[q].id # m BY <1>8
<1>10. GoodBlock(new, m)
  <2>1. new # <<>>
    <3>1. L + 1 # 0 BY <1>1
    <3> QED BY <1>3, <3>1, EmptySeq
  <2>2. ASSUME NEW p \in DOMAIN new PROVE Fits(new[p], m)
    <3>1. GoodBlock(block, m) BY GoodBlockLarger
    <3>2. \A q \in 1 .. L : Fits(block[q], m) BY <1>1, <3>1 DEF GoodBlock
    <3> QED BY <1>4, <1>5, <3>2
  <2>3. ASSUME NEW p \in DOMAIN new, NEW q \in DOMAIN new, new[p].id = new[q].id
        PROVE  p = q
    <3>1. CASE p = k
      <4>1. q = k BY <1>4, <1>5, <1>9, <2>3, <3>1
      <4> QED BY <3>1, <4>1
    <3>2. CASE q = k
      <4>1. p = k BY <1>4, <1>5, <1>9, <2>3, <3>2
      <4> QED BY <3>2, <4>1
    <3>3. CASE p # k /\ q # k
      <4>1. PICK a \in 1 .. L : p = moved(a) /\ new[p] = block[a] BY <1>5, <3>3
      <4>2. PICK b \in 1 .. L : q = moved(b) /\ new[q] = block[b] BY <1>5, <3>3
      <4>3. a = b BY <1>1, <2>3, <4>1, <4>2 DEF GoodBlock
      <4> QED BY <4>1, <4>2, <4>3
    <3> QED BY <3>1, <3>2, <3>3
  <2>4. UsedBehind(new, Ordered)
    <3> SUFFICES ASSUME NEW p \in DOMAIN new, NEW q \in DOMAIN new,
                        new[q].op \in Ordered, Uses(new[q], new[p].id)
                 PROVE  p < q
      BY DEF UsedBehind
    <3>1. CASE q = k
      <4>1. p # k BY <1>4, <3>1 DEF Uses
      <4>2. PICK a \in 1 .. L : p = moved(a) /\ new[p] = block[a] BY <1>5, <4>1
      <4>3. a < k BY <1>1, <1>4, <3>1, <4>2 DEF Uses, InFront
      <4> QED BY <3>1, <4>2, <4>3
    <3>2. CASE q # k
      <4>1. PICK b \in 1 .. L : q = moved(b) /\ new[q] = block[b] BY <1>5, <3>2
      <4>2. p # k
        <5>1. block[b].args \in Seq(Int) BY <1>1 DEF Insts
        <5>2. \A a \in DOMAIN block[b].args : block[b].args[a] \in Int /\ block[b].args[a] <= n
          BY <1>1, <5>1, LenProperties, ElementOfSeq DEF GoodBlock, Fits
        <5>3. ~Uses(block[b], m) BY <5>2 DEF Uses
        <5> QED BY <1>4, <4>1, <5>3
      <4>3. PICK a \in 1 .. L : p = moved(a) /\ new[p] = block[a] BY <1>5, <4>2
      <4>4. a < b BY <1>1, <4>1, <4>3 DEF GoodBlock, UsedBehind
      <4> QED BY <1>7, <4>1, <4>3, <4>4
    <3> QED BY <3>1, <3>2
  <2> QED BY <1>3, <2>1, <2>2, <2>3, <2>4 DEF GoodBlock
<1>11. NumbersOf(new) = NumbersOf(block) \cup {m}
  <2>1. ASSUME NEW p \in DOMAIN new PROVE new[p].id \in NumbersOf(block) \cup {m}
    BY <1>1, <1>4, <1>5 DEF NumbersOf
  <2>2. ASSUME NEW q \in 1 .. L PROVE block[q].id \in NumbersOf(new)
    BY <1>6 DEF NumbersOf
  <2>3. m \in NumbersOf(new) BY <1>4 DEF NumbersOf
  <2> QED BY <1>1, <2>1, <2>2, <2>3 DEF NumbersOf
<1>12. At(new, k, m) BY <1>4 DEF At
<1>13. InFront(new, m, k + 1)
  <2> SUFFICES ASSUME NEW q \in DOMAIN new, new[q].id = m PROVE q < k + 1 BY DEF InFront
  <2>1. q = k BY <1>5, <1>9
  <2> QED BY <1>1, <2>1
<1>14. ASSUME NEW v \in Int, NEW p \in Nat, At(block, p, v)
       PROVE  At(new, moved(p), v)
  BY <1>1, <1>6, <1>14 DEF At
<1>15. ASSUME NEW v \in Int, NEW p \in Nat, v # m, InFront(block, v, p)
       PROVE  InFront(new, v, p + 1) /\ (p <= k => InFront(new, v, p))
  <2>1. ASSUME NEW q \in DOMAIN new, new[q].id = v
        PROVE  q < p + 1 /\ (p <= k => q < p)
    <3>1. q # k BY <1>4, <1>15, <2>1
    <3>2. PICK a \in 1 .. L : q = moved(a) /\ new[q] = block[a] BY <1>5, <3>1
    <3>3. a < p BY <1>1, <1>15, <2>1, <3>2 DEF InFront
    <3> QED BY <1>1, <3>2, <3>3
  <2> QED BY <2>1 DEF InFront
<1> QED BY <1>10, <1>11, <1>12, <1>13, <1>14, <1>15 DEF Grown, new

(* An instruction is found by its number.                                  *)
LEMMA PositionFound ==
    ASSUME NEW n, NEW block, GoodBlock(block, n), NEW v, NEW p, At(block, p, v)
    PROVE  PosOf(block, v) = p
BY DEF PosOf, At, GoodBlock

-----------------------------------------------------------------------------
(* Functions                                                               *)

AnyName == STRING \cup Range(TrackerNames) \cup {"main" \o "_clone"}
AnyFunction == [name : AnyName, ids : Nat, blocks : Seq(Seq(Insts))]

GoodFunction(f) ==
    /\ f \in AnyFunction
    /\ NumbersApart(f)
    /\ \A b \in DOMAIN f.blocks : GoodBlock(f.blocks[b], f.ids)

(* The inductive invariant.                                                *)
AnnotatorInv ==
    /\ funs \in Seq(AnyFunction)
    /\ \A f \in DOMAIN funs : GoodFunction(funs[f])
    /\ fn \in 1 .. Len(funs) + 1
    /\ AtFunction => bb \in 0 .. Len(Self.blocks) + 1
    /\ bb \in Nat
    /\ InBlock => pos \in 1 .. Len(Block) + 1
    /\ ~InBlock => pos = 1

(* What the iterators point to.                                            *)
LEMMA FunctionFacts ==
    ASSUME AnnotatorInv, AtFunction
    PROVE  /\ fn \in DOMAIN funs /\ fn \in 1 .. Len(funs) /\ fn \in Nat
           /\ GoodFunction(Self)
           /\ Self.ids \in Nat /\ Self.blocks \in Seq(Seq(Insts))
           /\ Len(Self.blocks) \in Nat /\ DOMAIN Self.blocks = 1 .. Len(Self.blocks)
           /\ bb \in Nat
<1>1. Len(funs) \in Nat /\ DOMAIN funs = 1 .. Len(funs) BY LenProperties DEF AnnotatorInv
<1>2. fn \in 1 .. Len(funs) /\ fn \in Nat BY <1>1 DEF AnnotatorInv, AtFunction
<1>3. GoodFunction(Self) BY <1>1, <1>2 DEF AnnotatorInv, Self
<1>4. Self.ids \in Nat /\ Self.blocks \in Seq(Seq(Insts))
  BY <1>3 DEF GoodFunction, AnyFunction
<1> QED BY <1>1, <1>2, <1>3, <1>4, LenProperties DEF AnnotatorInv

LEMMA BlockFacts ==
    ASSUME AnnotatorInv, InBlock
    PROVE  /\ AtFunction
           /\ GoodBlock(Block, Self.ids)
           /\ Block \in Seq(Insts)
           /\ Len(Block) \in Nat /\ DOMAIN Block = 1 .. Len(Block)
           /\ pos \in 1 .. Len(Block) + 1
<1>1. AtFunction /\ bb \in DOMAIN Self.blocks BY DEF InBlock
<1>2. GoodBlock(Block, Self.ids) BY <1>1, FunctionFacts DEF GoodFunction, Block
<1> QED BY <1>1, <1>2, LenProperties DEF GoodBlock, AnnotatorInv

LEMMA InstFacts ==
    ASSUME AnnotatorInv, AtInst
    PROVE  /\ AtFunction /\ InBlock
           /\ pos \in Nat /\ pos \in 1 .. Len(Block)
           /\ Inst \in Insts /\ Fits(Inst, Self.ids)
           /\ Inst.id \in 1 .. Self.ids /\ Inst.id \in Int
           /\ At(Block, pos, Inst.id) /\ InFront(Block, Inst.id, pos + 1)
           /\ \A a \in DOMAIN Inst.args : Inst.args[a] \in Int /\ Inst.args[a] <= Self.ids
           /\ Inst.op \in Ordered =>
                 \A a \in DOMAIN Inst.args : InFront(Block, Inst.args[a], pos)
           /\ DOMAIN Inst.args = 1 .. Len(Inst.args) /\ Len(Inst.args) \in Nat
           /\ Len(Inst.args) >= Arity(Inst.op)
<1>1. InBlock /\ pos <= Len(Block) BY DEF AtInst
<1>2. /\ AtFunction /\ GoodBlock(Block, Self.ids) /\ Block \in Seq(Insts)
      /\ Len(Block) \in Nat /\ DOMAIN Block = 1 .. Len(Block)
      /\ pos \in 1 .. Len(Block) + 1
  BY <1>1, BlockFacts
<1>3. pos \in 1 .. Len(Block) /\ pos \in Nat BY <1>1, <1>2
<1>4. Inst \in Insts BY <1>2, <1>3, ElementOfSeq DEF Inst
<1>5. Fits(Inst, Self.ids) BY <1>2, <1>3 DEF GoodBlock, Inst
<1>6. Self.ids \in Nat BY <1>2, FunctionFacts
<1>7. Inst.id \in 1 .. Self.ids /\ Inst.id \in Int BY <1>5, <1>6 DEF Fits
<1>8. At(Block, pos, Inst.id) BY <1>2, <1>3 DEF At, Inst
<1>9. InFront(Block, Inst.id, pos + 1)
  <2> SUFFICES ASSUME NEW q \in DOMAIN Block, Block[q].id = Inst.id PROVE q < pos + 1
    BY DEF InFront
  <2>1. q = pos BY <1>2, <1>3 DEF GoodBlock, Inst
  <2> QED BY <1>3, <2>1
<1>10. Inst.args \in Seq(Int) BY <1>4 DEF Insts
<1>11. /\ DOMAIN Inst.args = 1 .. Len(Inst.args) /\ Len(Inst.args) \in Nat
       /\ \A a \in DOMAIN Inst.args : Inst.args[a] \in Int
  BY <1>10, LenProperties, ElementOfSeq
<1>12. ASSUME Inst.op \in Ordered, NEW a \in DOMAIN Inst.args
       PROVE  InFront(Block, Inst.args[a], pos)
  BY <1>2, <1>3, <1>12 DEF GoodBlock, UsedBehind, Uses, InFront, Inst
<1> QED BY <1>1, <1>2, <1>3, <1>4, <1>5, <1>7, <1>8, <1>9, <1>11, <1>12 DEF Fits

(* A block with numbers of its own takes the place of the current one.     *)
LEMMA RewriteKeeps ==
    ASSUME AnnotatorInv, AtInst,
           NEW block, GoodBlock(block, Self.ids + 3),
           NumbersOf(block) \subseteq NumbersOf(Block) \cup (Self.ids + 1 .. Self.ids + 3),
           NEW p, At(block, p, Inst.id),
           Rewrite(block)
    PROVE  AnnotatorInv'
<1>1. /\ AtFunction /\ InBlock /\ Inst.id \in 1 .. Self.ids
      /\ fn \in DOMAIN funs /\ fn \in 1 .. Len(funs) /\ fn \in Nat
      /\ GoodFunction(Self) /\ Self \in AnyFunction
      /\ Self.ids \in Nat /\ Self.blocks \in Seq(Seq(Insts))
      /\ Len(Self.blocks) \in Nat /\ DOMAIN Self.blocks = 1 .. Len(Self.blocks)
      /\ bb \in DOMAIN Self.blocks
  BY InstFacts, FunctionFacts DEF InBlock, GoodFunction
<1>2. /\ block \in Seq(Insts) /\ Len(block) \in Nat /\ DOMAIN block = 1 .. Len(block)
      /\ p \in 1 .. Len(block)
  BY LenProperties DEF GoodBlock, At
<1> DEFINE blocks == [Self.blocks EXCEPT ![bb] = block]
           self == [Self EXCEPT !.blocks = blocks, !.ids = Self.ids + 3]
<1>3. /\ blocks \in Seq(Seq(Insts)) /\ Len(blocks) = Len(Self.blocks)
      /\ DOMAIN blocks = DOMAIN Self.blocks
      /\ \A c \in DOMAIN Self.blocks :
            blocks[c] = IF c = bb THEN block ELSE Self.blocks[c]
  BY <1>1, <1>2, ExceptSeq
<1> HIDE DEF blocks
<1>4. self \in AnyFunction
  <2> DEFINE names == AnyName
             bodies == Seq(Seq(Insts))
  <2>1. Self \in [name : names, ids : Nat, blocks : bodies] BY <1>1 DEF AnyFunction
  <2>2. blocks \in bodies /\ Self.ids + 3 \in Nat BY <1>1, <1>3
  <2> HIDE DEF names, bodies
  <2>3. self \in [name : names, ids : Nat, blocks : bodies] BY <2>1, <2>2
  <2> QED BY <2>3 DEF AnyFunction, names, bodies
<1>5. self.ids = Self.ids + 3 /\ self.blocks = blocks BY <1>1 DEF AnyFunction
<1>6. funs' = [funs EXCEPT ![fn] = self] BY <1>1 DEF Rewrite, Self, blocks
<1> HIDE DEF self
<1>7. /\ funs \in Seq(AnyFunction) /\ funs' \in Seq(AnyFunction) /\ Len(funs') = Len(funs)
      /\ Len(funs) \in Nat /\ DOMAIN funs = 1 .. Len(funs)
      /\ DOMAIN funs' = DOMAIN funs
      /\ \A f \in DOMAIN funs : funs'[f] = IF f = fn THEN self ELSE funs[f]
  BY <1>1, <1>4, <1>6, ExceptSeq, LenProperties DEF AnnotatorInv
<1>8. GoodFunction(self)
  <2>1. ASSUME NEW c \in DOMAIN Self.blocks PROVE GoodBlock(blocks[c], Self.ids + 3)
    <3>1. CASE c = bb BY <1>3, <3>1
    <3>2. CASE c # bb
      <4>1. GoodBlock(Self.blocks[c], Self.ids) BY <1>1 DEF GoodFunction
      <4>2. Self.ids \in Nat BY <1>1
      <4>4. Self.ids + 3 \in Nat /\ Self.ids <= Self.ids + 3 BY <4>2
      <4>3. GoodBlock(Self.blocks[c], Self.ids + 3) BY <4>1, <4>2, <4>4, GoodBlockLarger
      <4> QED BY <1>3, <3>2, <4>3
    <3> QED BY <3>1, <3>2
  (* The numbers of block are those of the old one, or new.                *)
  <2>2. ASSUME NEW q \in DOMAIN block, NEW c \in DOMAIN Self.blocks, c # bb,
               NEW r \in DOMAIN Self.blocks[c]
        PROVE  block[q].id # Self.blocks[c][r].id
    <3>1. block[q].id \in NumbersOf(block) BY DEF NumbersOf
    <3>2. Self.blocks[c][r].id \in 1 .. Self.ids
      BY <1>1 DEF GoodFunction, GoodBlock, Fits
    <3>3. CASE block[q].id \in Self.ids + 1 .. Self.ids + 3 BY <1>1, <3>2, <3>3
    <3>4. CASE block[q].id \in NumbersOf(Block)
      <4>1. PICK t \in DOMAIN Block : block[q].id = Block[t].id BY <3>4 DEF NumbersOf
      <4> QED BY <1>1, <2>2, <4>1 DEF GoodFunction, NumbersApart, Block
    <3> QED BY <3>1, <3>3, <3>4
  <2>3. ASSUME NEW b \in DOMAIN blocks, NEW c \in DOMAIN blocks,
               NEW q \in DOMAIN blocks[b], NEW r \in DOMAIN blocks[c],
               blocks[b][q].id = blocks[c][r].id
        PROVE  b = c /\ q = r
    <3>1. CASE b = bb /\ c = bb BY <1>3, <2>3, <3>1 DEF GoodBlock
    <3>2. CASE b = bb /\ c # bb BY <1>3, <2>2, <2>3, <3>2
    <3>3. CASE b # bb /\ c = bb BY <1>3, <2>2, <2>3, <3>3
    <3>4. CASE b # bb /\ c # bb
      <4>1. blocks[b] = Self.blocks[b] /\ blocks[c] = Self.blocks[c] BY <1>3, <3>4
      <4>2. NumbersApart(Self) /\ b \in DOMAIN Self.blocks /\ c \in DOMAIN Self.blocks
        BY <1>1, <1>3 DEF GoodFunction
      <4> QED BY <2>3, <4>1, <4>2 DEF NumbersApart
    <3> QED BY <3>1, <3>2, <3>3, <3>4
  <2> QED BY <1>3, <1>4, <1>5, <2>1, <2>3 DEF GoodFunction, NumbersApart
<1>9. pos' = p + 1 /\ fn' = fn /\ bb' = bb
  BY PositionFound DEF Rewrite
<1>10. \A f \in DOMAIN funs' : GoodFunction(funs'[f])
  BY <1>7, <1>8 DEF AnnotatorInv
<1>11. funs'[fn'].blocks = blocks /\ funs'[fn'].blocks[bb'] = block
  BY <1>1, <1>3, <1>5, <1>7, <1>9
<1>12. pos' \in 1 .. Len(block) + 1 BY <1>2, <1>9
<1> QED
  <2>1. fn' \in 1 .. Len(funs') + 1 BY <1>1, <1>7, <1>9
  <2>2. bb' \in Nat /\ bb' \in 0 .. Len(funs'[fn'].blocks) + 1
    BY <1>1, <1>3, <1>9, <1>11
  <2>3. AtFunction' /\ InBlock'
    BY <1>1, <1>3, <1>7, <1>9, <1>11 DEF AtFunction, InBlock, Self
  <2> QED BY <1>7, <1>10, <1>11, <1>12, <2>1, <2>2, <2>3 DEF AnnotatorInv, Self, Block

-----------------------------------------------------------------------------
(* Insertions                                                              *)

(* The block after insertions of numbers up to Fresh(n); p is where the    *)
(* instruction has come to.                                                *)
Prepared(block, n, p) ==
    /\ GoodBlock(block, Self.ids + n)
    /\ NumbersOf(block) \subseteq NumbersOf(Block) \cup (Self.ids + 1 .. Self.ids + n)
    /\ p \in Nat
    /\ At(block, p, Inst.id)

LEMMA NothingPrepared == AnnotatorInv /\ AtInst => Prepared(Block, 0, pos)
<1> SUFFICES ASSUME AnnotatorInv, AtInst PROVE Prepared(Block, 0, pos) OBVIOUS
<1>1. Self.ids + 0 = Self.ids BY InstFacts, FunctionFacts
<1> QED BY <1>1, InstFacts, BlockFacts DEF Prepared

(* One more insertion, as in InsertGrows.                                  *)
LEMMA PrepareOne ==
    ASSUME AnnotatorInv, AtInst,
           NEW n \in 0 .. 3, NEW m \in 0 .. 3, n < m,
           NEW block, NEW p, Prepared(block, n, p),
           NEW i \in Insts, i.id = Fresh(m), Fits(i, Fresh(m)),
           NEW k \in Nat, k \in {p, p + 1} \/ k \in 1 .. Len(block) + 1,
           \A a \in DOMAIN i.args : i.args[a] # Fresh(m) /\ InFront(block, i.args[a], k)
    PROVE  /\ Grown(InsertAt(block, k, i), block, k, Fresh(m))
           /\ Prepared(InsertAt(block, k, i), m, IF p < k THEN p ELSE p + 1)
<1> DEFINE new == InsertAt(block, k, i)
           x == Self.ids + n
           y == Self.ids + m
<1>1. Self.ids \in Nat /\ Inst.id \in 1 .. Self.ids /\ Inst.id \in Int
  BY InstFacts, FunctionFacts
<1>2. x \in Nat /\ y \in Nat /\ x < y /\ Fresh(m) = y BY <1>1 DEF Fresh
<1>3. /\ GoodBlock(block, x) /\ block \in Seq(Insts) /\ p \in Nat /\ At(block, p, Inst.id)
      /\ DOMAIN block = 1 .. Len(block) /\ Len(block) \in Nat
  BY LenProperties DEF Prepared, GoodBlock
<1>4. k \in 1 .. Len(block) + 1 BY <1>3 DEF At
<1> HIDE DEF new, x, y
<1>5. Grown(new, block, k, y) BY <1>2, <1>3, <1>4, InsertGrows DEF new
<1>6. At(new, IF p < k THEN p ELSE p + 1, Inst.id) BY <1>1, <1>3, <1>5 DEF Grown
<1>7. NumbersOf(new) \subseteq NumbersOf(Block) \cup (Self.ids + 1 .. Self.ids + m)
  <2>1. NumbersOf(new) = NumbersOf(block) \cup {y} BY <1>5 DEF Grown
  <2>2. NumbersOf(block) \subseteq NumbersOf(Block) \cup (Self.ids + 1 .. Self.ids + n)
    BY DEF Prepared
  <2>3. Self.ids + 1 .. Self.ids + n \subseteq Self.ids + 1 .. Self.ids + m
    BY <1>1
  <2>4. y \in Self.ids + 1 .. Self.ids + m BY <1>1 DEF y
  <2> QED BY <2>1, <2>2, <2>3, <2>4
<1>8. GoodBlock(new, Self.ids + m) BY <1>5 DEF Grown, y
<1>9. (IF p < k THEN p ELSE p + 1) \in Nat BY <1>3
<1>10. Prepared(new, m, IF p < k THEN p ELSE p + 1) BY <1>6, <1>7, <1>8, <1>9 DEF Prepared
<1> QED BY <1>2, <1>5, <1>10 DEF new

LEMMA RewritePrepared ==
    ASSUME AnnotatorInv, AtInst,
           NEW n \in 0 .. 3, NEW block, NEW p, Prepared(block, n, p), Rewrite(block)
    PROVE  AnnotatorInv'
<1>1. Self.ids \in Nat BY InstFacts, FunctionFacts
<1>2. Self.ids + n \in Nat /\ Self.ids + 3 \in Nat /\ Self.ids + n <= Self.ids + 3
  BY <1>1
<1>3. GoodBlock(block, Self.ids + 3) BY <1>2, GoodBlockLarger DEF Prepared
<1>4. Self.ids + 1 .. Self.ids + n \subseteq Self.ids + 1 .. Self.ids + 3 BY <1>1
<1>5. NumbersOf(block) \subseteq NumbersOf(Block) \cup (Self.ids + 1 .. Self.ids + 3)
  BY <1>4 DEF Prepared
<1> QED BY <1>3, <1>5, RewriteKeeps DEF Prepared

(* No instruction has the number of a constant.                            *)
LEMMA ConstantInFront ==
    ASSUME NEW n, NEW block, GoodBlock(block, n), NEW k
    PROVE  InFront(block, Constant, k)
<1> SUFFICES ASSUME NEW q \in DOMAIN block PROVE block[q].id # Constant BY DEF InFront
<1>1. Fits(block[q], n) BY DEF GoodBlock
<1> QED BY <1>1 DEF Fits, Constant

(* The instructions that are inserted.                                     *)
LEMMA InstrType ==
    ASSUME NEW m \in Nat, NEW op \in Classes, NEW args \in Seq(Int), NEW ty \in Types,
           NEW what \in Marks
    PROVE  Instr(m, op, args, ty, what) \in Insts
<1> DEFINE lists == Seq(Int)
           types == Types
           classes == Classes
           marks == Marks
<1>1. args \in lists /\ ty \in types /\ op \in classes /\ what \in marks OBVIOUS
<1> HIDE DEF lists, types, classes, marks
<1>2. [id |-> m, op |-> op, args |-> args, ty |-> ty, what |-> what]
         \in [id : Nat, op : classes, args : lists, ty : types, what : marks]
  BY <1>1
<1> QED BY <1>2 DEF Instr, Insts, lists, types, classes, marks

(* The classes and marks of what is inserted.                              *)
LEMMA Names ==
    /\ {"track", "cast", "gep", "insertvalue"} \subseteq Classes
    /\ {"none", "bitcast", "ptrtoint", "zext"} \subseteq Marks
BY DEF Classes, Inserted, Marks

LEMMA TrackerFits ==
    ASSUME NEW m \in Nat \ {0}, NEW name \in Marks, NEW args \in Seq(Int),
           \A a \in DOMAIN args : args[a] <= m
    PROVE  LET i == CreateTracker(m, name, args)
           IN  i \in Insts /\ Fits(i, m) /\ i.id = m /\ i.args = args
<1> DEFINE i == CreateTracker(m, name, args)
<1>1. /\ i = [id |-> m, op |-> "track", args |-> args, ty |-> "none", what |-> name]
      /\ "none" \in Types
  BY DEF CreateTracker, Instr, Types
<1>2. i \in Insts BY <1>1, InstrType, Names DEF CreateTracker
<1>3. Len(args) \in Nat /\ Arity("track") = 0 BY LenProperties DEF Arity
<1>4. Fits(i, m) BY <1>1, <1>3 DEF Fits, Conversions
<1> QED BY <1>1, <1>2, <1>4

LEMMA PointerCastFits ==
    ASSUME NEW m \in Nat \ {0}, NEW v \in Int, v <= m
    PROVE  LET i == CreatePointerCast(m, v)
           IN  i \in Insts /\ Fits(i, m) /\ i.id = m /\ i.args = <<v>>
<1> DEFINE i == CreatePointerCast(m, v)
<1>1. /\ i = [id |-> m, op |-> "cast", args |-> <<v>>, ty |-> "ptr", what |-> "bitcast"]
      /\ "ptr" \in Types
  BY DEF CreatePointerCast, Instr, Types
<1>2. <<v>> \in Seq(Int) /\ Len(<<v>>) = 1 /\ DOMAIN <<v>> = 1 .. 1 /\ <<v>>[1] = v OBVIOUS
<1>3. i \in Insts BY <1>1, <1>2, InstrType, Names DEF CreatePointerCast
<1>4. Arity("cast") = 0 BY DEF Arity
<1>5. ValidCast(i) BY <1>1 DEF ValidCast
<1>6. \A k \in DOMAIN <<v>> : <<v>>[k] <= m BY <1>2
<1>7. 1 \in DOMAIN i.args BY <1>1, <1>2
<1>8. Fits(i, m) BY <1>1, <1>2, <1>4, <1>5, <1>6, <1>7 DEF Fits
<1> QED BY <1>1, <1>3, <1>8

LEMMA GepFits ==
    ASSUME NEW m \in Nat \ {0}, NEW v \in Int, v <= m, NEW w \in Int, w <= m
    PROVE  LET i == CreateGep(m, v, w)
           IN  i \in Insts /\ Fits(i, m) /\ i.id = m /\ i.args = <<v, w>>
<1> DEFINE i == CreateGep(m, v, w)
<1>1. /\ i = [id |-> m, op |-> "gep", args |-> <<v, w>>, ty |-> "none", what |-> "none"]
      /\ "none" \in Types
  BY DEF CreateGep, Instr, Types
<1>2. /\ <<v, w>> \in Seq(Int) /\ Len(<<v, w>>) = 2 /\ DOMAIN <<v, w>> = 1 .. 2
      /\ <<v, w>>[1] = v /\ <<v, w>>[2] = w
  OBVIOUS
<1>3. i \in Insts BY <1>1, <1>2, InstrType, Names DEF CreateGep
<1>4. Arity("gep") = 0 BY DEF Arity
<1>5. \A k \in DOMAIN <<v, w>> : <<v, w>>[k] <= m BY <1>2
<1>6. 1 \in DOMAIN i.args BY <1>1, <1>2
<1>7. Fits(i, m) BY <1>1, <1>2, <1>4, <1>5, <1>6 DEF Fits
<1> QED BY <1>1, <1>3, <1>7

LEMMA CastFits ==
    ASSUME NEW m \in Nat \ {0}, NEW w \in Int, w <= m, NEW t \in Types,
           NEW what \in Marks, t # "float" => ValidCast(Instr(m, "cast", <<w>>, t, what))
    PROVE  LET i == Instr(m, "cast", <<w>>, t, what)
           IN  i \in Insts /\ Fits(i, m) /\ i.id = m /\ i.args = <<w>>
<1> DEFINE i == Instr(m, "cast", <<w>>, t, what)
<1>1. i = [id |-> m, op |-> "cast", args |-> <<w>>, ty |-> t, what |-> what] BY DEF Instr
<1>2. <<w>> \in Seq(Int) /\ Len(<<w>>) = 1 /\ DOMAIN <<w>> = 1 .. 1 /\ <<w>>[1] = w OBVIOUS
<1>3. i \in Insts BY <1>2, InstrType, Names
<1>4. Arity("cast") = 0 BY DEF Arity
<1>5. \A k \in DOMAIN <<w>> : <<w>>[k] <= m BY <1>2
<1>6. t # "float" => ValidCast(i) OBVIOUS
<1> HIDE DEF i
<1>7. 1 \in DOMAIN i.args BY <1>1, <1>2
<1>8. Fits(i, m) BY <1>1, <1>2, <1>4, <1>5, <1>6, <1>7 DEF Fits
<1> QED BY <1>1, <1>3, <1>8 DEF i

(* cast2SizeTy: a conversion of the value of an access, or of a constant.  *)
LEMMA ConversionFits ==
    ASSUME NEW m \in Nat \ {0}, NEW v \in Int, v <= m,
           NEW ty \in Types, ty # "none", ty # SizeTy
    PROVE  LET i == Cast2SizeTy(m, v, ty)
           IN  i \in Insts /\ Fits(i, m) /\ i.id = m /\ i.args \in {<<v>>, <<Constant>>}
<1> DEFINE i == Cast2SizeTy(m, v, ty)
<1> SUFFICES i \in Insts /\ Fits(i, m) /\ i.id = m /\ i.args \in {<<v>>, <<Constant>>}
  OBVIOUS
<1> HIDE DEF i
<1>2. CASE ~Castable(ty)
  <2>4. ~BitCastable(ty) /\ ty # "ptr" BY <1>2 DEF Castable, BitCastable
  <2>1. i = Instr(m, "cast", <<Constant>>, "i64", "bitcast")
    BY <1>2, <2>4 DEF i, Cast2SizeTy, SizeTy
  <2>2. ValidCast(i) BY <2>1 DEF ValidCast, Instr, BitCastable
  <2>3. Constant \in Int /\ Constant <= m /\ "i64" \in Types BY DEF Constant, Types
  <2>5. "i64" # "float" => ValidCast(Instr(m, "cast", <<Constant>>, "i64", "bitcast"))
    BY <2>1, <2>2
  <2> HIDE DEF Constant
  <2>6. i \in Insts /\ Fits(i, m) /\ i.id = m /\ i.args = <<Constant>>
    BY <2>1, <2>3, <2>5, CastFits, Names
  <2> QED BY <2>6
<1>3. CASE Castable(ty) /\ BitCastable(ty)
  <2>3. ty # "ptr" BY <1>3 DEF BitCastable
  <2>1. i = Instr(m, "cast", <<v>>, ty, "bitcast") BY <1>3, <2>3 DEF i, Cast2SizeTy
  <2>2. ValidCast(i) BY <1>3, <2>1 DEF ValidCast, Instr
  <2> QED BY <2>1, <2>2, CastFits, Names
<1>4. CASE Castable(ty) /\ ~BitCastable(ty) /\ ty = "ptr"
  <2>1. i = Instr(m, "cast", <<v>>, ty, "ptrtoint") BY <1>4 DEF i, Cast2SizeTy
  <2>2. ValidCast(i) BY <1>4, <2>1 DEF ValidCast, Instr
  <2> QED BY <2>1, <2>2, CastFits, Names
<1>5. CASE Castable(ty) /\ ~BitCastable(ty) /\ ty # "ptr"
  <2>1. i = Instr(m, "cast", <<v>>, ty, "zext") BY <1>5 DEF i, Cast2SizeTy
  <2>2. ty # "float" => ty = "i32" BY <1>5 DEF Types, Castable, BitCastable
  <2>3. ty # "float" => ValidCast(i) BY <2>1, <2>2 DEF ValidCast, Instr
  <2> QED BY <2>1, <2>3, CastFits, Names
<1> QED BY <1>2, <1>3, <1>4, <1>5

-----------------------------------------------------------------------------
(* Allocations, releases and the stack                                     *)

LEMMA FreshFacts ==
    ASSUME AnnotatorInv, AtInst
    PROVE  /\ Self.ids \in Nat
           /\ \A n \in 1 .. 3 : Fresh(n) = Self.ids + n /\ Fresh(n) \in Nat \ {0}
           /\ \A v \in Int : \A n \in 1 .. 3 : v <= Self.ids => v < Fresh(n)
           /\ Fresh(1) < Fresh(2) /\ Fresh(2) < Fresh(3) /\ Fresh(1) < Fresh(3)
           /\ Fresh(1) \in Nat \ {0} /\ Fresh(2) \in Nat \ {0} /\ Fresh(3) \in Nat \ {0}
           /\ Constant \in Int /\ Constant <= Self.ids
<1> DEFINE ids == Self.ids
<1>1. ids \in Nat BY InstFacts, FunctionFacts
<1>2. \A n \in 1 .. 3 : Fresh(n) = ids + n BY DEF Fresh
<1>3. Constant = 0 BY DEF Constant
<1> HIDE DEF ids
<1>4. \A n \in 1 .. 3 : Fresh(n) \in Nat \ {0} BY <1>1, <1>2
<1>5. \A v \in Int : \A n \in 1 .. 3 : v <= ids => v < Fresh(n) BY <1>1, <1>2
<1>6. Fresh(1) = ids + 1 /\ Fresh(2) = ids + 2 /\ Fresh(3) = ids + 3 BY <1>2
<1>7. Fresh(1) < Fresh(2) /\ Fresh(2) < Fresh(3) /\ Fresh(1) < Fresh(3) BY <1>1, <1>6
<1>8. Constant \in Int /\ Constant <= ids BY <1>1, <1>3
<1>9. Fresh(1) \in Nat \ {0} /\ Fresh(2) \in Nat \ {0} /\ Fresh(3) \in Nat \ {0} BY <1>4
<1> QED BY <1>1, <1>2, <1>4, <1>5, <1>7, <1>8, <1>9 DEF ids

LEMMA InFrontLater ==
    ASSUME NEW n, NEW block, GoodBlock(block, n), NEW v, NEW p \in Int, NEW q \in Int, p <= q,
           InFront(block, v, p)
    PROVE  InFront(block, v, q)
BY LenProperties DEF InFront, GoodBlock

(* The operands the pass looks at.                                         *)
LEMMA OperandFacts ==
    ASSUME AnnotatorInv, AtInst, Inst.op \in Ordered, NEW a \in 1 .. Arity(Inst.op),
           Arity(Inst.op) \in Nat
    PROVE  /\ Inst.args[a] \in Int /\ Inst.args[a] <= Self.ids
           /\ InFront(Block, Inst.args[a], pos) /\ InFront(Block, Inst.args[a], pos + 1)
<1>1. a \in DOMAIN Inst.args BY InstFacts
<1>2. /\ Inst.args[a] \in Int /\ Inst.args[a] <= Self.ids
      /\ InFront(Block, Inst.args[a], pos)
  BY <1>1, InstFacts
<1>3. pos \in Int /\ pos + 1 \in Int /\ pos <= pos + 1 BY InstFacts
<1>4. GoodBlock(Block, Self.ids) BY InstFacts, BlockFacts
<1> QED BY <1>2, <1>3, <1>4, InFrontLater

LEMMA InstFound ==
    ASSUME AnnotatorInv, AtInst
    PROVE  PosOf(Block, Inst.id) = pos
BY InstFacts, BlockFacts, PositionFound

LEMMA TrackerMarks ==
    /\ "stack_allocation_bound_after" \in Marks /\ "heap_allocation_bound_after" \in Marks
    /\ "heap_free_before" \in Marks /\ "stack_save_after" \in Marks
    /\ "stack_restore_before" \in Marks /\ "load_integer_after" \in Marks
    /\ "store_integer_before" \in Marks
<1>1. DOMAIN TrackerNames = 1 .. 7 BY DEF TrackerNames
<1>2. \A n \in 1 .. 7 : TrackerNames[n] \in Marks BY <1>1 DEF Marks, Range
<1>3. /\ TrackerNames[1] \in Marks /\ TrackerNames[2] \in Marks /\ TrackerNames[3] \in Marks
      /\ TrackerNames[4] \in Marks /\ TrackerNames[5] \in Marks /\ TrackerNames[6] \in Marks
      /\ TrackerNames[7] \in Marks
  BY <1>2
<1> QED BY <1>3 DEF TrackerNames

(* The last insertion is a tracker, behind all it is given.                *)
LEMMA TrackerAdded ==
    ASSUME AnnotatorInv, AtInst,
           NEW n \in 0 .. 2, NEW m \in 1 .. 3, n < m,
           NEW block, NEW p, Prepared(block, n, p),
           NEW k \in Nat, k \in {p, p + 1} \/ k \in 1 .. Len(block) + 1,
           NEW args \in Seq(Int),
           \A a \in DOMAIN args : args[a] < Fresh(m) /\ InFront(block, args[a], k),
           NEW name \in Marks,
           Rewrite(InsertAt(block, k, CreateTracker(Fresh(m), name, args)))
    PROVE  AnnotatorInv'
<1> DEFINE i == CreateTracker(Fresh(m), name, args)
<1>1. Fresh(m) \in Nat \ {0} BY FreshFacts
<1>2. \A a \in DOMAIN args : args[a] \in Int BY LenProperties, ElementOfSeq
<1>3. \A a \in DOMAIN args : args[a] <= Fresh(m) /\ args[a] # Fresh(m) BY <1>1, <1>2
<1>4. i \in Insts /\ Fits(i, Fresh(m)) /\ i.id = Fresh(m) /\ i.args = args
  BY <1>1, <1>3, TrackerFits
<1> HIDE DEF i
<1>5. n \in 0 .. 3 /\ m \in 0 .. 3 OBVIOUS
<1>6. Prepared(InsertAt(block, k, i), m, IF p < k THEN p ELSE p + 1)
  BY <1>3, <1>4, <1>5, PrepareOne
<1> QED BY <1>5, <1>6, RewritePrepared DEF i

(* One tracker with one value, in front of the instruction or behind it.   *)
LEMMA OneTracker ==
    ASSUME AnnotatorInv, AtInst, NEW v \in Int, v <= Self.ids, NEW k \in {pos, pos + 1},
           InFront(Block, v, k), NEW name \in Marks,
           Rewrite(InsertAt(Block, k, CreateTracker(Fresh(1), name, <<v>>)))
    PROVE  AnnotatorInv'
<1> DEFINE args == <<v>>
<1>1. args \in Seq(Int) /\ DOMAIN args = 1 .. 1 /\ args[1] = v OBVIOUS
<1>2. v < Fresh(1) BY FreshFacts
<1>3. Prepared(Block, 0, pos) BY NothingPrepared
<1>4. k \in Nat /\ k \in {pos, pos + 1} BY InstFacts
<1>5. Rewrite(InsertAt(Block, k, CreateTracker(Fresh(1), name, args))) OBVIOUS
<1> HIDE DEF args
<1>6. \A a \in DOMAIN args : args[a] < Fresh(1) /\ InFront(Block, args[a], k)
  BY <1>1, <1>2
<1>7. 0 \in 0 .. 2 /\ 1 \in 1 .. 3 /\ 0 < 1 OBVIOUS
<1> QED BY <1>1, <1>3, <1>4, <1>5, <1>6, <1>7, TrackerAdded

LEMMA FreeKeeps == AnnotatorInv /\ AnnotateFree => AnnotatorInv'
<1> SUFFICES ASSUME AnnotatorInv, AnnotateFree PROVE AnnotatorInv' OBVIOUS
<1>1. AtInst /\ Inst.op = "free" BY DEF AnnotateFree
<1>2. Inst.op \in Ordered /\ Arity(Inst.op) = 1 BY <1>1 DEF Ordered, Tracked, Arity
<1>3. /\ Inst.args[1] \in Int /\ Inst.args[1] <= Self.ids
      /\ InFront(Block, Inst.args[1], pos)
  BY <1>1, <1>2, OperandFacts
<1>4. Rewrite(InsertAt(Block, pos,
                 CreateTracker(Fresh(1), "heap_free_before", <<Inst.args[1]>>)))
  BY <1>1, InstFound DEF AnnotateFree, InsertBefore
<1> QED BY <1>1, <1>3, <1>4, OneTracker, TrackerMarks

LEMMA StackRestoreKeeps == AnnotatorInv /\ AnnotateStackRestore => AnnotatorInv'
<1> SUFFICES ASSUME AnnotatorInv, AnnotateStackRestore PROVE AnnotatorInv' OBVIOUS
<1>1. AtInst /\ Inst.op = "stackrestore" BY DEF AnnotateStackRestore
<1>2. Inst.op \in Ordered /\ Arity(Inst.op) = 1 BY <1>1 DEF Ordered, Tracked, Arity
<1>3. /\ Inst.args[1] \in Int /\ Inst.args[1] <= Self.ids
      /\ InFront(Block, Inst.args[1], pos)
  BY <1>1, <1>2, OperandFacts
<1>4. Rewrite(InsertAt(Block, pos,
                 CreateTracker(Fresh(1), "stack_restore_before", <<Inst.args[1]>>)))
  BY <1>1, InstFound DEF AnnotateStackRestore, InsertBefore
<1> QED BY <1>1, <1>3, <1>4, OneTracker, TrackerMarks

LEMMA StackSaveKeeps == AnnotatorInv /\ AnnotateStackSave => AnnotatorInv'
<1> SUFFICES ASSUME AnnotatorInv, AnnotateStackSave PROVE AnnotatorInv' OBVIOUS
<1>1. AtInst BY DEF AnnotateStackSave
<1>2. /\ Inst.id \in Int /\ Inst.id <= Self.ids
      /\ InFront(Block, Inst.id, pos + 1)
  BY <1>1, InstFacts, FreshFacts
<1>3. Rewrite(InsertAt(Block, pos + 1,
                 CreateTracker(Fresh(1), "stack_save_after", <<Inst.id>>)))
  BY <1>1, InstFound DEF AnnotateStackSave, InsertAfter
<1> QED BY <1>1, <1>2, <1>3, OneTracker, TrackerMarks

LEMMA MallocKeeps == AnnotatorInv /\ AnnotateMalloc => AnnotatorInv'
<1> SUFFICES ASSUME AnnotatorInv, AnnotateMalloc PROVE AnnotatorInv' OBVIOUS
<1>1. AtInst /\ Inst.op = "malloc" BY DEF AnnotateMalloc
<1>2. Inst.op \in Ordered /\ Arity(Inst.op) = 1
  BY <1>1 DEF Ordered, Tracked, Allocations, Arity
<1>3. /\ Inst.args[1] \in Int /\ Inst.args[1] <= Self.ids
      /\ InFront(Block, Inst.args[1], pos + 1)
  BY <1>1, <1>2, OperandFacts
<1>4. /\ Inst.id \in Int /\ Inst.id <= Self.ids /\ InFront(Block, Inst.id, pos + 1)
      /\ pos \in Nat
  BY <1>1, InstFacts, FreshFacts
<1> DEFINE v == Inst.id
           w == Inst.args[1]
           bound == CreateGep(Fresh(1), v, w)
           one == InsertAt(Block, pos + 1, bound)
           args == <<v, v, bound.id>>
           track == CreateTracker(Fresh(2), "heap_allocation_bound_after", args)
           two == InsertAt(one, pos + 2, track)
<1>5. v < Fresh(1) /\ w < Fresh(1) /\ v < Fresh(2) /\ v # Fresh(2) BY <1>1, <1>3, <1>4, FreshFacts
<1>6. bound \in Insts /\ Fits(bound, Fresh(1)) /\ bound.id = Fresh(1) /\ bound.args = <<v, w>>
  <2>1. Fresh(1) \in Nat \ {0} BY <1>1, FreshFacts
  <2>2. v <= Fresh(1) /\ w <= Fresh(1) BY <1>3, <1>4, <1>5, <2>1
  <2> QED BY <1>3, <1>4, <2>1, <2>2, GepFits
<1>7. Grown(one, Block, pos + 1, Fresh(1)) /\ Prepared(one, 1, pos)
  <2>1. Prepared(Block, 0, pos) BY <1>1, NothingPrepared
  <2>2. \A a \in DOMAIN bound.args :
           bound.args[a] # Fresh(1) /\ InFront(Block, bound.args[a], pos + 1)
    <3>1. DOMAIN <<v, w>> = 1 .. 2 /\ <<v, w>>[1] = v /\ <<v, w>>[2] = w OBVIOUS
    <3>2. \A a \in 1 .. 2 : a = 1 \/ a = 2 OBVIOUS
    <3> QED BY <1>1, <1>3, <1>4, <1>5, <1>6, <3>1, <3>2, FreshFacts
  <2> HIDE DEF bound
  <2>3. pos + 1 \in Nat /\ pos < pos + 1 BY <1>4
  <2> QED BY <1>1, <1>6, <2>1, <2>2, <2>3, PrepareOne
<1> HIDE DEF one
<1>8. /\ args \in Seq(Int) /\ DOMAIN args = 1 .. 3
      /\ args[1] = v /\ args[2] = v /\ args[3] = Fresh(1)
  BY <1>1, <1>4, <1>6, FreshFacts
<1>9. \A a \in DOMAIN args : a = 1 \/ a = 2 \/ a = 3 BY <1>8
<1> HIDE DEF args, bound
<1>10. \A a \in DOMAIN args : args[a] < Fresh(2) /\ InFront(one, args[a], pos + 2)
  <2>1. InFront(one, Fresh(1), pos + 2)
    <3>1. (pos + 1) + 1 = pos + 2 BY <1>4
    <3> QED BY <1>7, <3>1 DEF Grown
  <2>2. InFront(one, v, pos + 2)
    <3>1. (pos + 1) + 1 = pos + 2 /\ pos + 1 \in Nat BY <1>4
    <3>2. v # Fresh(1) BY <1>1, <1>4, <1>5, FreshFacts
    <3> QED BY <1>4, <1>7, <3>1, <3>2 DEF Grown
  <2> QED BY <1>1, <1>5, <1>8, <1>9, <2>1, <2>2, FreshFacts
<1>11. pos + 2 \in Nat /\ pos + 2 \in 1 .. Len(one) + 1
  <2>1. At(one, pos + 1, Fresh(1)) BY <1>7 DEF Grown
  <2>2. one \in Seq(Insts) BY <1>7 DEF Prepared, GoodBlock
  <2>3. pos + 1 \in 1 .. Len(one) BY <2>1, <2>2, LenProperties DEF At
  <2> QED BY <1>4, <2>2, <2>3, LenProperties
<1>12. Rewrite(two)
  <2>1. InsertAfter(Block, Inst.id, bound) = one BY <1>1, InstFound DEF InsertAfter, one
  <2>2. PosOf(one, Fresh(1)) = pos + 1 BY <1>7, PositionFound DEF Grown
  <2>3. (pos + 1) + 1 = pos + 2 BY <1>4
  <2>4. InsertAfter(one, bound.id, track) = two BY <1>6, <2>2, <2>3 DEF InsertAfter
  <2>5. Rewrite(InsertAfter(InsertAfter(Block, Inst.id, bound), bound.id, track))
    BY DEF AnnotateMalloc, bound, args
  <2> QED BY <2>1, <2>4, <2>5
<1>13. 1 \in 0 .. 2 /\ 2 \in 1 .. 3 /\ 1 < 2 OBVIOUS
<1> QED BY <1>1, <1>7, <1>8, <1>10, <1>11, <1>12, <1>13, TrackerAdded, TrackerMarks

(* The three instructions behind an alloca, one after the other.           *)
Stitched(block, k, x, y, z) ==
    SubSeq(block, 1, k) \o <<x, y, z>> \o SubSeq(block, k + 1, Len(block))

LEMMA ThreeInserted ==
    ASSUME NEW block \in Seq(Insts), NEW k \in 1 .. Len(block),
           NEW x \in Insts, NEW y \in Insts, NEW z \in Insts
    PROVE  Stitched(block, k, x, y, z)
             = InsertAt(InsertAt(InsertAt(block, k + 1, x), k + 2, y), k + 3, z)
<1> DEFINE L == Len(block)
           pre == SubSeq(block, 1, k)
           three == <<x, y, z>>
           post == SubSeq(block, k + 1, L)
           new == pre \o three \o post
           one == InsertAt(block, k + 1, x)
           two == InsertAt(one, k + 2, y)
           all == InsertAt(two, k + 3, z)
<1>1. L \in Nat /\ k \in Nat /\ k <= L /\ \A p \in 1 .. L : block[p] \in Insts
  BY LenProperties, ElementOfSeq
<1>2. pre \in Seq(Insts) /\ Len(pre) = k /\ \A p \in 1 .. k : pre[p] = block[p]
  <2>1. \A p \in 1 .. k : block[p] \in Insts BY <1>1
  <2>2. /\ pre \in Seq(Insts)
        /\ Len(pre) = IF 1 <= k THEN k - 1 + 1 ELSE 0
        /\ \A p \in 1 .. k - 1 + 1 : pre[p] = block[1 + p - 1]
    BY <1>1, <2>1, SubSeqProperties
  <2> QED BY <1>1, <2>2
<1>3. /\ post \in Seq(Insts) /\ Len(post) = L - k
      /\ \A p \in 1 .. L - k : post[p] = block[k + p]
  <2>1. \A p \in k + 1 .. L : block[p] \in Insts BY <1>1
  <2>2. /\ post \in Seq(Insts)
        /\ Len(post) = IF k + 1 <= L THEN L - (k + 1) + 1 ELSE 0
        /\ \A p \in 1 .. L - (k + 1) + 1 : post[p] = block[(k + 1) + p - 1]
    BY <1>1, <2>1, SubSeqProperties
  <2> QED BY <1>1, <2>2
<1>4. /\ three \in Seq(Insts) /\ Len(three) = 3
      /\ three[1] = x /\ three[2] = y /\ three[3] = z
  OBVIOUS
<1> DEFINE left == pre \o three
<1> HIDE DEF pre, post, three
<1>5. /\ left \in Seq(Insts) /\ Len(left) = k + 3
      /\ \A p \in 1 .. k + 3 : left[p] = IF p <= k THEN pre[p] ELSE three[p - k]
  <2>1. /\ left \in Seq(Insts) /\ Len(left) = Len(pre) + Len(three)
        /\ \A p \in 1 .. Len(pre) + Len(three) :
              left[p] = IF p <= Len(pre) THEN pre[p] ELSE three[p - Len(pre)]
    BY <1>2, <1>4, ConcatProperties
  <2> QED BY <1>2, <1>4, <2>1
<1> HIDE DEF left
<1>6. /\ new \in Seq(Insts) /\ Len(new) = L + 3
      /\ \A p \in 1 .. L + 3 : new[p] = IF p <= k + 3 THEN left[p] ELSE post[p - (k + 3)]
  <2> DEFINE joined == left \o post
  <2>1. /\ joined \in Seq(Insts) /\ Len(joined) = Len(left) + Len(post)
        /\ \A p \in 1 .. Len(left) + Len(post) :
              joined[p] = IF p <= Len(left) THEN left[p] ELSE post[p - Len(left)]
    BY <1>3, <1>5, ConcatProperties
  <2>2. new = joined BY DEF left
  <2>3. Len(left) + Len(post) = L + 3 BY <1>1, <1>3, <1>5
  <2> HIDE DEF new, joined
  <2> QED BY <1>5, <2>1, <2>2, <2>3
<1> HIDE DEF new
<1>7. Inserts(one, block, k + 1, x)
  <2>1. k + 1 \in 1 .. Len(block) + 1 BY <1>1
  <2> QED BY <2>1, InsertAtInserts
<1> HIDE DEF one
<1>8. Inserts(two, one, k + 2, y)
  <2>1. one \in Seq(Insts) /\ k + 2 \in 1 .. Len(one) + 1 BY <1>1, <1>7 DEF Inserts
  <2> QED BY <2>1, InsertAtInserts
<1> HIDE DEF two
<1>9. Inserts(all, two, k + 3, z)
  <2>1. two \in Seq(Insts) /\ k + 3 \in 1 .. Len(two) + 1 BY <1>1, <1>7, <1>8 DEF Inserts
  <2> QED BY <2>1, InsertAtInserts
<1> HIDE DEF all
<1>10. Len(one) = L + 1 /\ Len(two) = L + 2 /\ Len(all) = L + 3 /\ all \in Seq(Insts)
  BY <1>1, <1>7, <1>8, <1>9 DEF Inserts
<1>11. ASSUME NEW p \in 1 .. L + 3 PROVE new[p] = all[p]
  <2>1. /\ all[p] = IF p < k + 3 THEN two[p] ELSE IF p = k + 3 THEN z ELSE two[p - 1]
        /\ new[p] = IF p <= k + 3 THEN left[p] ELSE post[p - (k + 3)]
    BY <1>6, <1>9, <1>10 DEF Inserts
  <2>2. CASE p <= k
    <3>1. p \in 1 .. L + 1 /\ p \in 1 .. L + 2 /\ p \in 1 .. k /\ p \in 1 .. k + 3
      BY <1>1, <2>2
    <3>2. two[p] = one[p] /\ one[p] = block[p] BY <1>1, <1>7, <1>8, <1>10, <2>2, <3>1 DEF Inserts
    <3>3. left[p] = block[p] BY <1>2, <1>5, <2>2, <3>1
    <3>4. p < k + 3 /\ p <= k + 3 BY <1>1, <2>2
    <3> QED BY <2>1, <3>2, <3>3, <3>4
  <2>3. CASE p = k + 1
    <3>1. p \in 1 .. L + 1 /\ p \in 1 .. L + 2 BY <1>1, <2>3
    <3>2. two[p] = one[p] /\ one[p] = x BY <1>1, <1>7, <1>8, <1>10, <2>3, <3>1 DEF Inserts
    <3>3. left[p] = x
      <4>1. p \in 1 .. k + 3 /\ ~(p <= k) /\ p - k = 1 BY <1>1, <2>3
      <4> QED BY <1>4, <1>5, <4>1
    <3>4. p < k + 3 /\ p <= k + 3 BY <1>1, <2>3
    <3> QED BY <2>1, <3>2, <3>3, <3>4
  <2>4. CASE p = k + 2
    <3>1. p \in 1 .. L + 2 BY <1>1, <2>4
    <3>2. two[p] = y BY <1>1, <1>8, <1>10, <2>4, <3>1 DEF Inserts
    <3>3. left[p] = y
      <4>1. p \in 1 .. k + 3 /\ ~(p <= k) /\ p - k = 2 BY <1>1, <2>4
      <4> QED BY <1>4, <1>5, <4>1
    <3>4. p < k + 3 /\ p <= k + 3 BY <1>1, <2>4
    <3> QED BY <2>1, <3>2, <3>3, <3>4
  <2>5. CASE p = k + 3
    <3>1. left[p] = z
      <4>1. p \in 1 .. k + 3 /\ ~(p <= k) /\ p - k = 3 BY <1>1, <2>5
      <4> QED BY <1>4, <1>5, <4>1
    <3>2. ~(p < k + 3) /\ p <= k + 3 BY <1>1, <2>5
    <3> QED BY <2>1, <2>5, <3>1, <3>2
  <2>6. CASE p > k + 3
    <3>1. /\ p - 1 \in 1 .. L + 2 /\ ~(p - 1 < k + 2) /\ p - 1 # k + 2
          /\ p - 2 \in 1 .. L + 1 /\ ~(p - 2 < k + 1) /\ p - 2 # k + 1
          /\ (p - 1) - 1 = p - 2 /\ (p - 2) - 1 = p - 3
          /\ p - (k + 3) \in 1 .. L - k /\ k + (p - (k + 3)) = p - 3
          /\ ~(p < k + 3) /\ p # k + 3 /\ ~(p <= k + 3)
      BY <1>1, <2>6
    <3>2. two[p - 1] = one[p - 2] BY <1>8, <1>10, <3>1 DEF Inserts
    <3>3. one[p - 2] = block[p - 3] BY <1>7, <1>10, <3>1 DEF Inserts
    <3>4. post[p - (k + 3)] = block[p - 3] BY <1>3, <3>1
    <3> QED BY <2>1, <3>1, <3>2, <3>3, <3>4
  <2>7. p <= k \/ p = k + 1 \/ p = k + 2 \/ p = k + 3 \/ p > k + 3 BY <1>1
  <2> QED BY <2>2, <2>3, <2>4, <2>5, <2>6, <2>7
<1>12. new = all BY <1>6, <1>10, <1>11, SeqEqual
<1> QED BY <1>12 DEF Stitched, new, all, two, one, pre, post, three

LEMMA AllocaKeeps == AnnotatorInv /\ AnnotateAlloca => AnnotatorInv'
<1> SUFFICES ASSUME AnnotatorInv, AnnotateAlloca PROVE AnnotatorInv' OBVIOUS
<1>1. AtInst BY DEF AnnotateAlloca
<1> DEFINE v == Inst.id
           base == CreatePointerCast(Fresh(1), v)
           bound == CreateGep(Fresh(2), base.id, Constant)
           args == <<base.id, base.id, bound.id>>
           track == CreateTracker(Fresh(3), "stack_allocation_bound_after", args)
           one == InsertAt(Block, pos + 1, base)
           two == InsertAt(one, pos + 2, bound)
           all == InsertAt(two, pos + 3, track)
<1>2. /\ v \in Int /\ v < Fresh(1) /\ v <= Fresh(1) /\ v # Fresh(1) /\ InFront(Block, v, pos + 1)
      /\ pos \in Nat
  <2>1. v \in Int /\ v <= Self.ids /\ InFront(Block, v, pos + 1) /\ pos \in Nat
    BY <1>1, InstFacts, FreshFacts
  <2>2. v < Fresh(1) /\ Fresh(1) \in Nat BY <1>1, <2>1, FreshFacts
  <2> QED BY <2>1, <2>2
<1>3. /\ Fresh(1) \in Nat \ {0} /\ Fresh(2) \in Nat \ {0} /\ Fresh(3) \in Nat \ {0}
      /\ Fresh(1) < Fresh(2) /\ Fresh(2) < Fresh(3) /\ Fresh(1) < Fresh(3)
      /\ Constant \in Int /\ Constant < Fresh(2)
  BY <1>1, FreshFacts
<1>4. base \in Insts /\ Fits(base, Fresh(1)) /\ base.id = Fresh(1) /\ base.args = <<v>>
  BY <1>2, <1>3, PointerCastFits
<1>5. /\ bound \in Insts /\ Fits(bound, Fresh(2)) /\ bound.id = Fresh(2)
      /\ bound.args = <<Fresh(1), Constant>>
  <2>1. Fresh(1) <= Fresh(2) /\ Constant <= Fresh(2) BY <1>3
  <2>2. bound = CreateGep(Fresh(2), Fresh(1), Constant) BY <1>4
  <2> QED BY <1>3, <2>1, <2>2, GepFits
<1>6. /\ args \in Seq(Int) /\ DOMAIN args = 1 .. 3
      /\ args[1] = Fresh(1) /\ args[2] = Fresh(1) /\ args[3] = Fresh(2)
  BY <1>3, <1>4, <1>5
<1>7. \A a \in DOMAIN args : a = 1 \/ a = 2 \/ a = 3 BY <1>6
<1>8. track \in Insts
  <2> HIDE DEF args
  <2>1. \A a \in DOMAIN args : args[a] <= Fresh(3) BY <1>3, <1>6, <1>7
  <2> QED BY <1>3, <1>6, <2>1, TrackerFits, TrackerMarks
<1>9. Rewrite(all)
  <2>1. Block \in Seq(Insts) /\ pos \in 1 .. Len(Block) BY <1>1, InstFacts, BlockFacts
  <2>2. Stitched(Block, pos, base, bound, track) = all
    <3> HIDE DEF base, bound, track
    <3> QED BY <1>4, <1>5, <1>8, <2>1, ThreeInserted
  <2>3. Rewrite(SubSeq(Block, 1, pos) \o AllocaTracking(base, bound, track)
                  \o SubSeq(Block, pos + 1, Len(Block)))
    BY DEF AnnotateAlloca
  <2> HIDE DEF base, bound, track, all
  <2> QED BY <2>2, <2>3 DEF AllocaTracking, Stitched
<1> HIDE DEF base, bound, one, two
<1>10. Grown(one, Block, pos + 1, Fresh(1)) /\ Prepared(one, 1, pos)
  <2>1. Prepared(Block, 0, pos) BY <1>1, NothingPrepared
  <2>2. \A a \in DOMAIN base.args :
           base.args[a] # Fresh(1) /\ InFront(Block, base.args[a], pos + 1)
    <3>1. DOMAIN <<v>> = 1 .. 1 /\ <<v>>[1] = v OBVIOUS
    <3> QED BY <1>2, <1>4, <3>1
  <2>3. pos + 1 \in Nat /\ pos < pos + 1 BY <1>2
  <2>4. 0 \in 0 .. 3 /\ 1 \in 0 .. 3 /\ 0 < 1 OBVIOUS
  <2>5. /\ Grown(InsertAt(Block, pos + 1, base), Block, pos + 1, Fresh(1))
        /\ Prepared(InsertAt(Block, pos + 1, base), 1, IF pos < pos + 1 THEN pos ELSE pos + 1)
    BY <1>1, <1>4, <2>1, <2>2, <2>3, <2>4, PrepareOne
  <2> QED BY <2>3, <2>5 DEF one
<1>11. pos + 1 \in Nat /\ (pos + 1) + 1 = pos + 2 /\ pos + 2 \in Nat /\ (pos + 2) + 1 = pos + 3
       /\ pos + 3 \in Nat
  BY <1>2
<1>12. InFront(one, Fresh(1), pos + 2) BY <1>10, <1>11 DEF Grown
<1>13. Grown(two, one, pos + 2, Fresh(2)) /\ Prepared(two, 2, pos)
  <2>1. \A a \in DOMAIN bound.args :
           bound.args[a] # Fresh(2) /\ InFront(one, bound.args[a], pos + 2)
    <3> DEFINE pair == <<Fresh(1), Constant>>
    <3>1. DOMAIN pair = 1 .. 2 /\ pair[1] = Fresh(1) /\ pair[2] = Constant OBVIOUS
    <3>2. \A a \in 1 .. 2 : a = 1 \/ a = 2 OBVIOUS
    <3>3. Fresh(1) # Fresh(2) /\ Constant # Fresh(2) BY <1>3
    <3>4. InFront(one, Constant, pos + 2) BY <1>10, ConstantInFront DEF Prepared
    <3>5. bound.args = pair BY <1>5
    <3> HIDE DEF pair
    <3> QED BY <1>12, <3>1, <3>2, <3>3, <3>4, <3>5
  <2>2. pos + 2 \in 1 .. Len(one) + 1
    <3>1. At(one, pos + 1, Fresh(1)) BY <1>10 DEF Grown
    <3>2. one \in Seq(Insts) BY <1>10 DEF Prepared, GoodBlock
    <3>3. pos + 1 \in 1 .. Len(one) BY <3>1, <3>2, LenProperties DEF At
    <3> QED BY <1>2, <3>2, <3>3, LenProperties
  <2>3. pos < pos + 2 BY <1>2
  <2>4. 1 \in 0 .. 3 /\ 2 \in 0 .. 3 /\ 1 < 2 OBVIOUS
  <2>5. /\ Grown(InsertAt(one, pos + 2, bound), one, pos + 2, Fresh(2))
        /\ Prepared(InsertAt(one, pos + 2, bound), 2, IF pos < pos + 2 THEN pos ELSE pos + 1)
    BY <1>1, <1>5, <1>10, <1>11, <2>1, <2>2, <2>4, PrepareOne
  <2> QED BY <2>3, <2>5 DEF two
<1>14. InFront(two, Fresh(2), pos + 3) BY <1>11, <1>13 DEF Grown
<1>15. InFront(two, Fresh(1), pos + 3)
  <2>1. Fresh(1) \in Int /\ Fresh(1) # Fresh(2) BY <1>3
  <2> QED BY <1>11, <1>12, <1>13, <2>1 DEF Grown
<1> HIDE DEF args
<1>16. \A a \in DOMAIN args : args[a] < Fresh(3) /\ InFront(two, args[a], pos + 3)
  BY <1>3, <1>6, <1>7, <1>14, <1>15
<1>17. pos + 3 \in 1 .. Len(two) + 1
  <2>1. At(two, pos + 2, Fresh(2)) BY <1>13 DEF Grown
  <2>2. two \in Seq(Insts) BY <1>13 DEF Prepared, GoodBlock
  <2>3. pos + 2 \in 1 .. Len(two) BY <2>1, <2>2, LenProperties DEF At
  <2> QED BY <1>2, <2>2, <2>3, LenProperties
<1>18. 2 \in 0 .. 2 /\ 3 \in 1 .. 3 /\ 2 < 3 OBVIOUS
<1> QED BY <1>1, <1>6, <1>9, <1>11, <1>13, <1>16, <1>17, <1>18, TrackerAdded, TrackerMarks

-----------------------------------------------------------------------------
(* Accesses                                                                *)

(* The pointer of an access as the trackers take it: where the instruction *)
(* has come to, what stood in front of it still does, and so does the      *)
(* pointer.                                                                *)
PointerReady(block, p) ==
    /\ Prepared(block, 1, p)
    /\ Pointer(1) \in Int /\ Pointer(1) < Fresh(2)
    /\ InFront(block, Pointer(1), p)
    /\ InFront(block, Inst.id, p + 1)
    /\ \A v \in Int : v <= Self.ids /\ InFront(Block, v, pos) => InFront(block, v, p)

LEMMA PointerPrepared ==
    ASSUME AnnotatorInv, AtInst, Inst.op \in {"load", "store"}
    PROVE  \E p \in Nat : PointerReady(WithPointer(Block, 1), p)
<1> DEFINE v == Inst.args[1]
<1>1. Inst.op \in Ordered /\ Arity(Inst.op) \in {1, 2} BY DEF Ordered, Tracked, Arity
<1>2. 1 \in 1 .. Arity(Inst.op) /\ Arity(Inst.op) \in Nat BY <1>1
<1>3. v \in Int /\ v <= Self.ids /\ InFront(Block, v, pos) BY <1>1, <1>2, OperandFacts
<1>4. /\ pos \in Nat /\ Inst.id \in Int /\ Inst.id <= Self.ids
      /\ InFront(Block, Inst.id, pos + 1)
  BY InstFacts, FreshFacts
<1>5. Prepared(Block, 0, pos) BY NothingPrepared
<1>6. /\ Fresh(1) \in Nat \ {0} /\ Fresh(2) \in Nat /\ Fresh(1) < Fresh(2)
      /\ Self.ids \in Nat /\ Fresh(1) = Self.ids + 1
      /\ \A u \in Int : u <= Self.ids => u < Fresh(1) /\ u < Fresh(2)
  <2>1. Fresh(1) = Self.ids + 1 BY FreshFacts
  <2> QED BY <2>1, FreshFacts
<1>7. CASE Inst.what = VoidPtrTy
  <2>1. WithPointer(Block, 1) = Block /\ Pointer(1) = v BY <1>7 DEF WithPointer, Pointer
  <2>2. GoodBlock(Block, Self.ids + 0) /\ Self.ids + 0 = Self.ids BY <1>5, <1>6 DEF Prepared
  <2>3. Self.ids + 1 \in Nat /\ Self.ids <= Self.ids + 1 BY <1>6
  <2>4. GoodBlock(Block, Self.ids + 1) BY <1>6, <2>2, <2>3, GoodBlockLarger
  <2>5. NumbersOf(Block) \subseteq NumbersOf(Block) \cup (Self.ids + 1 .. Self.ids + 1) OBVIOUS
  <2>6. Prepared(Block, 1, pos) BY <1>5, <2>4, <2>5 DEF Prepared
  <2> QED BY <1>3, <1>4, <1>6, <2>1, <2>6 DEF PointerReady
<1>8. CASE Inst.what # VoidPtrTy
  <2> DEFINE cast == CreatePointerCast(Fresh(1), v)
             new == InsertAt(Block, pos, cast)
  <2>1. WithPointer(Block, 1) = new /\ Pointer(1) = Fresh(1)
    BY <1>8, InstFound DEF WithPointer, Pointer, InsertBefore
  <2>2. v <= Fresh(1) /\ v # Fresh(1) BY <1>3, <1>6
  <2>3. cast \in Insts /\ Fits(cast, Fresh(1)) /\ cast.id = Fresh(1) /\ cast.args = <<v>>
    BY <1>3, <1>6, <2>2, PointerCastFits
  <2>4. \A a \in DOMAIN cast.args :
           cast.args[a] # Fresh(1) /\ InFront(Block, cast.args[a], pos)
    <3>1. DOMAIN <<v>> = 1 .. 1 /\ <<v>>[1] = v OBVIOUS
    <3> QED BY <1>3, <2>2, <2>3, <3>1
  <2>5. 0 \in 0 .. 3 /\ 1 \in 0 .. 3 /\ 0 < 1 OBVIOUS
  <2> HIDE DEF cast
  <2>6. /\ Grown(new, Block, pos, Fresh(1))
        /\ Prepared(new, 1, IF pos < pos THEN pos ELSE pos + 1)
    BY <1>4, <1>5, <2>3, <2>4, <2>5, PrepareOne
  <2> HIDE DEF new
  <2>7. Prepared(new, 1, pos + 1) /\ pos + 1 \in Nat BY <1>4, <2>6
  <2>8. InFront(new, Fresh(1), pos + 1) BY <2>6 DEF Grown
  <2>9. Inst.id # Fresh(1) BY <1>4, <1>6
  <2>10. InFront(new, Inst.id, (pos + 1) + 1) BY <1>4, <2>6, <2>7, <2>9 DEF Grown
  <2>11. ASSUME NEW u \in Int, u <= Self.ids, InFront(Block, u, pos)
         PROVE  InFront(new, u, pos + 1)
    <3>1. u # Fresh(1) BY <1>6, <2>11
    <3> QED BY <1>4, <2>6, <2>11, <3>1 DEF Grown
  <2>12. Fresh(1) \in Int BY <1>6
  <2> QED BY <1>6, <2>1, <2>7, <2>8, <2>10, <2>11, <2>12 DEF PointerReady
<1> QED BY <1>7, <1>8

LEMMA LoadKeeps == AnnotatorInv /\ AnnotateLoad => AnnotatorInv'
<1> SUFFICES ASSUME AnnotatorInv, AnnotateLoad PROVE AnnotatorInv' OBVIOUS
<1> DEFINE block == WithPointer(Block, 1)
           v == Inst.id
           cast == Cast2SizeTy(Fresh(2), v, Inst.ty)
<1>1. AtInst /\ Inst.op = "load" BY DEF AnnotateLoad
<1>2. Inst.ty \in Types /\ Inst.ty # "none"
  <2>1. Inst \in Insts /\ Fits(Inst, Self.ids) BY <1>1, InstFacts
  <2> QED BY <1>1, <2>1 DEF Insts, Fits
<1>3. PICK p \in Nat : PointerReady(block, p) BY <1>1, PointerPrepared
<1>4. v \in Int /\ v <= Self.ids /\ InFront(block, v, p + 1)
  BY <1>1, <1>3, InstFacts, FreshFacts DEF PointerReady
<1> HIDE DEF block
<1>5. /\ Prepared(block, 1, p) /\ GoodBlock(block, Self.ids + 1) /\ At(block, p, Inst.id)
      /\ Pointer(1) \in Int /\ Pointer(1) < Fresh(2) /\ InFront(block, Pointer(1), p)
  BY <1>3 DEF PointerReady, Prepared
<1>6. PosOf(block, Inst.id) = p BY <1>5, PositionFound
<1>7. p + 1 \in Nat /\ p + 2 \in Nat /\ (p + 1) + 1 = p + 2 /\ p < p + 1 /\ p <= p + 1
  OBVIOUS
<1>8. InFront(block, Pointer(1), p + 1) BY <1>5, <1>7, InFrontLater
<1>9. /\ Fresh(2) \in Nat \ {0} /\ Fresh(3) \in Nat \ {0} /\ Fresh(2) < Fresh(3)
      /\ v < Fresh(2) /\ v < Fresh(3) /\ v <= Fresh(2) /\ v # Fresh(2)
      /\ Pointer(1) < Fresh(3) /\ Pointer(1) # Fresh(2)
      /\ Constant \in Int /\ Constant < Fresh(2) /\ Constant # Fresh(2)
  <2>1. /\ Fresh(2) \in Nat \ {0} /\ Fresh(3) \in Nat \ {0} /\ Fresh(2) < Fresh(3)
        /\ v < Fresh(2) /\ Constant \in Int /\ Constant < Fresh(2)
    BY <1>1, <1>4, FreshFacts
  <2> QED BY <1>4, <1>5, <2>1
(* The value is one of 64 bits already.                                    *)
<1>10. CASE Inst.ty = SizeTy
  <2> DEFINE args == <<Pointer(1), v>>
  <2>1. args \in Seq(Int) /\ DOMAIN args = 1 .. 2 /\ args[1] = Pointer(1) /\ args[2] = v
    BY <1>4, <1>5
  <2>2. \A a \in 1 .. 2 : a = 1 \/ a = 2 OBVIOUS
  <2>3. Rewrite(InsertAt(block, p + 1, CreateTracker(Fresh(3), "load_integer_after", args)))
    <3>1. Rewrite(InsertAfter(block, Inst.id,
                     CreateTracker(Fresh(3), "load_integer_after", args)))
      BY <1>10 DEF AnnotateLoad, LoadPos, block
    <3> QED BY <1>6, <3>1 DEF InsertAfter
  <2> HIDE DEF args
  <2>4. \A a \in DOMAIN args : args[a] < Fresh(3) /\ InFront(block, args[a], p + 1)
    BY <1>4, <1>5, <1>8, <1>9, <2>1, <2>2
  <2>5. 1 \in 0 .. 2 /\ 3 \in 1 .. 3 /\ 1 < 3 OBVIOUS
  <2> QED BY <1>1, <1>5, <1>7, <2>1, <2>3, <2>4, <2>5, TrackerAdded, TrackerMarks
(* It is converted.                                                        *)
<1>11. CASE Inst.ty # SizeTy
  <2>1. /\ cast \in Insts /\ Fits(cast, Fresh(2)) /\ cast.id = Fresh(2)
        /\ cast.args \in {<<v>>, <<Constant>>}
    BY <1>2, <1>4, <1>9, <1>11, ConversionFits
  <2>2. InFront(block, Constant, p + 1) BY <1>5, ConstantInFront
  <2> DEFINE new == InsertAt(block, p + 1, cast)
             args == <<Pointer(1), Fresh(2)>>
             track == CreateTracker(Fresh(3), "load_integer_after", args)
  <2>3. \A a \in DOMAIN cast.args :
           cast.args[a] # Fresh(2) /\ InFront(block, cast.args[a], p + 1)
    <3>1. /\ DOMAIN <<v>> = 1 .. 1 /\ <<v>>[1] = v
          /\ DOMAIN <<Constant>> = 1 .. 1 /\ <<Constant>>[1] = Constant
      OBVIOUS
    <3> HIDE DEF cast
    <3> QED BY <1>4, <1>9, <2>1, <2>2, <3>1
  <2>4. 1 \in 0 .. 3 /\ 2 \in 0 .. 3 /\ 1 < 2 OBVIOUS
  <2>5. Rewrite(InsertAfter(new, Fresh(2), track))
    <3>1. Rewrite(InsertAfter(InsertAfter(block, Inst.id, cast), LoadPos(Fresh(2)), track))
      BY <1>11 DEF AnnotateLoad, block
    <3> HIDE DEF cast, track
    <3> QED BY <1>6, <3>1 DEF InsertAfter, LoadPos
  <2> HIDE DEF cast
  <2>6. /\ Grown(new, block, p + 1, Fresh(2))
        /\ Prepared(new, 2, IF p < p + 1 THEN p ELSE p + 1)
    BY <1>1, <1>5, <1>7, <2>1, <2>3, <2>4, PrepareOne
  <2> HIDE DEF new
  <2>7. Prepared(new, 2, p) /\ At(new, p + 1, Fresh(2)) /\ GoodBlock(new, Fresh(2))
    BY <1>7, <2>6 DEF Grown
  <2>8. Rewrite(InsertAt(new, p + 2, track))
    <3>1. PosOf(new, Fresh(2)) = p + 1 BY <2>7, PositionFound
    <3> QED BY <1>7, <2>5, <3>1 DEF InsertAfter
  <2>9. InFront(new, Fresh(2), p + 2) BY <1>7, <2>6 DEF Grown
  <2>10. InFront(new, Pointer(1), p + 2)
    BY <1>5, <1>7, <1>8, <1>9, <2>6 DEF Grown
  <2>11. args \in Seq(Int) /\ DOMAIN args = 1 .. 2 /\ args[1] = Pointer(1) /\ args[2] = Fresh(2)
    BY <1>5, <1>9
  <2>12. \A a \in 1 .. 2 : a = 1 \/ a = 2 OBVIOUS
  <2>13. p + 2 \in 1 .. Len(new) + 1
    <3>1. new \in Seq(Insts) BY <2>7 DEF GoodBlock
    <3>2. p + 1 \in 1 .. Len(new) BY <2>7, <3>1, LenProperties DEF At
    <3> QED BY <3>1, <3>2, LenProperties
  <2>14. 2 \in 0 .. 2 /\ 3 \in 1 .. 3 /\ 2 < 3 OBVIOUS
  <2> HIDE DEF args
  <2>15. \A a \in DOMAIN args : args[a] < Fresh(3) /\ InFront(new, args[a], p + 2)
    BY <1>9, <2>9, <2>10, <2>11, <2>12
  <2> QED BY <1>1, <1>7, <2>7, <2>8, <2>11, <2>13, <2>14, <2>15, TrackerAdded, TrackerMarks
<1> QED BY <1>10, <1>11

LEMMA StoreKeeps == AnnotatorInv /\ AnnotateStore => AnnotatorInv'
<1> SUFFICES ASSUME AnnotatorInv, AnnotateStore PROVE AnnotatorInv' OBVIOUS
<1> DEFINE block == WithPointer(Block, 1)
           v == Inst.args[2]
           cast == Cast2SizeTy(Fresh(2), v, Inst.ty)
<1>1. AtInst /\ Inst.op = "store" BY DEF AnnotateStore
<1>2. Inst.ty \in Types /\ Inst.ty # "none"
  <2>1. Inst \in Insts /\ Fits(Inst, Self.ids) BY <1>1, InstFacts
  <2> QED BY <1>1, <2>1 DEF Insts, Fits
<1>3. PICK p \in Nat : PointerReady(block, p) BY <1>1, PointerPrepared
<1>4. v \in Int /\ v <= Self.ids /\ InFront(block, v, p)
  <2>1. Inst.op \in Ordered /\ Arity(Inst.op) = 2 BY <1>1 DEF Ordered, Tracked, Arity
  <2>2. v \in Int /\ v <= Self.ids /\ InFront(Block, v, pos)
    BY <1>1, <2>1, OperandFacts
  <2> QED BY <1>3, <2>2 DEF PointerReady
<1> HIDE DEF block
<1>5. /\ Prepared(block, 1, p) /\ GoodBlock(block, Self.ids + 1) /\ At(block, p, Inst.id)
      /\ Pointer(1) \in Int /\ Pointer(1) < Fresh(2) /\ InFront(block, Pointer(1), p)
  BY <1>3 DEF PointerReady, Prepared
<1>6. PosOf(block, Inst.id) = p BY <1>5, PositionFound
<1>7. p + 1 \in Nat /\ p + 2 \in Nat /\ (p + 1) + 1 = p + 2 /\ p < p + 1 /\ p <= p + 1
  OBVIOUS
<1>8. InFront(block, Pointer(1), p + 1) BY <1>5, <1>7, InFrontLater
<1>9. /\ Fresh(2) \in Nat \ {0} /\ Fresh(3) \in Nat \ {0} /\ Fresh(2) < Fresh(3)
      /\ v < Fresh(2) /\ v < Fresh(3) /\ v <= Fresh(2) /\ v # Fresh(2)
      /\ Pointer(1) < Fresh(3) /\ Pointer(1) # Fresh(2)
      /\ Constant \in Int /\ Constant < Fresh(2) /\ Constant # Fresh(2)
  <2>1. /\ Fresh(2) \in Nat \ {0} /\ Fresh(3) \in Nat \ {0} /\ Fresh(2) < Fresh(3)
        /\ v < Fresh(2) /\ Constant \in Int /\ Constant < Fresh(2)
    BY <1>1, <1>4, FreshFacts
  <2> QED BY <1>4, <1>5, <2>1
(* The value is one of 64 bits already.                                    *)
<1>10. CASE Inst.ty = SizeTy
  <2> DEFINE args == <<Pointer(1), v>>
  <2>1. args \in Seq(Int) /\ DOMAIN args = 1 .. 2 /\ args[1] = Pointer(1) /\ args[2] = v
    BY <1>4, <1>5
  <2>2. \A a \in 1 .. 2 : a = 1 \/ a = 2 OBVIOUS
  <2>3. Rewrite(InsertAt(block, p, CreateTracker(Fresh(3), "store_integer_before", args)))
    <3>1. Rewrite(InsertBefore(block, Inst.id,
                     CreateTracker(Fresh(3), "store_integer_before", args)))
      BY <1>10 DEF AnnotateStore, block
    <3> QED BY <1>6, <3>1 DEF InsertBefore
  <2> HIDE DEF args
  <2>4. \A a \in DOMAIN args : args[a] < Fresh(3) /\ InFront(block, args[a], p)
    BY <1>4, <1>5, <1>8, <1>9, <2>1, <2>2
  <2>5. 1 \in 0 .. 2 /\ 3 \in 1 .. 3 /\ 1 < 3 OBVIOUS
  <2> QED BY <1>1, <1>5, <1>7, <2>1, <2>3, <2>4, <2>5, TrackerAdded, TrackerMarks
(* It is converted.                                                        *)
<1>11. CASE Inst.ty # SizeTy
  <2>1. /\ cast \in Insts /\ Fits(cast, Fresh(2)) /\ cast.id = Fresh(2)
        /\ cast.args \in {<<v>>, <<Constant>>}
    BY <1>2, <1>4, <1>9, <1>11, ConversionFits
  <2>2. InFront(block, Constant, p) BY <1>5, ConstantInFront
  <2> DEFINE new == InsertAt(block, p, cast)
             args == <<Pointer(1), Fresh(2)>>
             track == CreateTracker(Fresh(3), "store_integer_before", args)
  <2>3. \A a \in DOMAIN cast.args :
           cast.args[a] # Fresh(2) /\ InFront(block, cast.args[a], p)
    <3>1. /\ DOMAIN <<v>> = 1 .. 1 /\ <<v>>[1] = v
          /\ DOMAIN <<Constant>> = 1 .. 1 /\ <<Constant>>[1] = Constant
      OBVIOUS
    <3> HIDE DEF cast
    <3> QED BY <1>4, <1>9, <2>1, <2>2, <3>1
  <2>4. 1 \in 0 .. 3 /\ 2 \in 0 .. 3 /\ 1 < 2 OBVIOUS
  <2>5. Rewrite(InsertBefore(new, Inst.id, track))
    <3>1. Rewrite(InsertBefore(InsertBefore(block, Inst.id, cast), Inst.id, track))
      BY <1>11 DEF AnnotateStore, block
    <3> HIDE DEF cast, track
    <3> QED BY <1>6, <3>1 DEF InsertBefore
  <2> HIDE DEF cast
  <2>6. /\ Grown(new, block, p, Fresh(2))
        /\ Prepared(new, 2, IF p < p THEN p ELSE p + 1)
    BY <1>1, <1>5, <1>7, <2>1, <2>3, <2>4, PrepareOne
  <2> HIDE DEF new
  <2>7. Prepared(new, 2, p + 1) BY <1>7, <2>6
  <2>8. Rewrite(InsertAt(new, p + 1, track))
    <3>1. PosOf(new, Inst.id) = p + 1 BY <2>7, PositionFound DEF Prepared
    <3> QED BY <2>5, <3>1 DEF InsertBefore
  <2>9. InFront(new, Fresh(2), p + 1) BY <2>6 DEF Grown
  <2>10. InFront(new, Pointer(1), p + 1)
    BY <1>5, <1>7, <1>9, <2>6 DEF Grown
  <2>11. args \in Seq(Int) /\ DOMAIN args = 1 .. 2 /\ args[1] = Pointer(1) /\ args[2] = Fresh(2)
    BY <1>5, <1>9
  <2>12. \A a \in 1 .. 2 : a = 1 \/ a = 2 OBVIOUS
  <2>14. 2 \in 0 .. 2 /\ 3 \in 1 .. 3 /\ 2 < 3 OBVIOUS
  <2> HIDE DEF args
  <2>15. \A a \in DOMAIN args : args[a] < Fresh(3) /\ InFront(new, args[a], p + 1)
    BY <1>9, <2>9, <2>10, <2>11, <2>12
  <2> QED BY <1>1, <1>7, <2>7, <2>8, <2>11, <2>14, <2>15, TrackerAdded, TrackerMarks
<1> QED BY <1>10, <1>11

-----------------------------------------------------------------------------
(* The copy of main                                                        *)

LEMMA InsertvalueFits ==
    ASSUME NEW m \in Nat \ {0}, NEW v \in Int, v <= m, NEW w \in Int, w <= m
    PROVE  LET i == Instr(m, "insertvalue", <<v, w>>, "none", "none")
           IN  i \in Insts /\ Fits(i, m) /\ i.id = m /\ i.args = <<v, w>>
<1> DEFINE i == Instr(m, "insertvalue", <<v, w>>, "none", "none")
<1>1. /\ i = [id |-> m, op |-> "insertvalue", args |-> <<v, w>>, ty |-> "none", what |-> "none"]
      /\ "none" \in Types
  BY DEF Instr, Types
<1>2. /\ <<v, w>> \in Seq(Int) /\ Len(<<v, w>>) = 2 /\ DOMAIN <<v, w>> = 1 .. 2
      /\ <<v, w>>[1] = v /\ <<v, w>>[2] = w
  OBVIOUS
<1>3. i \in Insts BY <1>1, <1>2, InstrType, Names
<1>4. Arity("insertvalue") = 0 BY DEF Arity
<1>5. \A k \in DOMAIN <<v, w>> : <<v, w>>[k] <= m BY <1>2
<1>6. Fits(i, m) BY <1>1, <1>2, <1>4, <1>5 DEF Fits, Conversions
<1> QED BY <1>1, <1>3, <1>6

(* Behind what the block has, a return comes with the pair it returns.     *)
LEMMA PairedReturnGood ==
    ASSUME NEW c \in Nat, NEW block, GoodBlock(block, c), Last(block).op = "ret"
    PROVE  /\ GoodBlock(PairedReturn(block, c), c + 2)
           /\ NumbersOf(PairedReturn(block, c)) = NumbersOf(block) \cup {c + 1, c + 2}
<1> DEFINE L == Len(block)
           ret == Last(block)
           v == ret.args[1]
           x == Instr(c + 1, "insertvalue", <<Constant, v>>, "none", "none")
           y == Instr(c + 2, "insertvalue", <<c + 1, v>>, "none", "none")
           z == [ret EXCEPT !.args = <<c + 2>>]
           one == InsertAt(block, L, x)
           two == InsertAt(one, L + 1, y)
           new == PairedReturn(block, c)
<1>1. /\ block \in Seq(Insts) /\ L \in Nat \ {0} /\ DOMAIN block = 1 .. L /\ L \in 1 .. L
      /\ L \in DOMAIN block /\ \A p \in 1 .. L : block[p] \in Insts
  BY LenProperties, ElementOfSeq, EmptySeq DEF GoodBlock
<1>2. ret = block[L] /\ ret \in Insts /\ ret.op = "ret" /\ Fits(ret, c)
  BY <1>1 DEF Last, GoodBlock
<1>3. v \in Int /\ v <= c /\ InFront(block, v, L)
  <2>1. Arity("ret") = 1 BY DEF Arity
  <2>2. ret.args \in Seq(Int) BY <1>2 DEF Insts
  <2>3. 1 \in DOMAIN ret.args /\ DOMAIN ret.args = 1 .. Len(ret.args)
    BY <1>2, <2>1, <2>2, LenProperties DEF Fits
  <2>4. v \in Int /\ v <= c BY <1>2, <2>2, <2>3, ElementOfSeq DEF Fits
  <2>5. ret.op \in Ordered BY <1>2 DEF Ordered
  <2>6. \A p \in DOMAIN block : block[p].id = v => p < L
    BY <1>1, <1>2, <2>3, <2>5 DEF GoodBlock, UsedBehind, Uses
  <2> QED BY <2>4, <2>6 DEF InFront
<1> HIDE DEF ret, v
<1>4. /\ c + 1 \in Nat \ {0} /\ c + 2 \in Nat \ {0} /\ v <= c + 1 /\ v <= c + 2
      /\ v # c + 1 /\ v # c + 2 /\ c + 1 <= c + 2 /\ c < c + 1 /\ c + 1 < c + 2
      /\ c + 1 # c + 2 /\ c + 1 \in Int
      /\ Constant \in Int /\ Constant <= c + 1 /\ Constant # c + 1
  BY <1>3 DEF Constant
<1>5. /\ x \in Insts /\ Fits(x, c + 1) /\ x.id = c + 1 /\ x.args = <<Constant, v>>
      /\ y \in Insts /\ Fits(y, c + 2) /\ y.id = c + 2 /\ y.args = <<c + 1, v>>
  BY <1>3, <1>4, InsertvalueFits
<1> HIDE DEF x, y
<1>6. \A a \in 1 .. 2 : a = 1 \/ a = 2 OBVIOUS
<1>7. Grown(one, block, L, c + 1)
  <2> DEFINE pair == <<Constant, v>>
  <2>1. DOMAIN pair = 1 .. 2 /\ pair[1] = Constant /\ pair[2] = v OBVIOUS
  <2>2. InFront(block, Constant, L) BY ConstantInFront
  <2>3. x.args = pair BY <1>5
  <2> HIDE DEF pair
  <2>4. \A a \in DOMAIN x.args : x.args[a] # c + 1 /\ InFront(block, x.args[a], L)
    BY <1>3, <1>4, <1>6, <2>1, <2>2, <2>3
  <2>5. L \in 1 .. Len(block) + 1 BY <1>1
  <2> QED BY <1>4, <1>5, <2>4, <2>5, InsertGrows
<1>8. Inserts(one, block, L, x)
  <2>1. L \in 1 .. Len(block) + 1 BY <1>1
  <2> QED BY <1>1, <1>5, <2>1, InsertAtInserts
<1> HIDE DEF one
<1>9. GoodBlock(one, c + 1) /\ one \in Seq(Insts) /\ Len(one) = L + 1
  BY <1>1, <1>7, <1>8 DEF Grown, Inserts
<1>10. Grown(two, one, L + 1, c + 2)
  <2> DEFINE pair == <<c + 1, v>>
  <2>1. DOMAIN pair = 1 .. 2 /\ pair[1] = c + 1 /\ pair[2] = v OBVIOUS
  <2>2. InFront(one, c + 1, L + 1) BY <1>7 DEF Grown
  <2>3. InFront(one, v, L + 1) BY <1>1, <1>3, <1>4, <1>7 DEF Grown
  <2>4. y.args = pair BY <1>5
  <2> HIDE DEF pair
  <2>5. \A a \in DOMAIN y.args : y.args[a] # c + 2 /\ InFront(one, y.args[a], L + 1)
    BY <1>4, <1>6, <2>1, <2>2, <2>3, <2>4
  <2>6. L + 1 \in 1 .. Len(one) + 1 BY <1>1, <1>9
  <2> QED BY <1>4, <1>5, <1>9, <2>5, <2>6, InsertGrows
<1>11. Inserts(two, one, L + 1, y)
  <2>1. L + 1 \in 1 .. Len(one) + 1 BY <1>1, <1>9
  <2> QED BY <1>5, <1>9, <2>1, InsertAtInserts
<1> HIDE DEF two
<1>12. /\ two \in Seq(Insts) /\ Len(two) = L + 2 /\ GoodBlock(two, c + 2)
       /\ DOMAIN two = 1 .. L + 2 /\ L + 2 \in 1 .. L + 2
       /\ \A p \in 1 .. L - 1 : two[p] = block[p]
       /\ two[L] = x /\ two[L + 1] = y /\ two[L + 2] = ret
  <2>1. two \in Seq(Insts) /\ Len(two) = L + 2 BY <1>1, <1>9, <1>11 DEF Inserts
  <2>2. DOMAIN two = 1 .. L + 2 /\ L + 2 \in 1 .. L + 2 BY <1>1, <2>1, LenProperties
  <2>3. ASSUME NEW p \in 1 .. L - 1 PROVE two[p] = block[p]
    <3>1. p \in 1 .. L + 1 /\ p \in 1 .. L + 2 /\ p < L + 1 /\ p < L BY <1>1
    <3>2. two[p] = one[p] BY <1>11, <2>1, <3>1 DEF Inserts
    <3>3. one[p] = block[p] BY <1>8, <1>9, <3>1 DEF Inserts
    <3> QED BY <3>2, <3>3
  <2>4. two[L] = x
    <3>1. L \in 1 .. L + 1 /\ L \in 1 .. L + 2 /\ L < L + 1 /\ ~(L < L) BY <1>1
    <3>2. two[L] = one[L] BY <1>11, <2>1, <3>1 DEF Inserts
    <3>3. one[L] = x BY <1>8, <1>9, <3>1 DEF Inserts
    <3> QED BY <3>2, <3>3
  <2>5. two[L + 1] = y
    <3>1. L + 1 \in 1 .. L + 2 /\ ~(L + 1 < L + 1) BY <1>1
    <3> QED BY <1>11, <2>1, <3>1 DEF Inserts
  <2>6. two[L + 2] = ret
    <3> HIDE DEF L
    <3>1. /\ L + 2 \in 1 .. L + 2 /\ ~(L + 2 < L + 1) /\ L + 2 # L + 1 /\ (L + 2) - 1 = L + 1
          /\ L + 1 \in 1 .. L + 1 /\ ~(L + 1 < L) /\ L + 1 # L /\ (L + 1) - 1 = L
      BY <1>1
    <3>2. two[L + 2] = one[L + 1] BY <1>11, <2>1, <3>1 DEF Inserts
    <3>3. one[L + 1] = block[L] BY <1>8, <1>9, <3>1 DEF Inserts
    <3> QED BY <1>2, <3>2, <3>3
  <2>7. GoodBlock(two, c + 2) BY <1>10 DEF Grown
  <2> QED BY <2>1, <2>2, <2>3, <2>4, <2>5, <2>6, <2>7
<1>13. /\ z \in Insts /\ z.id = ret.id /\ z.op = "ret" /\ z.args = <<c + 2>>
       /\ Fits(z, c + 2)
  <2> DEFINE arg == <<c + 2>>
  <2>1. arg \in Seq(Int) /\ Len(arg) = 1 /\ DOMAIN arg = 1 .. 1 /\ arg[1] = c + 2 OBVIOUS
  <2>2. z = [ret EXCEPT !.args = arg] OBVIOUS
  <2> HIDE DEF arg, z
  <2>3. z \in Insts BY <1>2, <2>1, <2>2 DEF Insts
  <2>4. z.id = ret.id /\ z.op = "ret" /\ z.args = arg BY <1>2, <2>2 DEF Insts
  <2>5. ret.id \in 1 .. c + 2 BY <1>2 DEF Fits, Insts
  <2>6. Arity("ret") = 1 BY DEF Arity
  <2>7. \A k \in DOMAIN arg : arg[k] <= c + 2 BY <2>1
  <2>9. z.op \notin {"load", "store"} /\ z.op # "cast" /\ z.op \notin Conversions
    BY <2>4 DEF Conversions
  <2>10. z.id \in 1 .. c + 2 /\ Len(z.args) >= Arity(z.op)
    <3>1. z.id \in 1 .. c + 2 BY <2>4, <2>5
    <3>2. Len(z.args) = 1 /\ Arity(z.op) = 1 BY <2>1, <2>4, <2>6
    <3> QED BY <3>1, <3>2
  <2>8. Fits(z, c + 2) BY <2>4, <2>7, <2>9, <2>10 DEF Fits
  <2> QED BY <2>3, <2>4, <2>8 DEF arg
<1>14. /\ new \in Seq(Insts) /\ Len(new) = L + 2 /\ DOMAIN new = 1 .. L + 2
       /\ \A p \in 1 .. L + 2 : new[p] = IF p = L + 2 THEN z ELSE two[p]
  <2> DEFINE front == Front(block)
             three == <<x, y, z>>
  <2>1. /\ front \in Seq(Insts) /\ Len(front) = L - 1
        /\ \A p \in 1 .. L - 1 : front[p] = block[p]
    <3>1. \A p \in 1 .. L - 1 : block[p] \in Insts BY <1>1
    <3> DEFINE sub == SubSeq(block, 1, L - 1)
    <3>2. /\ sub \in Seq(Insts)
          /\ Len(sub) = IF 1 <= L - 1 THEN L - 1 - 1 + 1 ELSE 0
          /\ \A p \in 1 .. L - 1 - 1 + 1 : sub[p] = block[1 + p - 1]
      BY <1>1, <3>1, SubSeqProperties
    <3>3. front = sub BY DEF Front
    <3> HIDE DEF sub, front, L
    <3> QED BY <1>1, <3>2, <3>3
  <2> HIDE DEF z
  <2>2. /\ three \in Seq(Insts) /\ Len(three) = 3
        /\ three[1] = x /\ three[2] = y /\ three[3] = z
    BY <1>5, <1>13
  <2>3. new = front \o three BY DEF PairedReturn, x, y, z, ret, v
  <2> HIDE DEF front, three, new
  <2>4. /\ new \in Seq(Insts) /\ Len(new) = Len(front) + Len(three)
        /\ \A p \in 1 .. Len(front) + Len(three) :
              new[p] = IF p <= Len(front) THEN front[p] ELSE three[p - Len(front)]
    BY <2>1, <2>2, <2>3, ConcatProperties
  <2>5. Len(new) = L + 2 /\ Len(front) + Len(three) = L + 2 BY <1>1, <2>1, <2>2, <2>4
  <2>6. ASSUME NEW p \in 1 .. L + 2 PROVE new[p] = IF p = L + 2 THEN z ELSE two[p]
    <3>1. new[p] = IF p <= L - 1 THEN front[p] ELSE three[p - (L - 1)]
      BY <2>1, <2>4, <2>5
    <3> HIDE DEF L
    <3>2. CASE p <= L - 1
      <4>1. p \in 1 .. L - 1 /\ p # L + 2 BY <1>1, <3>2
      <4> QED BY <1>12, <2>1, <3>1, <3>2, <4>1
    <3>3. CASE p = L
      <4>1. ~(p <= L - 1) /\ p - (L - 1) = 1 /\ p # L + 2 BY <1>1, <3>3
      <4> QED BY <1>12, <2>2, <3>1, <3>3, <4>1
    <3>4. CASE p = L + 1
      <4>1. ~(p <= L - 1) /\ p - (L - 1) = 2 /\ p # L + 2 BY <1>1, <3>4
      <4> QED BY <1>12, <2>2, <3>1, <3>4, <4>1
    <3>5. CASE p = L + 2
      <4>1. ~(p <= L - 1) /\ p - (L - 1) = 3 BY <1>1, <3>5
      <4> QED BY <2>2, <3>1, <3>5, <4>1
    <3>6. p <= L - 1 \/ p = L \/ p = L + 1 \/ p = L + 2 BY <1>1
    <3> QED BY <3>2, <3>3, <3>4, <3>5, <3>6
  <2>7. DOMAIN new = 1 .. L + 2 BY <2>4, <2>5, LenProperties
  <2> QED BY <2>4, <2>5, <2>6, <2>7
<1> HIDE DEF z, new
<1>15. \A p \in 1 .. L + 2 : new[p].id = two[p].id BY <1>12, <1>13, <1>14
<1>16. UsedBehind(new, Ordered)
  <2> SUFFICES ASSUME NEW p \in 1 .. L + 2, NEW q \in 1 .. L + 2,
                      new[q].op \in Ordered, Uses(new[q], new[p].id)
               PROVE  p < q
    BY <1>14 DEF UsedBehind
  <2>1. CASE q = L + 2
    <3> DEFINE arg == <<c + 2>>
    <3>1. DOMAIN arg = 1 .. 1 /\ arg[1] = c + 2 OBVIOUS
    <3>2. z.args = arg BY <1>13
    <3> HIDE DEF arg
    <3>3. new[p].id = c + 2 BY <1>14, <2>1, <3>1, <3>2 DEF Uses
    <3>4. InFront(two, c + 2, (L + 1) + 1) BY <1>10 DEF Grown
    <3>5. p < (L + 1) + 1 BY <1>12, <1>15, <3>3, <3>4 DEF InFront
    <3> QED BY <1>1, <2>1, <3>5
  <2>2. CASE q # L + 2
    <3>1. new[q] = two[q] BY <1>14, <2>2
    <3>2. Uses(two[q], two[p].id) /\ two[q].op \in Ordered BY <1>15, <3>1
    <3> QED BY <1>12, <3>2 DEF GoodBlock, UsedBehind
  <2> QED BY <2>1, <2>2
<1>17. GoodBlock(new, c + 2)
  <2>1. \A p \in DOMAIN new : Fits(new[p], c + 2) BY <1>12, <1>13, <1>14 DEF GoodBlock
  <2>2. \A p, q \in DOMAIN new : new[p].id = new[q].id => p = q
    BY <1>12, <1>14, <1>15 DEF GoodBlock
  <2>3. new # <<>>
    <3>1. Len(new) # 0 BY <1>1, <1>14
    <3> QED BY <3>1, EmptySeq
  <2> QED BY <1>14, <1>16, <2>1, <2>2, <2>3 DEF GoodBlock
<1>18. NumbersOf(new) = NumbersOf(block) \cup {c + 1, c + 2}
  <2>1. NumbersOf(new) = NumbersOf(two) BY <1>12, <1>14, <1>15 DEF NumbersOf
  <2>2. NumbersOf(two) = NumbersOf(one) \cup {c + 2} BY <1>10 DEF Grown
  <2>3. NumbersOf(one) = NumbersOf(block) \cup {c + 1} BY <1>7 DEF Grown
  <2> QED BY <2>1, <2>2, <2>3
<1> QED BY <1>17, <1>18 DEF new

LEMMA CloneGood ==
    ASSUME NEW f, GoodFunction(f), f.name = "main"
    PROVE  GoodFunction(CloneFunction(f))
<1> DEFINE g == CloneFunction(f)
           N == Len(f.blocks)
           from(b) == f.ids + 2 * (b - 1)
<1>1. /\ f.ids \in Nat /\ f.blocks \in Seq(Seq(Insts)) /\ N \in Nat
      /\ DOMAIN f.blocks = 1 .. N
  BY LenProperties DEF GoodFunction, AnyFunction
<1>2. /\ g.name = "main" \o "_clone" /\ g.ids = f.ids + 2 * N
      /\ DOMAIN g.blocks = 1 .. N
      /\ \A b \in 1 .. N :
            g.blocks[b] = IF Last(f.blocks[b]).op = "ret"
                          THEN PairedReturn(f.blocks[b], from(b)) ELSE f.blocks[b]
      /\ g = [name |-> g.name, ids |-> g.ids, blocks |-> g.blocks]
  BY <1>1 DEF CloneFunction
<1>3. g.blocks = [b \in 1 .. N |-> g.blocks[b]] BY <1>1 DEF CloneFunction
<1> HIDE DEF g
<1>4. ASSUME NEW b \in 1 .. N
      PROVE  /\ from(b) \in Nat /\ f.ids <= from(b) /\ from(b) + 2 <= f.ids + 2 * N
             /\ from(b) + 2 \in Nat /\ f.ids + 2 * N \in Nat /\ f.ids <= f.ids + 2 * N
  <2> HIDE DEF N
  <2>1. b \in Nat /\ 1 <= b /\ b <= N /\ N \in Nat /\ f.ids \in Nat BY <1>1
  <2> DEFINE ids == f.ids
  <2>2. ids \in Nat BY <2>1
  <2> HIDE DEF ids
  <2>3. /\ ids + 2 * (b - 1) \in Nat /\ ids <= ids + 2 * (b - 1)
        /\ ids + 2 * (b - 1) + 2 <= ids + 2 * N
        /\ ids + 2 * (b - 1) + 2 \in Nat /\ ids + 2 * N \in Nat /\ ids <= ids + 2 * N
    BY <2>1, <2>2
  <2> QED BY <2>3 DEF ids
<1>5. ASSUME NEW b \in 1 .. N, NEW c \in 1 .. N, b # c
      PROVE  {from(b) + 1, from(b) + 2} \cap {from(c) + 1, from(c) + 2} = {}
  <2> HIDE DEF N
  <2>1. b \in Int /\ c \in Int /\ f.ids \in Int BY <1>1
  <2>2. from(b) = f.ids + 2 * b - 2 /\ from(c) = f.ids + 2 * c - 2 BY <2>1
  <2>3. b < c \/ c < b BY <1>5, <2>1
  <2> QED BY <2>1, <2>2, <2>3
<1> HIDE DEF from
(* The blocks of the copy have numbers of their own, or those of main.     *)
<1>6. ASSUME NEW b \in 1 .. N
      PROVE  /\ GoodBlock(g.blocks[b], f.ids + 2 * N)
             /\ NumbersOf(g.blocks[b])
                   \subseteq NumbersOf(f.blocks[b]) \cup {from(b) + 1, from(b) + 2}
  <2>1. GoodBlock(f.blocks[b], f.ids) BY <1>1 DEF GoodFunction
  <2>2. CASE Last(f.blocks[b]).op = "ret"
    <3>1. GoodBlock(f.blocks[b], from(b)) BY <1>1, <1>4, <2>1, GoodBlockLarger
    <3>2. /\ GoodBlock(g.blocks[b], from(b) + 2)
          /\ NumbersOf(g.blocks[b]) = NumbersOf(f.blocks[b]) \cup {from(b) + 1, from(b) + 2}
      BY <1>2, <1>4, <2>2, <3>1, PairedReturnGood
    <3>3. GoodBlock(g.blocks[b], f.ids + 2 * N) BY <1>4, <3>2, GoodBlockLarger
    <3> QED BY <3>2, <3>3
  <2>3. CASE Last(f.blocks[b]).op # "ret"
    <3>1. g.blocks[b] = f.blocks[b] BY <1>2, <2>3
    <3>2. GoodBlock(f.blocks[b], f.ids + 2 * N) BY <1>1, <1>4, <2>1, GoodBlockLarger
    <3> QED BY <3>1, <3>2
  <2> QED BY <2>2, <2>3
<1>7. g \in AnyFunction
  <2>1. \A b \in 1 .. N : g.blocks[b] \in Seq(Insts) BY <1>6 DEF GoodBlock
  <2> DEFINE names == AnyName
             lists == Seq(Insts)
             bodies == Seq(lists)
             name == g.name
             ids == g.ids
             blocks == g.blocks
  <2>2. \A b \in 1 .. N : blocks[b] \in lists BY <2>1
  <2>3. blocks = [b \in 1 .. N |-> blocks[b]] BY <1>3
  <2>4. name \in names BY <1>2 DEF AnyName
  <2>5. ids \in Nat BY <1>1, <1>2
  <2>6. g = [name |-> name, ids |-> ids, blocks |-> blocks] BY <1>2
  <2> HIDE DEF names, lists, name, ids, blocks
  <2>7. blocks \in [1 .. N -> lists] BY <2>2, <2>3
  <2>8. blocks \in bodies
    <3>1. bodies = UNION {[1 .. n -> lists] : n \in Nat} BY SeqDef
    <3>2. N \in Nat BY <1>1
    <3> HIDE DEF N, bodies
    <3> QED BY <2>7, <3>1, <3>2
  <2> HIDE DEF bodies
  <2>9. g \in [name : names, ids : Nat, blocks : bodies] BY <2>4, <2>5, <2>6, <2>8
  <2> QED BY <2>9 DEF AnyFunction, names, lists, bodies
<1>8. ASSUME NEW b \in 1 .. N, NEW c \in 1 .. N, b # c
      PROVE  NumbersOf(g.blocks[b]) \cap NumbersOf(g.blocks[c]) = {}
  <2> DEFINE oldB == NumbersOf(f.blocks[b])
             oldC == NumbersOf(f.blocks[c])
             newB == {from(b) + 1, from(b) + 2}
             newC == {from(c) + 1, from(c) + 2}
  <2>1. oldB \cap oldC = {}
    <3>1. NumbersApart(f) BY DEF GoodFunction
    <3>2. \A q \in DOMAIN f.blocks[b], r \in DOMAIN f.blocks[c] :
             f.blocks[b][q].id # f.blocks[c][r].id
      BY <1>1, <1>8, <3>1 DEF NumbersApart
    <3> QED BY <3>2 DEF NumbersOf
  <2>2. oldB \subseteq 1 .. f.ids /\ oldC \subseteq 1 .. f.ids
    <3>1. ASSUME NEW d \in 1 .. N PROVE NumbersOf(f.blocks[d]) \subseteq 1 .. f.ids
      <4>1. GoodBlock(f.blocks[d], f.ids) BY <1>1 DEF GoodFunction
      <4> QED BY <4>1 DEF NumbersOf, GoodBlock, Fits
    <3> QED BY <3>1
  <2>3. newB \cap newC = {} BY <1>5, <1>8
  <2>4. (1 .. f.ids) \cap newB = {}
    <3>1. from(b) \in Nat /\ f.ids <= from(b) BY <1>4
    <3> QED BY <1>1, <3>1
  <2>5. (1 .. f.ids) \cap newC = {}
    <3>1. from(c) \in Nat /\ f.ids <= from(c) BY <1>4
    <3> QED BY <1>1, <3>1
  <2>6. /\ NumbersOf(g.blocks[b]) \subseteq oldB \cup newB
        /\ NumbersOf(g.blocks[c]) \subseteq oldC \cup newC
    BY <1>6
  <2> HIDE DEF oldB, oldC, newB, newC
  <2> QED BY <2>1, <2>2, <2>3, <2>4, <2>5, <2>6
<1>9. NumbersApart(g)
  <2> SUFFICES ASSUME NEW b \in 1 .. N, NEW c \in 1 .. N,
                      NEW q \in DOMAIN g.blocks[b], NEW r \in DOMAIN g.blocks[c],
                      g.blocks[b][q].id = g.blocks[c][r].id
               PROVE  b = c /\ q = r
    BY <1>2 DEF NumbersApart
  <2>1. b = c
    <3>1. /\ g.blocks[b][q].id \in NumbersOf(g.blocks[b])
          /\ g.blocks[c][r].id \in NumbersOf(g.blocks[c])
      BY DEF NumbersOf
    <3> QED BY <1>8, <3>1
  <2> QED BY <1>6, <2>1 DEF GoodBlock
<1>10. \A b \in DOMAIN g.blocks : GoodBlock(g.blocks[b], g.ids) BY <1>2, <1>6
<1> QED BY <1>7, <1>9, <1>10 DEF GoodFunction, g

LEMMA EnterFunctionKeeps == AnnotatorInv /\ EnterFunction => AnnotatorInv'
<1> SUFFICES ASSUME AnnotatorInv, EnterFunction PROVE AnnotatorInv' OBVIOUS
<1>1. AtFunction /\ bb = 0 /\ bb' = 1 /\ fn' = fn /\ pos' = pos BY DEF EnterFunction
<1>2. /\ fn \in 1 .. Len(funs) /\ GoodFunction(Self) /\ Len(Self.blocks) \in Nat
      /\ DOMAIN Self.blocks = 1 .. Len(Self.blocks)
  BY <1>1, FunctionFacts
<1>3. Len(funs) \in Nat /\ DOMAIN funs = 1 .. Len(funs) /\ funs \in Seq(AnyFunction)
  BY LenProperties DEF AnnotatorInv
<1>4. pos = 1
  <2>1. 0 \notin 1 .. Len(Self.blocks) BY <1>2
  <2> QED BY <1>1, <1>2, <2>1 DEF AnnotatorInv, InBlock
<1>5. /\ funs' \in Seq(AnyFunction) /\ Len(funs') \in Nat /\ Len(funs) <= Len(funs')
      /\ DOMAIN funs' = 1 .. Len(funs') /\ funs'[fn] = Self
      /\ \A f \in DOMAIN funs' : GoodFunction(funs'[f])
  <2>1. CASE Self.name # "main"
    <3>1. funs' = funs BY <2>1 DEF EnterFunction
    <3> QED BY <1>2, <1>3, <3>1 DEF Self, AnnotatorInv
  <2>2. CASE Self.name = "main"
    <3> DEFINE clone == CloneFunction(Self)
    <3>1. GoodFunction(clone) BY <1>2, <2>2, CloneGood
    <3>2. clone \in AnyFunction BY <3>1 DEF GoodFunction
    <3>3. funs' = Append(funs, clone) BY <2>2 DEF EnterFunction
    <3> HIDE DEF clone
    <3>4. /\ funs' \in Seq(AnyFunction) /\ Len(funs') = Len(funs) + 1
          /\ \A f \in 1 .. Len(funs) : funs'[f] = funs[f]
          /\ funs'[Len(funs) + 1] = clone
      BY <1>3, <3>2, <3>3, AppendProperties
    <3>5. DOMAIN funs' = 1 .. Len(funs) + 1 BY <3>4, LenProperties
    <3>6. ASSUME NEW f \in DOMAIN funs' PROVE GoodFunction(funs'[f])
      <4>1. f \in 1 .. Len(funs) \/ f = Len(funs) + 1 BY <1>3, <3>5
      <4> QED BY <1>3, <3>1, <3>4, <4>1 DEF AnnotatorInv
    <3> QED BY <1>2, <1>3, <3>4, <3>5, <3>6 DEF Self
  <2> QED BY <2>1, <2>2
<1>6. Self' = Self BY <1>1, <1>5 DEF Self
<1>7. fn' \in 1 .. Len(funs') + 1 BY <1>1, <1>2, <1>3, <1>5
<1>9. bb' \in 0 .. Len(Self.blocks) + 1 /\ bb' \in Nat BY <1>1, <1>2
<1>10. InBlock' => pos' \in 1 .. Len(Block') + 1
  <2> SUFFICES ASSUME InBlock' PROVE 1 \in 1 .. Len(Self.blocks[1]) + 1
    BY <1>1, <1>4, <1>6 DEF Block
  <2>1. 1 \in DOMAIN Self.blocks BY <1>1, <1>6 DEF InBlock
  <2>2. GoodBlock(Self.blocks[1], Self.ids) BY <1>2, <2>1 DEF GoodFunction
  <2>3. Len(Self.blocks[1]) \in Nat BY <2>2, LenProperties DEF GoodBlock
  <2> QED BY <2>3
<1>11. pos' = 1 BY <1>1, <1>4
<1> QED BY <1>5, <1>6, <1>7, <1>9, <1>10, <1>11 DEF AnnotatorInv

LEMMA EndBlockKeeps == AnnotatorInv /\ EndBlock => AnnotatorInv'
<1> SUFFICES ASSUME AnnotatorInv, EndBlock PROVE AnnotatorInv' OBVIOUS
<1>1. InBlock /\ AtFunction /\ bb' = bb + 1 /\ pos' = 1 /\ fn' = fn /\ funs' = funs
  BY DEF EndBlock, InBlock
<1>2. /\ Len(Self.blocks) \in Nat /\ DOMAIN Self.blocks = 1 .. Len(Self.blocks)
      /\ GoodFunction(Self) /\ bb \in Nat
  BY <1>1, FunctionFacts
<1>3. bb' \in 0 .. Len(Self.blocks) + 1 /\ bb' \in Nat BY <1>1, <1>2 DEF InBlock
<1>4. Self' = Self BY <1>1 DEF Self
<1>5. InBlock' => pos' \in 1 .. Len(Block') + 1
  <2> SUFFICES ASSUME InBlock' PROVE 1 \in 1 .. Len(Self.blocks[bb + 1]) + 1
    BY <1>1, <1>4 DEF Block
  <2>1. bb + 1 \in DOMAIN Self.blocks BY <1>1, <1>4 DEF InBlock
  <2>2. GoodBlock(Self.blocks[bb + 1], Self.ids) BY <1>2, <2>1 DEF GoodFunction
  <2>3. Len(Self.blocks[bb + 1]) \in Nat BY <2>2, LenProperties DEF GoodBlock
  <2> QED BY <2>3
<1> QED BY <1>1, <1>3, <1>4, <1>5 DEF AnnotatorInv

LEMMA EndFunctionKeeps == AnnotatorInv /\ EndFunction => AnnotatorInv'
<1> SUFFICES ASSUME AnnotatorInv, EndFunction PROVE AnnotatorInv' OBVIOUS
<1>1. /\ AtFunction /\ bb > Len(Self.blocks) /\ fn' = fn + 1 /\ bb' = 0 /\ pos' = pos
      /\ funs' = funs
  BY DEF EndFunction
<1>2. /\ Len(Self.blocks) \in Nat /\ DOMAIN Self.blocks = 1 .. Len(Self.blocks)
      /\ fn \in 1 .. Len(funs) /\ bb \in Nat
  BY <1>1, FunctionFacts
<1>3. ~InBlock BY <1>1, <1>2 DEF InBlock
<1>4. pos' = 1 BY <1>1, <1>3 DEF AnnotatorInv
<1>5. Len(funs) \in Nat /\ DOMAIN funs = 1 .. Len(funs) BY LenProperties DEF AnnotatorInv
<1>6. fn' \in 1 .. Len(funs') + 1 BY <1>1, <1>2, <1>5
<1>7. ASSUME AtFunction'
      PROVE  Len(Self'.blocks) \in Nat /\ DOMAIN Self'.blocks = 1 .. Len(Self'.blocks)
  <2>1. fn + 1 \in DOMAIN funs BY <1>1, <1>2, <1>5, <1>7 DEF AtFunction
  <2>2. GoodFunction(funs[fn + 1]) BY <2>1 DEF AnnotatorInv
  <2>3. Self' = funs[fn + 1] BY <1>1 DEF Self
  <2>4. Self'.blocks \in Seq(Seq(Insts)) BY <2>2, <2>3 DEF GoodFunction, AnyFunction
  <2> QED BY <2>4, LenProperties
<1>8. ~InBlock'
  <2> SUFFICES ASSUME InBlock' PROVE FALSE OBVIOUS
  <2>1. AtFunction' /\ 0 \in DOMAIN Self'.blocks BY <1>1 DEF InBlock
  <2> QED BY <1>7, <2>1
<1>9. AtFunction' => bb' \in 0 .. Len(Self'.blocks) + 1 BY <1>1, <1>7
<1>10. bb' \in Nat BY <1>1
<1> QED BY <1>1, <1>4, <1>6, <1>8, <1>9, <1>10 DEF AnnotatorInv

LEMMA PassOverKeeps == AnnotatorInv /\ PassOver => AnnotatorInv'
<1> SUFFICES ASSUME AnnotatorInv, PassOver PROVE AnnotatorInv' OBVIOUS
<1>1. /\ AtInst /\ pos' = pos + 1 /\ funs' = funs /\ fn' = fn /\ bb' = bb
  BY DEF PassOver
<1>2. InBlock /\ pos \in 1 .. Len(Block) BY <1>1, InstFacts
<1>3. Len(Block) \in Nat BY <1>2, BlockFacts
<1>4. Self' = Self /\ Block' = Block BY <1>1 DEF Self, Block
<1>5. InBlock' /\ (AtFunction' <=> AtFunction) BY <1>1, <1>2, <1>4 DEF InBlock, AtFunction
<1>6. pos' \in 1 .. Len(Block') + 1 BY <1>1, <1>2, <1>3, <1>4
<1> QED BY <1>1, <1>4, <1>5, <1>6 DEF AnnotatorInv

-----------------------------------------------------------------------------
(* The module before the pass, and the trackers declared behind it.        *)

LEMMA ProgramGood ==
    ASSUME NEW f, WellFormed(f)
    PROVE  GoodFunction(f)
<1>1. /\ f \in Functions /\ NumbersApart(f)
      /\ f.ids \in Nat /\ f.blocks \in Seq(Seq(Insts))
  BY DEF WellFormed, Functions
<1>2. f \in AnyFunction BY <1>1 DEF Functions, AnyFunction, AnyName
<1>3. ASSUME NEW b \in DOMAIN f.blocks PROVE GoodBlock(f.blocks[b], f.ids)
  <2> DEFINE block == f.blocks[b]
  <2>1. block \in Seq(Insts) BY <1>1, LenProperties, ElementOfSeq
  <2>2. block # <<>> /\ UsedBehind(block, Tracked \cup {"ret"}) BY DEF WellFormed
  <2>3. \A p \in DOMAIN block : block[p] \in InstsOf(f) BY DEF InstsOf, Range
  <2>4. \A p \in DOMAIN block : block[p].op \notin Inserted BY <2>3 DEF WellFormed
  <2>5. \A p \in DOMAIN block : Fits(block[p], f.ids)
    <3> SUFFICES ASSUME NEW p \in DOMAIN block PROVE Fits(block[p], f.ids) OBVIOUS
    <3>1. block[p] \in InstsOf(f) BY <2>3
    <3>2. block[p].op # "cast" /\ block[p].op \notin Conversions
      BY <2>4 DEF Inserted, Conversions
    <3> QED BY <3>1, <3>2 DEF WellFormed, Fits
  <2>6. \A p, q \in DOMAIN block : block[p].id = block[q].id => p = q
    BY <1>1 DEF NumbersApart
  <2>7. UsedBehind(block, Ordered) BY <2>2, <2>4 DEF UsedBehind, Ordered
  <2> QED BY <2>1, <2>2, <2>5, <2>6, <2>7 DEF GoodBlock
<1> QED BY <1>1, <1>2, <1>3 DEF GoodFunction

LEMMA DeclarationGood ==
    ASSUME NEW name \in Range(TrackerNames)
    PROVE  GoodFunction(Declaration(name))
<1>1. Declaration(name).blocks = <<>> BY DEF Declaration
<1>2. <<>> \in Seq(Seq(Insts)) /\ DOMAIN <<>> = {} OBVIOUS
<1>3. Declaration(name) \in AnyFunction
  BY <1>2 DEF Declaration, AnyFunction, AnyName
<1> QED BY <1>1, <1>2, <1>3 DEF GoodFunction, NumbersApart

LEMMA InitAnnotator == Init => AnnotatorInv
<1> SUFFICES ASSUME Init PROVE AnnotatorInv OBVIOUS
<1> DEFINE decls == [n \in DOMAIN TrackerNames |-> Declaration(TrackerNames[n])]
<1>1. /\ mod \in Modules /\ funs = mod \o decls /\ fn = 1 /\ bb = 0 /\ pos = 1
  BY DEF Init
<1>2. mod \in Seq(Functions) /\ \A f \in DOMAIN mod : WellFormed(mod[f])
  BY <1>1, ModulesAssumption
<1>3. \A f \in DOMAIN mod : GoodFunction(mod[f]) BY <1>2, ProgramGood
<1>4. Len(mod) \in Nat /\ DOMAIN mod = 1 .. Len(mod) BY <1>2, LenProperties
<1>5. mod \in Seq(AnyFunction)
  <2>1. \A f \in 1 .. Len(mod) : mod[f] \in AnyFunction BY <1>3, <1>4 DEF GoodFunction
  <2>2. mod = [f \in 1 .. Len(mod) |-> mod[f]] BY <1>2, <1>4
  <2> QED BY <1>4, <2>1, <2>2, SeqDef
<1>6. DOMAIN TrackerNames = 1 .. 7 /\ \A n \in 1 .. 7 : TrackerNames[n] \in Range(TrackerNames)
  <2>1. DOMAIN TrackerNames = 1 .. 7 BY DEF TrackerNames
  <2> QED BY <2>1 DEF Range
<1>7. \A n \in 1 .. 7 : decls[n] \in AnyFunction /\ GoodFunction(decls[n])
  <2> SUFFICES ASSUME NEW n \in 1 .. 7
               PROVE  decls[n] \in AnyFunction /\ GoodFunction(decls[n])
    OBVIOUS
  <2>1. decls[n] = Declaration(TrackerNames[n]) BY <1>6
  <2>2. GoodFunction(decls[n]) BY <1>6, <2>1, DeclarationGood
  <2> QED BY <2>2 DEF GoodFunction
<1>8. decls \in Seq(AnyFunction) /\ Len(decls) = 7
  <2>1. DOMAIN decls = 1 .. 7 BY <1>6
  <2>2. decls = [n \in 1 .. 7 |-> decls[n]] BY <2>1
  <2> HIDE DEF decls
  <2>3. decls \in Seq(AnyFunction) BY <1>7, <2>2, SeqDef
  <2> QED BY <2>1, <2>3, LenProperties
<1> HIDE DEF decls
<1>9. /\ funs \in Seq(AnyFunction) /\ Len(funs) = Len(mod) + 7
      /\ \A f \in 1 .. Len(mod) + 7 :
            funs[f] = IF f <= Len(mod) THEN mod[f] ELSE decls[f - Len(mod)]
  <2>1. /\ mod \o decls \in Seq(AnyFunction) /\ Len(mod \o decls) = Len(mod) + Len(decls)
        /\ \A f \in 1 .. Len(mod) + Len(decls) :
              (mod \o decls)[f] = IF f <= Len(mod) THEN mod[f] ELSE decls[f - Len(mod)]
    BY <1>5, <1>8, ConcatProperties
  <2> QED BY <1>1, <1>8, <2>1
<1>10. DOMAIN funs = 1 .. Len(mod) + 7 BY <1>9, LenProperties
<1>11. ASSUME NEW f \in DOMAIN funs PROVE GoodFunction(funs[f])
  <2>1. CASE f <= Len(mod)
    <3>1. f \in 1 .. Len(mod) BY <1>4, <1>10, <2>1
    <3> QED BY <1>3, <1>4, <1>9, <1>10, <2>1, <3>1
  <2>2. CASE ~(f <= Len(mod))
    <3>1. f - Len(mod) \in 1 .. 7 BY <1>4, <1>10, <2>2
    <3> QED BY <1>7, <1>9, <1>10, <2>2, <3>1
  <2> QED BY <2>1, <2>2
<1>12. fn \in 1 .. Len(funs) + 1 /\ 1 \in DOMAIN funs BY <1>1, <1>4, <1>9, <1>10
<1>13. Len(Self.blocks) \in Nat /\ DOMAIN Self.blocks = 1 .. Len(Self.blocks)
  <2>1. Self.blocks \in Seq(Seq(Insts))
    BY <1>1, <1>11, <1>12 DEF Self, GoodFunction, AnyFunction
  <2> QED BY <2>1, LenProperties
<1>14. ~InBlock /\ bb \in 0 .. Len(Self.blocks) + 1
  <2>1. 0 \notin 1 .. Len(Self.blocks) /\ 0 \in 0 .. Len(Self.blocks) + 1 BY <1>13
  <2> QED BY <1>1, <1>13, <2>1 DEF InBlock
<1> QED BY <1>1, <1>9, <1>11, <1>12, <1>14 DEF AnnotatorInv

-----------------------------------------------------------------------------
(***************************************************************************)
(* At every step of the walk of runOnModule, whatever the module: every    *)
(* block, those of the copy of main included, has numbers of its own, what *)
(* the pass reads or inserts stands behind what it uses, the conversions   *)
(* inserted are ones the IR knows, and the iterators are inside.           *)
(***************************************************************************)
THEOREM AnnotatorInvariant == Spec => []AnnotatorInv
<1>1. AnnotatorInv /\ [Next]_vars => AnnotatorInv'
  <2> SUFFICES ASSUME AnnotatorInv, [Next]_vars PROVE AnnotatorInv' OBVIOUS
  <2>1. CASE EnterFunction BY <2>1, EnterFunctionKeeps
  <2>2. CASE EndBlock BY <2>2, EndBlockKeeps
  <2>3. CASE EndFunction BY <2>3, EndFunctionKeeps
  <2>4. CASE AnnotateAlloca BY <2>4, AllocaKeeps
  <2>5. CASE AnnotateMalloc BY <2>5, MallocKeeps
  <2>6. CASE AnnotateFree BY <2>6, FreeKeeps
  <2>7. CASE AnnotateStackSave BY <2>7, StackSaveKeeps
  <2>8. CASE AnnotateStackRestore BY <2>8, StackRestoreKeeps
  <2>9. CASE AnnotateLoad BY <2>9, LoadKeeps
  <2>10. CASE AnnotateStore BY <2>10, StoreKeeps
  <2>11. CASE PassOver BY <2>11, PassOverKeeps
  <2>12. CASE UNCHANGED vars
    BY <2>12 DEF vars, AnnotatorInv, AtFunction, Self, InBlock, Block
  <2> QED
    BY <2>1, <2>2, <2>3, <2>4, <2>5, <2>6, <2>7, <2>8, <2>9, <2>10, <2>11, <2>12 DEF Next
<1> QED BY InitAnnotator, <1>1, PTL DEF Spec

(***************************************************************************)
(* The iterators of runOnModule stay inside the module that grows under    *)
(* them, and no insertion puts an instruction into two places.             *)
(***************************************************************************)
THEOREM AnnotatorTypeCorrect == Spec => []TypeOK
<1>1. AnnotatorInv => TypeOK
  <2> SUFFICES ASSUME AnnotatorInv PROVE TypeOK OBVIOUS
  <2>1. ASSUME NEW f \in DOMAIN funs
        PROVE  /\ NumbersApart(funs[f])
               /\ \A i \in InstsOf(funs[f]) : i.id \in 1 .. funs[f].ids /\ i.ty \in Types
    <3>1. GoodFunction(funs[f]) BY DEF AnnotatorInv
    <3> SUFFICES ASSUME NEW i \in InstsOf(funs[f])
                 PROVE  i.id \in 1 .. funs[f].ids /\ i.ty \in Types
      BY <3>1 DEF GoodFunction
    <3>a. PICK b \in DOMAIN funs[f].blocks : i \in Range(funs[f].blocks[b]) BY DEF InstsOf
    <3>2. PICK p \in DOMAIN funs[f].blocks[b] : i = funs[f].blocks[b][p] BY <3>a DEF Range
    <3>3. GoodBlock(funs[f].blocks[b], funs[f].ids) BY <3>1 DEF GoodFunction
    <3>4. i \in Insts BY <3>2, <3>3, LenProperties, ElementOfSeq DEF GoodBlock
    <3> QED BY <3>2, <3>3, <3>4 DEF GoodBlock, Fits, Insts
  <2> QED BY <2>1 DEF AnnotatorInv, TypeOK
<1> QED BY AnnotatorInvariant, <1>1, PTL

(***************************************************************************)
(* Whatever the annotate functions insert, and replaceReturn in the copy   *)
(* of main, takes only values that are there before it.                    *)
(***************************************************************************)
THEOREM ValuesThereBeforeUse == Spec => []DefinedBeforeUse
<1>1. AnnotatorInv => DefinedBeforeUse
  BY DEF AnnotatorInv, GoodFunction, GoodBlock, UsedBehind, Ordered, DefinedBeforeUse
<1> QED BY AnnotatorInvariant, <1>1, PTL

(***************************************************************************)
(* Every conversion inserted for a tracker is one the IR knows, unless the *)
(* value is a float.                                                       *)
(***************************************************************************)
THEOREM ConversionsValid == Spec => []CastsValid
<1>1. AnnotatorInv => CastsValid
  <2> SUFFICES ASSUME AnnotatorInv, NEW f \in DOMAIN funs, NEW i \in InstsOf(funs[f]),
                      i.op = "cast", i.ty # "float"
               PROVE  ValidCast(i)
    BY DEF CastsValid
  <2>a. PICK b \in DOMAIN funs[f].blocks : i \in Range(funs[f].blocks[b]) BY DEF InstsOf
  <2>1. PICK p \in DOMAIN funs[f].blocks[b] : i = funs[f].blocks[b][p] BY <2>a DEF Range
  <2>2. GoodBlock(funs[f].blocks[b], funs[f].ids) BY DEF AnnotatorInv, GoodFunction
  <2> QED BY <2>1, <2>2 DEF GoodBlock, Fits
<1> QED BY AnnotatorInvariant, <1>1, PTL

-----------------------------------------------------------------------------
(* Words: what the instructions of a block report, one behind the other.   *)

(* F joins the first words, as FlattenSeq does.                            *)
Joins(F, words) ==
    F = [i \in 1 .. Len(words) |-> IF i = 1 THEN words[i] ELSE F[i - 1] \o words[i]]

LEMMA JoiningExists ==
    ASSUME NEW S, NEW words \in Seq(Seq(S))
    PROVE  \E F : Joins(F, words)
<1> DEFINE L == Len(words)
           Start(F, n) ==
               \A i \in 1 .. n : F[i] = IF i = 1 THEN words[i] ELSE F[i - 1] \o words[i]
           T == {n \in Nat : \E F : F = [i \in 1 .. n |-> F[i]] /\ Start(F, n)}
<1>1. 0 \in T
  <2> DEFINE F == [i \in 1 .. 0 |-> words[i]]
  <2>1. F = [i \in 1 .. 0 |-> F[i]] /\ Start(F, 0) OBVIOUS
  <2> QED BY <2>1
<1>2. ASSUME NEW n \in Nat, n \in T PROVE n + 1 \in T
  <2>1. PICK F : F = [i \in 1 .. n |-> F[i]] /\ Start(F, n) BY <1>2
  <2> DEFINE G == [i \in 1 .. n + 1 |->
                      IF i <= n THEN F[i]
                      ELSE IF i = 1 THEN words[i] ELSE F[i - 1] \o words[i]]
  <2>2. \A i \in 1 .. n : G[i] = F[i] OBVIOUS
  <2>3. ASSUME NEW i \in 1 .. n + 1
        PROVE  G[i] = IF i = 1 THEN words[i] ELSE G[i - 1] \o words[i]
    <3>1. CASE i <= n
      <4>1. i \in 1 .. n /\ (i # 1 => i - 1 \in 1 .. n) BY <3>1
      <4>2. F[i] = IF i = 1 THEN words[i] ELSE F[i - 1] \o words[i] BY <2>1, <4>1
      <4> HIDE DEF G
      <4> QED BY <2>2, <4>1, <4>2
    <3>2. CASE i = n + 1
      <4>1. ~(i <= n) /\ (i # 1 => i - 1 \in 1 .. n) BY <3>2
      <4>2. G[i] = IF i = 1 THEN words[i] ELSE F[i - 1] \o words[i] BY <4>1
      <4> HIDE DEF G
      <4> QED BY <2>2, <4>1, <4>2
    <3> QED BY <3>1, <3>2
  <2>4. G = [i \in 1 .. n + 1 |-> G[i]] OBVIOUS
  <2> HIDE DEF G
  <2>5. n + 1 \in Nat OBVIOUS
  <2> QED BY <2>3, <2>4, <2>5
<1> HIDE DEF T
<1>3. L \in T
  <2>1. Nat \subseteq T BY <1>1, <1>2, NaturalsIn
  <2> QED BY <2>1, LenProperties
<1>4. PICK F : F = [i \in 1 .. L |-> F[i]] /\ Start(F, L) BY <1>3 DEF T
<1>5. F = [i \in 1 .. L |-> IF i = 1 THEN words[i] ELSE F[i - 1] \o words[i]] BY <1>4
<1> QED BY <1>5 DEF Joins

LEMMA FlattenFound ==
    ASSUME NEW S, NEW words \in Seq(Seq(S)), Len(words) # 0
    PROVE  \E F : Joins(F, words) /\ FlattenSeq(words) = F[Len(words)]
<1>1. \E F : Joins(F, words) BY JoiningExists
<1> DEFINE F == CHOOSE F : Joins(F, words)
<1>2. Joins(F, words) BY <1>1
<1>3. FlattenSeq(words) = F[Len(words)] BY DEF FlattenSeq, Joins
<1> QED BY <1>2, <1>3

(* What is joined are words, and depends on the words in front only.       *)
LEMMA JoinedPrefix ==
    ASSUME NEW S, NEW words \in Seq(Seq(S)), NEW more \in Seq(Seq(S)),
           Len(words) <= Len(more), \A i \in 1 .. Len(words) : more[i] = words[i],
           NEW F, Joins(F, words), NEW G, Joins(G, more)
    PROVE  \A i \in 1 .. Len(words) : G[i] = F[i] /\ F[i] \in Seq(S)
<1> DEFINE L == Len(words)
           T == {n \in Nat : n + 1 \in 1 .. L => G[n + 1] = F[n + 1] /\ F[n + 1] \in Seq(S)}
<1>1. /\ L \in Nat /\ Len(more) \in Nat /\ \A i \in 1 .. L : words[i] \in Seq(S)
      /\ \A i \in 1 .. L : i \in 1 .. Len(more)
  BY LenProperties, ElementOfSeq
<1>2. \A i \in 1 .. L : /\ F[i] = IF i = 1 THEN words[i] ELSE F[i - 1] \o words[i]
                        /\ G[i] = IF i = 1 THEN words[i] ELSE G[i - 1] \o words[i]
  BY <1>1 DEF Joins
<1> HIDE DEF L
<1>3. 0 \in T BY <1>1, <1>2
<1>4. ASSUME NEW n \in Nat, n \in T PROVE n + 1 \in T
  <2> SUFFICES ASSUME (n + 1) + 1 \in 1 .. L
               PROVE  G[(n + 1) + 1] = F[(n + 1) + 1] /\ F[(n + 1) + 1] \in Seq(S)
    OBVIOUS
  <2>1. n + 1 \in 1 .. L /\ (n + 1) + 1 # 1 /\ ((n + 1) + 1) - 1 = n + 1 BY <1>1
  <2>2. G[n + 1] = F[n + 1] /\ F[n + 1] \in Seq(S) BY <1>4, <2>1
  <2>3. /\ F[(n + 1) + 1] = F[n + 1] \o words[(n + 1) + 1]
        /\ G[(n + 1) + 1] = G[n + 1] \o words[(n + 1) + 1]
    BY <1>2, <2>1
  <2>4. words[(n + 1) + 1] \in Seq(S) BY <1>1
  <2> QED BY <2>2, <2>3, <2>4, ConcatProperties
<1> HIDE DEF T
<1>5. Nat \subseteq T BY <1>3, <1>4, NaturalsIn
<1> QED
  <2> SUFFICES ASSUME NEW i \in 1 .. L PROVE G[i] = F[i] /\ F[i] \in Seq(S) BY DEF L
  <2>1. i - 1 \in Nat /\ (i - 1) + 1 = i BY <1>1
  <2> QED BY <1>5, <2>1 DEF T

(* One more word.                                                          *)
LEMMA FlattenAppend ==
    ASSUME NEW S, NEW words \in Seq(Seq(S)), NEW word \in Seq(S)
    PROVE  /\ FlattenSeq(words) \in Seq(S)
           /\ FlattenSeq(Append(words, word)) = FlattenSeq(words) \o word
<1> DEFINE L == Len(words)
           more == Append(words, word)
<1>1. /\ L \in Nat /\ more \in Seq(Seq(S)) /\ Len(more) = L + 1
      /\ \A i \in 1 .. L : more[i] = words[i]
      /\ more[L + 1] = word
  BY LenProperties, AppendProperties
<1> HIDE DEF more
<1>2. PICK G : Joins(G, more) /\ FlattenSeq(more) = G[L + 1]
  <2>1. L + 1 # 0 BY <1>1
  <2> QED BY <1>1, <2>1, FlattenFound
<1>3. G[L + 1] = IF L + 1 = 1 THEN word ELSE G[L] \o word
  <2>1. L + 1 \in 1 .. L + 1 /\ (L + 1) - 1 = L BY <1>1
  <2> QED BY <1>1, <1>2, <2>1 DEF Joins
<1>4. CASE L = 0
  <2>1. words = <<>> BY <1>4, EmptySeq
  <2>2. FlattenSeq(words) = words BY <1>4 DEF FlattenSeq
  <2>3. <<>> \in Seq(S) /\ <<>> \o word = word BY EmptySeq, ConcatEmptySeq
  <2>4. L + 1 = 1 BY <1>4
  <2>5. FlattenSeq(more) = word BY <1>2, <1>3, <2>4
  <2>6. FlattenSeq(words) = <<>> BY <2>1, <2>2
  <2> QED BY <2>3, <2>5, <2>6 DEF more
<1>5. CASE L # 0
  <2>1. PICK F : Joins(F, words) /\ FlattenSeq(words) = F[L] BY <1>5, FlattenFound
  <2>2. L \in 1 .. L /\ L <= L + 1 /\ L + 1 # 1 BY <1>1, <1>5
  <2>3. G[L] = F[L] /\ F[L] \in Seq(S) BY <1>1, <1>2, <2>1, <2>2, JoinedPrefix
  <2> QED BY <1>2, <1>3, <2>1, <2>2, <2>3 DEF more
<1> QED BY <1>4, <1>5

(* The words of two blocks.                                                *)
LEMMA FlattenConcat ==
    ASSUME NEW S, NEW left \in Seq(Seq(S)), NEW right \in Seq(Seq(S))
    PROVE  FlattenSeq(left \o right) = FlattenSeq(left) \o FlattenSeq(right)
<1> DEFINE W == Seq(S)
           T == {n \in Nat : \A words \in Seq(W) :
                    Len(words) = n =>
                        FlattenSeq(left \o words) = FlattenSeq(left) \o FlattenSeq(words)}
<1>1. \A words \in Seq(W) : FlattenSeq(words) \in W
  <2>1. <<>> \in W BY EmptySeq
  <2> QED BY <2>1, FlattenAppend
<1>2. 0 \in T
  <2> SUFFICES ASSUME NEW words \in Seq(W), Len(words) = 0
               PROVE  FlattenSeq(left \o words) = FlattenSeq(left) \o FlattenSeq(words)
    OBVIOUS
  <2>1. words = <<>> BY EmptySeq
  <2>2. left \o words = left BY <2>1, ConcatEmptySeq
  <2>3. FlattenSeq(words) = <<>> BY <2>1 DEF FlattenSeq
  <2>4. FlattenSeq(left) \in Seq(S) BY <1>1
  <2>5. FlattenSeq(left) \o <<>> = FlattenSeq(left) BY <2>4, ConcatEmptySeq
  <2> QED BY <2>2, <2>3, <2>5
<1>3. ASSUME NEW n \in Nat, n \in T PROVE n + 1 \in T
  <2> SUFFICES ASSUME NEW words \in Seq(W), Len(words) = n + 1
               PROVE  FlattenSeq(left \o words) = FlattenSeq(left) \o FlattenSeq(words)
    OBVIOUS
  <2>1. words # <<>>
    <3>1. n + 1 # 0 BY <1>3
    <3> QED BY <3>1, EmptySeq
  <2> HIDE DEF W
  <2>2. \E t \in Seq(W), e \in W : words = Append(t, e)
    BY <2>1, SequenceEmptyOrAppend
  <2>3. PICK t \in Seq(W) : \E e \in W : words = Append(t, e) BY <2>2
  <2>4. PICK e \in W : words = Append(t, e) BY <2>3
  <2>5. Len(t) = n
    <3>1. Len(words) = Len(t) + 1 BY <2>4, AppendProperties
    <3>2. Len(t) \in Nat BY LenProperties
    <3> QED BY <3>1, <3>2
  <2>6. FlattenSeq(left \o t) = FlattenSeq(left) \o FlattenSeq(t) BY <1>3, <2>5
  <2>7. left \in Seq(W) BY DEF W
  <2>8. left \o words = Append(left \o t, e)
    <3>1. words = t \o <<e>> BY <2>4, AppendIsConcat
    <3>2. <<e>> \in Seq(W) OBVIOUS
    <3>3. left \o (t \o <<e>>) = (left \o t) \o <<e>> BY <2>7, <3>2, ConcatAssociative
    <3>4. left \o t \in Seq(W) BY <2>7, ConcatProperties
    <3>5. Append(left \o t, e) = (left \o t) \o <<e>> BY <3>4, AppendIsConcat
    <3> QED BY <3>1, <3>3, <3>5
  <2>9. left \o t \in Seq(W) BY <2>7, ConcatProperties
  <2>10. /\ FlattenSeq(Append(left \o t, e)) = FlattenSeq(left \o t) \o e
         /\ FlattenSeq(Append(t, e)) = FlattenSeq(t) \o e
    BY <2>9, FlattenAppend DEF W
  <2>11. /\ FlattenSeq(left) \in Seq(S) /\ FlattenSeq(t) \in Seq(S) /\ e \in Seq(S)
    BY <1>1, <2>7 DEF W
  <2>12. (FlattenSeq(left) \o FlattenSeq(t)) \o e = FlattenSeq(left) \o (FlattenSeq(t) \o e)
    <3> DEFINE a == FlattenSeq(left)
               b == FlattenSeq(t)
    <3> DEFINE X == Seq(S)
    <3>0. \A x, y, z \in X : (x \o y) \o z = x \o (y \o z)
      <4> SUFFICES ASSUME NEW x \in Seq(S), NEW y \in Seq(S), NEW z \in Seq(S)
                   PROVE  (x \o y) \o z = x \o (y \o z)
        OBVIOUS
      <4> QED BY ConcatAssociative
    <3>1. a \in X /\ b \in X /\ e \in X BY <2>11
    <3> HIDE DEF a, b, X, T
    <3>2. (a \o b) \o e = a \o (b \o e) BY <3>0, <3>1
    <3> QED BY <3>2 DEF a, b
  <2> QED BY <2>4, <2>6, <2>8, <2>10, <2>12
<1> HIDE DEF T
<1>4. Nat \subseteq T BY <1>2, <1>3, NaturalsIn
<1>5. right \in Seq(W) /\ Len(right) \in Nat BY LenProperties
<1> QED BY <1>4, <1>5 DEF T

LEMMA FlattenOne ==
    ASSUME NEW S, NEW word \in Seq(S)
    PROVE  FlattenSeq(<<word>>) = word
<1>1. FlattenSeq(<<>>) = <<>> BY DEF FlattenSeq
<1>2. <<>> \in Seq(Seq(S)) BY EmptySeq
<1>3. Append(<<>>, word) = <<word>> OBVIOUS
<1>4. FlattenSeq(<<word>>) = <<>> \o word BY <1>1, <1>2, <1>3, FlattenAppend
<1> QED BY <1>4, ConcatEmptySeq

(* What the walk should make a block report that held this instruction: a  *)
(* return, whatever the pass returns in its place.                         *)
Awaited(s, inst) ==
    CASE inst.op \in Pairings -> <<>>
      [] inst.op = "ret"      -> <<Event("ret", Returned(s, inst.args[1]))>>
      [] OTHER                -> Expected(inst, 1)

AwaitedOf(s, block) == FlattenSeq([n \in DOMAIN block |-> Awaited(s, block[n])])

EventsIn(f) == UNION {Range(Reported(f, i)) : i \in Insts}
EventsAwaited(s) == UNION {Range(Awaited(s, i)) : i \in Insts}

LEMMA OneWord ==
    \A x : <<x>> \in Seq(Range(<<x>>))
<1> TAKE x
<1>1. DOMAIN <<x>> = 1 .. 1 /\ <<x>>[1] = x OBVIOUS
<1>2. x \in Range(<<x>>) BY <1>1 DEF Range
<1> QED BY <1>2

LEMMA TwoWord ==
    \A x, y : <<x, y>> \in Seq(Range(<<x, y>>))
<1> TAKE x, y
<1>1. DOMAIN <<x, y>> = 1 .. 2 /\ <<x, y>>[1] = x /\ <<x, y>>[2] = y OBVIOUS
<1>2. x \in Range(<<x, y>>) /\ y \in Range(<<x, y>>) BY <1>1 DEF Range
<1> QED BY <1>2

LEMMA ReportedWord ==
    ASSUME NEW f, NEW i \in Insts
    PROVE  Reported(f, i) \in Seq(EventsIn(f))
<1> DEFINE w == Reported(f, i)
<1>1. w \in Seq(Range(w))
  <2>1. w = <<>> \/ \E x : w = <<x>>
    <3> DEFINE x == Event(i.what, [n \in DOMAIN i.args |-> Resolve(f, i.args[n])])
               y == Event("ret", Returned(f, i.args[1]))
               z == Event(i.op, <<i.id>>)
    <3>1. w = <<x>> \/ w = <<y>> \/ w = <<>> \/ w = <<z>> BY DEF Reported
    <3> HIDE DEF w, x, y, z
    <3> QED BY <3>1
  <2> HIDE DEF w
  <2> QED BY <2>1, OneWord, EmptySeq
<1>2. Range(w) \subseteq EventsIn(f) BY DEF EventsIn
<1> HIDE DEF w
<1>3. w \in Seq(EventsIn(f)) BY <1>1, <1>2, SeqMonotonic
<1> QED BY <1>3 DEF w

LEMMA AwaitedWord ==
    ASSUME NEW s, NEW i \in Insts
    PROVE  Awaited(s, i) \in Seq(EventsAwaited(s))
<1> DEFINE w == Awaited(s, i)
<1>1. w \in Seq(Range(w))
  <2>1. w = <<>> \/ (\E x : w = <<x>>) \/ (\E x, y : w = <<x, y>>)
    <3> DEFINE e == Expected(i, 1)
    <3>1. (\E x : e = <<x>>) \/ (\E x, y : e = <<x, y>>) BY DEF Expected
    <3> HIDE DEF e
    <3>2. w = <<>> \/ (\E x : w = <<x>>) \/ w = e BY DEF Awaited, e
    <3> HIDE DEF w
    <3> QED BY <3>1, <3>2
  <2> HIDE DEF w
  <2> QED BY <2>1, OneWord, TwoWord, EmptySeq
<1>2. Range(w) \subseteq EventsAwaited(s) BY DEF EventsAwaited
<1> HIDE DEF w
<1>3. w \in Seq(EventsAwaited(s)) BY <1>1, <1>2, SeqMonotonic
<1> QED BY <1>3 DEF w

(* The words of two blocks, one behind the other.                          *)
WordsOf(R, A) == [n \in DOMAIN A |-> R[A[n]]]

LEMMA WordsType ==
    ASSUME NEW S, NEW R \in [Insts -> Seq(S)], NEW A \in Seq(Insts)
    PROVE  /\ WordsOf(R, A) \in Seq(Seq(S))
           /\ Len(WordsOf(R, A)) = Len(A)
           /\ \A n \in 1 .. Len(A) : WordsOf(R, A)[n] = R[A[n]]
<1> DEFINE W == Seq(S)
           words == [n \in 1 .. Len(A) |-> R[A[n]]]
<1>1. Len(A) \in Nat /\ DOMAIN A = 1 .. Len(A) /\ \A n \in 1 .. Len(A) : A[n] \in Insts
  BY LenProperties, ElementOfSeq
<1>2. R \in [Insts -> W] OBVIOUS
<1> HIDE DEF W
<1>3. words \in [1 .. Len(A) -> W] BY <1>1, <1>2
<1>4. words \in Seq(W) BY <1>1, <1>3, SeqDef
<1>5. Len(words) = Len(A)
  <2>1. Len(words) \in Nat /\ DOMAIN words = 1 .. Len(words) BY <1>4, LenProperties
  <2>2. DOMAIN words = 1 .. Len(A) OBVIOUS
  <2>3. \A m, n \in Nat : 1 .. m = 1 .. n => m = n
    <3> TAKE m, n \in Nat
    <3> QED OBVIOUS
  <2> HIDE DEF words
  <2>4. 1 .. Len(words) = 1 .. Len(A) BY <2>1, <2>2
  <2> QED BY <1>1, <2>1, <2>3, <2>4
<1>6. \A n \in 1 .. Len(A) : words[n] = R[A[n]] OBVIOUS
<1>7. WordsOf(R, A) = words BY <1>1 DEF WordsOf
<1> QED BY <1>4, <1>5, <1>6, <1>7 DEF W

LEMMA WordsConcat ==
    ASSUME NEW S, NEW R \in [Insts -> Seq(S)], NEW A \in Seq(Insts), NEW C \in Seq(Insts)
    PROVE  FlattenSeq(WordsOf(R, A \o C))
              = FlattenSeq(WordsOf(R, A)) \o FlattenSeq(WordsOf(R, C))
<1> DEFINE W == Seq(S)
           wa == WordsOf(R, A)
           wc == WordsOf(R, C)
           wb == WordsOf(R, A \o C)
<1>1. /\ Len(A) \in Nat /\ Len(C) \in Nat
      /\ A \o C \in Seq(Insts) /\ Len(A \o C) = Len(A) + Len(C)
      /\ \A n \in 1 .. Len(A) + Len(C) :
            (A \o C)[n] = IF n <= Len(A) THEN A[n] ELSE C[n - Len(A)]
  BY LenProperties, ConcatProperties
<1>2. /\ wa \in Seq(W) /\ wc \in Seq(W) /\ wb \in Seq(W)
      /\ Len(wa) = Len(A) /\ Len(wc) = Len(C) /\ Len(wb) = Len(A) + Len(C)
      /\ \A n \in 1 .. Len(A) : wa[n] = R[A[n]]
      /\ \A n \in 1 .. Len(C) : wc[n] = R[C[n]]
      /\ \A n \in 1 .. Len(A) + Len(C) : wb[n] = R[(A \o C)[n]]
  <2>1. wa \in Seq(W) /\ Len(wa) = Len(A) /\ \A n \in 1 .. Len(A) : wa[n] = R[A[n]]
    BY WordsType
  <2>2. wc \in Seq(W) /\ Len(wc) = Len(C) /\ \A n \in 1 .. Len(C) : wc[n] = R[C[n]]
    BY WordsType
  <2>3. /\ wb \in Seq(W) /\ Len(wb) = Len(A \o C)
        /\ \A n \in 1 .. Len(A \o C) : wb[n] = R[(A \o C)[n]]
    BY <1>1, WordsType
  <2> HIDE DEF wa, wb, wc, W
  <2> QED BY <1>1, <2>1, <2>2, <2>3
<1> HIDE DEF wa, wb, wc, W
<1>3. wb = wa \o wc
  <2>1. /\ wa \o wc \in Seq(W) /\ Len(wa \o wc) = Len(wa) + Len(wc)
        /\ \A n \in 1 .. Len(wa) + Len(wc) :
              (wa \o wc)[n] = IF n <= Len(wa) THEN wa[n] ELSE wc[n - Len(wa)]
    BY <1>2, ConcatProperties
  <2>2. ASSUME NEW n \in 1 .. Len(A) + Len(C) PROVE wb[n] = (wa \o wc)[n]
    <3>1. CASE n <= Len(A)
      <4>1. n \in 1 .. Len(A) BY <1>1, <3>1
      <4> QED BY <1>1, <1>2, <2>1, <3>1, <4>1
    <3>2. CASE ~(n <= Len(A))
      <4>1. n - Len(A) \in 1 .. Len(C) BY <1>1, <3>2
      <4>2. wb[n] = R[(A \o C)[n]] /\ (A \o C)[n] = C[n - Len(A)] BY <1>1, <1>2, <3>2
      <4>3. (wa \o wc)[n] = wc[n - Len(A)] BY <1>1, <1>2, <2>1, <3>2
      <4>4. wc[n - Len(A)] = R[C[n - Len(A)]] BY <1>2, <4>1
      <4> QED BY <4>2, <4>3, <4>4
    <3> QED BY <3>1, <3>2
  <2> QED BY <1>2, <2>1, <2>2, SeqEqual
<1>4. FlattenSeq(wb) = FlattenSeq(wa) \o FlattenSeq(wc) BY <1>2, <1>3, FlattenConcat DEF W
<1> QED BY <1>4 DEF wa, wb, wc

LEMMA WordOfOne ==
    ASSUME NEW S, NEW R \in [Insts -> Seq(S)], NEW i \in Insts
    PROVE  FlattenSeq(WordsOf(R, <<i>>)) = R[i]
<1>1. DOMAIN <<i>> = 1 .. 1 /\ <<i>>[1] = i OBVIOUS
<1>2. WordsOf(R, <<i>>) = <<R[i]>>
  <2>1. WordsOf(R, <<i>>) = [n \in 1 .. 1 |-> R[i]] BY <1>1 DEF WordsOf
  <2> QED BY <2>1
<1>3. R[i] \in Seq(S) OBVIOUS
<1> QED BY <1>2, <1>3, FlattenOne

(* The rules for the words that blocks report and should report.           *)
ReportedOf(f) == [i \in Insts |-> Reported(f, i)]
AwaitedIn(s) == [i \in Insts |-> Awaited(s, i)]

LEMMA ReportedTypes ==
    \A f : /\ ReportedOf(f) \in [Insts -> Seq(EventsIn(f))]
           /\ \A A \in Seq(Insts) : Reports(f, A) = FlattenSeq(WordsOf(ReportedOf(f), A))
<1> TAKE f
<1>1. ReportedOf(f) \in [Insts -> Seq(EventsIn(f))] BY ReportedWord DEF ReportedOf
<1>2. ASSUME NEW A \in Seq(Insts)
      PROVE  Reports(f, A) = FlattenSeq(WordsOf(ReportedOf(f), A))
  <2>1. \A n \in DOMAIN A : A[n] \in Insts BY LenProperties, ElementOfSeq
  <2>2. \A n \in DOMAIN A : ReportedOf(f)[A[n]] = Reported(f, A[n]) BY <2>1 DEF ReportedOf
  <2>3. WordsOf(ReportedOf(f), A) = [n \in DOMAIN A |-> Reported(f, A[n])]
    BY <2>2 DEF WordsOf
  <2> QED BY <2>3 DEF Reports
<1> QED BY <1>1, <1>2

LEMMA AwaitedTypes ==
    \A s : /\ AwaitedIn(s) \in [Insts -> Seq(EventsAwaited(s))]
           /\ \A A \in Seq(Insts) : AwaitedOf(s, A) = FlattenSeq(WordsOf(AwaitedIn(s), A))
<1> TAKE s
<1>1. AwaitedIn(s) \in [Insts -> Seq(EventsAwaited(s))] BY AwaitedWord DEF AwaitedIn
<1>2. ASSUME NEW A \in Seq(Insts)
      PROVE  AwaitedOf(s, A) = FlattenSeq(WordsOf(AwaitedIn(s), A))
  <2>1. \A n \in DOMAIN A : A[n] \in Insts BY LenProperties, ElementOfSeq
  <2>2. \A n \in DOMAIN A : AwaitedIn(s)[A[n]] = Awaited(s, A[n]) BY <2>1 DEF AwaitedIn
  <2>3. WordsOf(AwaitedIn(s), A) = [n \in DOMAIN A |-> Awaited(s, A[n])]
    BY <2>2 DEF WordsOf
  <2> QED BY <2>3 DEF AwaitedOf
<1> QED BY <1>1, <1>2

LEMMA ReportsFacts ==
    ASSUME NEW f, NEW A \in Seq(Insts), NEW i \in Insts
    PROVE  /\ Reports(f, <<>>) = <<>>
           /\ Reports(f, A) \in Seq(EventsIn(f)) /\ Reported(f, i) \in Seq(EventsIn(f))
           /\ Reports(f, A \o <<i>>) = Reports(f, A) \o Reported(f, i)
<1> DEFINE R == ReportedOf(f)
           S == EventsIn(f)
           one == <<i>>
<1>1. /\ R \in [Insts -> Seq(S)]
      /\ \A B \in Seq(Insts) : Reports(f, B) = FlattenSeq(WordsOf(R, B))
  BY ReportedTypes
<1>2. R[i] = Reported(f, i) BY DEF ReportedOf
<1>3. Reports(f, <<>>) = <<>>
  <2>1. DOMAIN <<>> = {} OBVIOUS
  <2>2. [n \in {} |-> Reported(f, <<>>[n])] = <<>> OBVIOUS
  <2> QED BY <2>1, <2>2 DEF Reports, FlattenSeq
<1> HIDE DEF R, S
<1>4. one \in Seq(Insts) /\ A \o one \in Seq(Insts) BY ConcatProperties
<1>5. FlattenSeq(WordsOf(R, one)) = R[i] BY <1>1, WordOfOne
<1> HIDE DEF one
<1>6. FlattenSeq(WordsOf(R, A \o one)) = FlattenSeq(WordsOf(R, A)) \o FlattenSeq(WordsOf(R, one))
  BY <1>1, <1>4, WordsConcat
<1>7. FlattenSeq(WordsOf(R, A)) \in Seq(S)
  <2>1. WordsOf(R, A) \in Seq(Seq(S)) BY <1>1, WordsType
  <2>2. <<>> \in Seq(S) BY EmptySeq
  <2> QED BY <2>1, <2>2, FlattenAppend
<1>8. R[i] \in Seq(S) BY <1>1
<1> QED BY <1>1, <1>2, <1>3, <1>4, <1>5, <1>6, <1>7, <1>8 DEF S, one

LEMMA AwaitedFacts ==
    ASSUME NEW s, NEW A \in Seq(Insts), NEW i \in Insts
    PROVE  /\ AwaitedOf(s, <<>>) = <<>>
           /\ AwaitedOf(s, A) \in Seq(EventsAwaited(s))
           /\ AwaitedOf(s, A \o <<i>>) = AwaitedOf(s, A) \o Awaited(s, i)
<1> DEFINE R == AwaitedIn(s)
           S == EventsAwaited(s)
           one == <<i>>
<1>1. /\ R \in [Insts -> Seq(S)]
      /\ \A B \in Seq(Insts) : AwaitedOf(s, B) = FlattenSeq(WordsOf(R, B))
  BY AwaitedTypes
<1>2. R[i] = Awaited(s, i) BY DEF AwaitedIn
<1>3. AwaitedOf(s, <<>>) = <<>>
  <2>1. DOMAIN <<>> = {} OBVIOUS
  <2>2. [n \in {} |-> Awaited(s, <<>>[n])] = <<>> OBVIOUS
  <2> QED BY <2>1, <2>2 DEF AwaitedOf, FlattenSeq
<1> HIDE DEF R, S
<1>4. one \in Seq(Insts) /\ A \o one \in Seq(Insts) BY ConcatProperties
<1>5. FlattenSeq(WordsOf(R, one)) = R[i] BY <1>1, WordOfOne
<1> HIDE DEF one
<1>6. FlattenSeq(WordsOf(R, A \o one)) = FlattenSeq(WordsOf(R, A)) \o FlattenSeq(WordsOf(R, one))
  BY <1>1, <1>4, WordsConcat
<1>7. FlattenSeq(WordsOf(R, A)) \in Seq(S)
  <2>1. WordsOf(R, A) \in Seq(Seq(S)) BY <1>1, WordsType
  <2>2. <<>> \in Seq(S) BY EmptySeq
  <2> QED BY <2>1, <2>2, FlattenAppend
<1> QED BY <1>1, <1>2, <1>3, <1>4, <1>5, <1>6, <1>7 DEF S, one

-----------------------------------------------------------------------------
(* A block, cut where the walk has come to                                 *)

(* One more instruction behind X, and in front of C.                       *)
Then(X, i) == X \o <<i>>
Ahead(i, C) == <<i>> \o C

LEMMA ThenFacts ==
    ASSUME NEW X \in Seq(Insts), NEW i \in Insts
    PROVE  /\ Then(X, i) \in Seq(Insts) /\ Len(Then(X, i)) = Len(X) + 1
           /\ \A p \in 1 .. Len(X) : Then(X, i)[p] = X[p]
           /\ Then(X, i)[Len(X) + 1] = i
           /\ Len(X) \in Nat /\ DOMAIN X = 1 .. Len(X)
           /\ DOMAIN Then(X, i) = 1 .. Len(X) + 1
<1>1. Append(X, i) = Then(X, i) BY AppendIsConcat DEF Then
<1>2. /\ Then(X, i) \in Seq(Insts) /\ Len(Then(X, i)) = Len(X) + 1
      /\ \A p \in 1 .. Len(X) : Then(X, i)[p] = X[p]
      /\ Then(X, i)[Len(X) + 1] = i
  BY <1>1, AppendProperties
<1>3. DOMAIN Then(X, i) = 1 .. Len(X) + 1 BY <1>2, LenProperties
<1> QED BY <1>2, <1>3, LenProperties

LEMMA AheadFacts ==
    ASSUME NEW C \in Seq(Insts), NEW i \in Insts
    PROVE  /\ Ahead(i, C) \in Seq(Insts) /\ Len(Ahead(i, C)) = Len(C) + 1
           /\ Ahead(i, C)[1] = i
<1> DEFINE one == <<i>>
<1>1. one \in Seq(Insts) /\ Len(one) = 1 /\ one[1] = i OBVIOUS
<1>2. Ahead(i, C) = one \o C BY DEF Ahead
<1>3. Len(C) \in Nat BY LenProperties
<1> HIDE DEF one
<1>4. /\ one \o C \in Seq(Insts) /\ Len(one \o C) = Len(one) + Len(C)
      /\ \A p \in 1 .. Len(one) + Len(C) :
            (one \o C)[p] = IF p <= Len(one) THEN one[p] ELSE C[p - Len(one)]
  BY <1>1, ConcatProperties
<1>5. 1 \in 1 .. Len(one) + Len(C) /\ 1 <= Len(one) BY <1>1, <1>3
<1>6. (one \o C)[1] = one[1] BY <1>4, <1>5
<1> QED BY <1>1, <1>2, <1>3, <1>4, <1>6

LEMMA CutPasses ==
    ASSUME NEW X \in Seq(Insts), NEW i \in Insts, NEW C \in Seq(Insts)
    PROVE  X \o Ahead(i, C) = Then(X, i) \o C
<1> DEFINE one == <<i>>
<1>1. one \in Seq(Insts) OBVIOUS
<1>2. Ahead(i, C) = one \o C /\ Then(X, i) = X \o one BY DEF Ahead, Then
<1> HIDE DEF one
<1>3. (X \o one) \o C = X \o (one \o C) BY <1>1, ConcatAssociative
<1> QED BY <1>2, <1>3

(* The two parts of a block.                                               *)
LEMMA PartsOf ==
    ASSUME NEW X \in Seq(Insts), NEW C \in Seq(Insts)
    PROVE  /\ X \o C \in Seq(Insts) /\ Len(X \o C) = Len(X) + Len(C)
           /\ DOMAIN (X \o C) = 1 .. Len(X) + Len(C)
           /\ Len(X) \in Nat /\ Len(C) \in Nat
           /\ DOMAIN X = 1 .. Len(X) /\ DOMAIN C = 1 .. Len(C)
           /\ \A p \in 1 .. Len(X) : (X \o C)[p] = X[p] /\ p \in DOMAIN (X \o C)
           /\ \A p \in 1 .. Len(C) :
                 (X \o C)[Len(X) + p] = C[p] /\ Len(X) + p \in DOMAIN (X \o C)
<1> DEFINE new == X \o C
           L == Len(X)
           M == Len(C)
<1>1. /\ L \in Nat /\ M \in Nat /\ DOMAIN X = 1 .. L /\ DOMAIN C = 1 .. M
  BY LenProperties
<1>2. /\ new \in Seq(Insts) /\ Len(new) = L + M
      /\ \A p \in 1 .. L + M : new[p] = IF p <= L THEN X[p] ELSE C[p - L]
  BY ConcatProperties
<1>3. DOMAIN new = 1 .. L + M BY <1>2, LenProperties
<1> HIDE DEF new, L, M
<1>4. ASSUME NEW p \in 1 .. L PROVE new[p] = X[p] /\ p \in DOMAIN new
  BY <1>1, <1>2, <1>3
<1>5. ASSUME NEW p \in 1 .. M PROVE new[L + p] = C[p] /\ L + p \in DOMAIN new
  <2>1. L + p \in 1 .. L + M /\ ~(L + p <= L) /\ (L + p) - L = p BY <1>1
  <2> QED BY <1>2, <1>3, <2>1
<1> QED BY <1>1, <1>2, <1>3, <1>4, <1>5 DEF new, L, M

LEMMA InsertAtCut ==
    ASSUME NEW X \in Seq(Insts), NEW i \in Insts, NEW C \in Seq(Insts)
    PROVE  InsertAt(X \o C, Len(X) + 1, i) = Then(X, i) \o C
<1> DEFINE block == X \o C
           k == Len(X) + 1
           one == InsertAt(block, k, i)
           new == Then(X, i) \o C
           L == Len(X)
           M == Len(C)
<1>1. /\ block \in Seq(Insts) /\ Len(block) = L + M /\ L \in Nat /\ M \in Nat
      /\ \A p \in 1 .. L : block[p] = X[p]
      /\ \A p \in 1 .. M : block[L + p] = C[p]
  BY PartsOf
<1>2. /\ Then(X, i) \in Seq(Insts) /\ Len(Then(X, i)) = L + 1
      /\ \A p \in 1 .. L : Then(X, i)[p] = X[p]
      /\ Then(X, i)[L + 1] = i
  BY ThenFacts
<1>3. /\ new \in Seq(Insts) /\ Len(new) = (L + 1) + M
      /\ \A p \in 1 .. L + 1 : new[p] = Then(X, i)[p]
      /\ \A p \in 1 .. M : new[(L + 1) + p] = C[p]
  <2> DEFINE T == Then(X, i)
  <2>1. T \in Seq(Insts) /\ Len(T) = L + 1 BY <1>2
  <2> HIDE DEF T
  <2>2. /\ T \o C \in Seq(Insts) /\ Len(T \o C) = Len(T) + Len(C)
        /\ \A p \in 1 .. Len(T) : (T \o C)[p] = T[p]
        /\ \A p \in 1 .. Len(C) : (T \o C)[Len(T) + p] = C[p]
    BY <2>1, PartsOf
  <2> QED BY <2>1, <2>2 DEF T
<1> HIDE DEF new, block
<1>4. Inserts(one, block, k, i)
  <2>1. k \in 1 .. Len(block) + 1 BY <1>1
  <2> QED BY <1>1, <2>1, InsertAtInserts
<1>5. k = L + 1 OBVIOUS
<1> HIDE DEF L, M, one, k
<1>6. one \in Seq(Insts) /\ Len(one) = (L + 1) + M BY <1>1, <1>4 DEF Inserts
<1>7. ASSUME NEW p \in 1 .. (L + 1) + M PROVE one[p] = new[p]
  <2>1. one[p] = IF p < L + 1 THEN block[p] ELSE IF p = L + 1 THEN i ELSE block[p - 1]
    BY <1>4, <1>5, <1>6 DEF Inserts
  <2>2. CASE p < L + 1
    <3>1. p \in 1 .. L /\ p \in 1 .. L + 1 BY <1>1, <2>2
    <3> QED BY <1>1, <1>2, <1>3, <2>1, <2>2, <3>1
  <2>3. CASE p = L + 1
    <3>1. p \in 1 .. L + 1 /\ ~(p < L + 1) BY <1>1, <2>3
    <3> QED BY <1>2, <1>3, <2>1, <2>3, <3>1
  <2>4. CASE p > L + 1
    <3>0. p \in Nat /\ p > L + 1 /\ p <= (L + 1) + M /\ L \in Nat /\ M \in Nat
      <4>1. L \in Nat /\ M \in Nat BY <1>1
      <4> QED BY <2>4, <4>1
    <3>1. /\ p - (L + 1) \in 1 .. M /\ (L + 1) + (p - (L + 1)) = p
          /\ L + (p - (L + 1)) = p - 1 /\ ~(p < L + 1) /\ p # L + 1
      BY <3>0
    <3>2. new[p] = C[p - (L + 1)] /\ block[p - 1] = C[p - (L + 1)] BY <1>1, <1>3, <3>1
    <3> QED BY <2>1, <3>1, <3>2
  <2>5. p < L + 1 \/ p = L + 1 \/ p > L + 1 BY <1>1
  <2> QED BY <2>2, <2>3, <2>4, <2>5
<1>8. one = new BY <1>3, <1>6, <1>7, SeqEqual
<1> QED BY <1>8 DEF one, new, block, k

(* An instruction of the pass with one of the first n fresh numbers.       *)
Added(i, n) ==
    /\ i.id \in Self.ids + 1 .. Self.ids + n
    /\ i.op \in {"cast", "gep", "track"}

(* X stands in front of the cut and C behind it, after n insertions before *)
(* the current instruction or behind it.                                   *)
Cut(block, X, C, n) ==
    /\ X \in Seq(Insts) /\ C \in Seq(Insts) /\ block = X \o C
    /\ \A p, q \in DOMAIN block : block[p].id = block[q].id => p = q
    /\ \A p \in DOMAIN block : block[p] \in Range(Block) \/ Added(block[p], n)
    /\ Range(Block) \subseteq Range(block)
    /\ pos - 1 <= Len(X) /\ \A p \in 1 .. pos - 1 : X[p] = Block[p]
    /\ \A p \in pos .. Len(X) : X[p] = Inst \/ X[p].op \notin Tracked

Passed == SubSeq(Block, 1, pos - 1)
Rest == SubSeq(Block, pos + 1, Len(Block))

LEMMA BlockParts ==
    ASSUME AnnotatorInv, AtInst
    PROVE  /\ Passed \in Seq(Insts) /\ Len(Passed) = pos - 1
           /\ \A p \in 1 .. pos - 1 : Passed[p] = Block[p]
           /\ Rest \in Seq(Insts) /\ Inst \in Insts
           /\ Block = Passed \o Ahead(Inst, Rest)
           /\ Block = Then(Passed, Inst) \o Rest
<1> DEFINE L == Len(Block)
<1>1. /\ Block \in Seq(Insts) /\ L \in Nat /\ DOMAIN Block = 1 .. L
      /\ pos \in 1 .. L /\ pos \in Nat /\ Inst \in Insts
      /\ \A p \in 1 .. L : Block[p] \in Insts
  BY InstFacts, BlockFacts, ElementOfSeq
<1>2. Passed \in Seq(Insts) /\ Len(Passed) = pos - 1 /\ \A p \in 1 .. pos - 1 : Passed[p] = Block[p]
  <2>1. \A p \in 1 .. pos - 1 : Block[p] \in Insts BY <1>1
  <2>2. /\ Passed \in Seq(Insts)
        /\ Len(Passed) = IF 1 <= pos - 1 THEN pos - 1 - 1 + 1 ELSE 0
        /\ \A p \in 1 .. pos - 1 - 1 + 1 : Passed[p] = Block[1 + p - 1]
    BY <1>1, <2>1, SubSeqProperties DEF Passed
  <2> QED BY <1>1, <2>2
<1>3. Rest \in Seq(Insts)
  <2>1. \A p \in pos + 1 .. L : Block[p] \in Insts BY <1>1
  <2> QED BY <1>1, <2>1, SubSeqProperties DEF Rest
<1>4. Block = Passed \o Ahead(Inst, Rest)
  <2> DEFINE tail == SubSeq(Block, pos, L)
  <2>1. SubSeq(Block, 1, pos - 1) \o SubSeq(Block, (pos - 1) + 1, L) = SubSeq(Block, 1, L)
    <3>1. 1 \in 1 .. L + 1 /\ pos - 1 \in 1 - 1 .. L /\ L \in pos - 1 .. L BY <1>1
    <3> HIDE DEF L
    <3>2. L = Len(Block) BY DEF L
    <3> QED BY <1>1, <3>1, <3>2, ConcatAdjacentSubSeq
  <2>2. SubSeq(Block, 1, L) = Block BY <1>1, SubSeqFull
  <2>3. tail = <<Block[pos]>> \o SubSeq(Block, pos + 1, L)
    <3>1. L \in pos .. L BY <1>1
    <3> QED BY <1>1, <3>1, SubSeqRecursiveFirst
  <2>4. (pos - 1) + 1 = pos BY <1>1
  <2> QED BY <2>1, <2>2, <2>3, <2>4 DEF Passed, Rest, Ahead, Inst
<1>5. Block = Then(Passed, Inst) \o Rest BY <1>1, <1>2, <1>3, <1>4, CutPasses
<1> QED BY <1>1, <1>2, <1>3, <1>4, <1>5

LEMMA CutStart ==
    ASSUME AnnotatorInv, AtInst
    PROVE  Cut(Block, Passed, Ahead(Inst, Rest), 0) /\ Cut(Block, Then(Passed, Inst), Rest, 0)
<1> DEFINE T == Then(Passed, Inst)
           H == Ahead(Inst, Rest)
<1>1. /\ Passed \in Seq(Insts) /\ Len(Passed) = pos - 1
      /\ \A p \in 1 .. pos - 1 : Passed[p] = Block[p]
      /\ Rest \in Seq(Insts) /\ Inst \in Insts
      /\ Block = Passed \o H /\ Block = T \o Rest
  BY BlockParts
<1>2. pos \in Nat BY InstFacts
<1>3. /\ T \in Seq(Insts) /\ Len(T) = pos
      /\ \A p \in 1 .. pos - 1 : T[p] = Block[p]
      /\ T[pos] = Inst
  <2>1. /\ T \in Seq(Insts) /\ Len(T) = Len(Passed) + 1
        /\ \A p \in 1 .. Len(Passed) : T[p] = Passed[p]
        /\ T[Len(Passed) + 1] = Inst
    BY <1>1, ThenFacts
  <2>2. (pos - 1) + 1 = pos BY <1>2
  <2> QED BY <1>1, <2>1, <2>2
<1>4. H \in Seq(Insts) BY <1>1, AheadFacts
<1>5. /\ \A p, q \in DOMAIN Block : Block[p].id = Block[q].id => p = q
      /\ \A p \in DOMAIN Block : Block[p] \in Range(Block)
  BY InstFacts, BlockFacts DEF GoodBlock, Range
<1>6. pos - 1 <= Len(Passed) /\ pos - 1 <= Len(T) BY <1>1, <1>2, <1>3
<1>7. pos .. Len(Passed) = {} /\ \A p \in pos .. Len(T) : p = pos BY <1>1, <1>2, <1>3
<1> HIDE DEF T, H
<1>8. Cut(Block, Passed, H, 0) BY <1>1, <1>4, <1>5, <1>6, <1>7 DEF Cut
<1>9. Cut(Block, T, Rest, 0) BY <1>1, <1>3, <1>5, <1>6, <1>7 DEF Cut
<1> QED BY <1>8, <1>9 DEF T, H

(* Where the instructions of a block are after an insertion.               *)
LEMMA InsertedPlaces ==
    ASSUME NEW block \in Seq(Insts), NEW i \in Insts, NEW k \in 1 .. Len(block) + 1,
           NEW new, Inserts(new, block, k, i)
    PROVE  /\ k \in DOMAIN new /\ new[k] = i
           /\ \A p \in DOMAIN new : p = k \/ \E q \in DOMAIN block :
                 p = (IF q < k THEN q ELSE q + 1) /\ new[p] = block[q]
           /\ \A q \in DOMAIN block : \E p \in DOMAIN new : new[p] = block[q]
<1> DEFINE L == Len(block)
<1>1. L \in Nat /\ DOMAIN block = 1 .. L /\ k \in Nat /\ k <= L + 1 /\ 1 <= k BY LenProperties
<1>2. /\ DOMAIN new = 1 .. L + 1
      /\ \A p \in 1 .. L + 1 :
            new[p] = IF p < k THEN block[p] ELSE IF p = k THEN i ELSE block[p - 1]
  <2>1. new \in Seq(Insts) /\ Len(new) = L + 1 BY DEF Inserts
  <2> QED BY <2>1, LenProperties DEF Inserts
<1> HIDE DEF L
<1>3. k \in DOMAIN new /\ new[k] = i
  <2>1. k \in 1 .. L + 1 /\ ~(k < k) BY <1>1
  <2> QED BY <1>2, <2>1
<1>4. ASSUME NEW p \in DOMAIN new, p # k
      PROVE  \E q \in DOMAIN block : p = (IF q < k THEN q ELSE q + 1) /\ new[p] = block[q]
  <2>1. CASE p < k
    <3>1. p \in 1 .. L /\ p = (IF p < k THEN p ELSE p + 1) BY <1>1, <1>2, <2>1
    <3> QED BY <1>1, <1>2, <2>1, <3>1
  <2>2. CASE p > k
    <3>0. p \in Nat /\ p <= L + 1 BY <1>1, <1>2
    <3>1. p - 1 \in 1 .. L /\ ~(p < k) /\ ~(p - 1 < k) /\ p = (p - 1) + 1
      BY <1>1, <2>2, <3>0
    <3> QED BY <1>1, <1>2, <1>4, <3>1
  <2>3. p < k \/ p > k BY <1>1, <1>2, <1>4
  <2> QED BY <2>1, <2>2, <2>3
<1>5. ASSUME NEW q \in DOMAIN block PROVE \E p \in DOMAIN new : new[p] = block[q]
  <2>1. CASE q < k
    <3>1. q \in 1 .. L + 1 BY <1>1
    <3> QED BY <1>2, <2>1, <3>1
  <2>2. CASE ~(q < k)
    <3>1. q + 1 \in 1 .. L + 1 /\ ~(q + 1 < k) /\ q + 1 # k /\ (q + 1) - 1 = q BY <1>1, <2>2
    <3> QED BY <1>2, <3>1
  <2> QED BY <2>1, <2>2
<1> QED BY <1>3, <1>4, <1>5

LEMMA CutInsert ==
    ASSUME AnnotatorInv, AtInst,
           NEW n \in 0 .. 3, NEW m \in 0 .. 3, n < m,
           NEW block, NEW X, NEW C, Cut(block, X, C, n),
           NEW i \in Insts, i.id = Fresh(m), i.op \in {"cast", "gep", "track"}
    PROVE  Cut(InsertAt(block, Len(X) + 1, i), Then(X, i), C, m)
<1> DEFINE k == Len(X) + 1
           new == InsertAt(block, k, i)
           T == Then(X, i)
<1>1. /\ X \in Seq(Insts) /\ C \in Seq(Insts) /\ block = X \o C
      /\ pos - 1 <= Len(X) /\ \A p \in 1 .. pos - 1 : X[p] = Block[p]
      /\ \A p \in pos .. Len(X) : X[p] = Inst \/ X[p].op \notin Tracked
  BY DEF Cut
<1>2. /\ block \in Seq(Insts) /\ Len(block) = Len(X) + Len(C)
      /\ Len(X) \in Nat /\ Len(C) \in Nat
  BY <1>1, PartsOf
<1>3. k \in 1 .. Len(block) + 1 BY <1>2
<1>4. new = T \o C BY <1>1, InsertAtCut
<1>5. Inserts(new, block, k, i) BY <1>2, <1>3, InsertAtInserts
<1>6. /\ T \in Seq(Insts) /\ Len(T) = Len(X) + 1
      /\ \A p \in 1 .. Len(X) : T[p] = X[p]
      /\ T[Len(X) + 1] = i
  BY <1>1, ThenFacts
<1>k. k \in Int BY <1>2
<1>l. k = Len(X) + 1 OBVIOUS
<1> HIDE DEF new, T, k
<1>7. /\ k \in DOMAIN new /\ new[k] = i
      /\ \A p \in DOMAIN new : p = k \/ \E q \in DOMAIN block :
            p = (IF q < k THEN q ELSE q + 1) /\ new[p] = block[q]
      /\ \A q \in DOMAIN block : \E p \in DOMAIN new : new[p] = block[q]
  BY <1>2, <1>3, <1>5, InsertedPlaces
<1>8. Self.ids \in Nat /\ \A j \in Range(Block) : j.id \in 1 .. Self.ids
  BY InstFacts, BlockFacts, FunctionFacts DEF Range, GoodBlock, Fits
<1>9. /\ Added(i, m) /\ \A j : Added(j, n) => Added(j, m)
      /\ \A p \in DOMAIN block : block[p].id # i.id
  <2> DEFINE ids == Self.ids
  <2>1. i.id = ids + m BY DEF Fresh
  <2>2. \A p \in DOMAIN block : block[p].id \in 1 .. ids \/ block[p].id \in ids + 1 .. ids + n
    BY <1>8 DEF Cut, Added
  <2>3. \A j : Added(j, n) <=>
                  j.id \in ids + 1 .. ids + n /\ j.op \in {"cast", "gep", "track"}
    BY DEF Added
  <2>4. \A j : Added(j, m) <=>
                  j.id \in ids + 1 .. ids + m /\ j.op \in {"cast", "gep", "track"}
    BY DEF Added
  <2>5. ids \in Nat BY <1>8
  <2> HIDE DEF ids
  <2>6. ids + m \in ids + 1 .. ids + m /\ ids + m \notin 1 .. ids /\ ids + m \notin ids + 1 .. ids + n
    BY <2>5
  <2>7. ids + 1 .. ids + n \subseteq ids + 1 .. ids + m BY <2>5
  <2> QED BY <2>1, <2>2, <2>3, <2>4, <2>6, <2>7
<1>10. ASSUME NEW p \in DOMAIN new, NEW q \in DOMAIN new, new[p].id = new[q].id
       PROVE  p = q
  <2>1. CASE p = k
    <3>1. q = k BY <1>7, <1>9, <1>10, <2>1
    <3> QED BY <2>1, <3>1
  <2>2. CASE q = k
    <3>1. p = k BY <1>7, <1>9, <1>10, <2>2
    <3> QED BY <2>2, <3>1
  <2>3. CASE p # k /\ q # k
    <3>1. PICK a \in DOMAIN block : p = (IF a < k THEN a ELSE a + 1) /\ new[p] = block[a]
      BY <1>7, <2>3
    <3>2. PICK b \in DOMAIN block : q = (IF b < k THEN b ELSE b + 1) /\ new[q] = block[b]
      BY <1>7, <2>3
    <3>3. a = b BY <1>10, <3>1, <3>2 DEF Cut
    <3> QED BY <3>1, <3>2, <3>3
  <2> QED BY <2>1, <2>2, <2>3
<1>11. ASSUME NEW p \in DOMAIN new PROVE new[p] \in Range(Block) \/ Added(new[p], m)
  BY <1>7, <1>9 DEF Cut
<1>12. Range(Block) \subseteq Range(new)
  <2>1. Range(Block) \subseteq Range(block) BY DEF Cut
  <2>2. Range(block) \subseteq Range(new) BY <1>7 DEF Range
  <2> QED BY <2>1, <2>2
<1>13. pos \in Nat BY InstFacts
<1>14. pos - 1 <= Len(T) /\ \A p \in 1 .. pos - 1 : T[p] = Block[p]
  <2>1. pos - 1 <= Len(X) /\ Len(X) \in Nat BY <1>1, <1>2
  <2>2. \A p \in 1 .. pos - 1 : X[p] = Block[p] BY <1>1
  <2>3. \A p \in 1 .. Len(X) : T[p] = X[p] BY <1>6
  <2>4. \A p \in 1 .. pos - 1 : p \in 1 .. Len(X) BY <1>13, <2>1
  <2>5. \A p \in 1 .. pos - 1 : T[p] = Block[p] BY <2>2, <2>3, <2>4
  <2>6. Len(T) = Len(X) + 1 BY <1>6
  <2>7. pos - 1 <= Len(T) BY <1>13, <2>1, <2>6
  <2> QED BY <2>5, <2>7
<1>15. ASSUME NEW p \in pos .. Len(T) PROVE T[p] = Inst \/ T[p].op \notin Tracked
  <2>1. CASE p = Len(X) + 1
    <3>1. i.op \notin Tracked BY DEF Tracked, Allocations
    <3> QED BY <1>6, <2>1, <3>1
  <2>2. CASE p # Len(X) + 1
    <3>1. p \in pos .. Len(X) /\ p \in 1 .. Len(X) BY <1>2, <1>6, <1>13, <2>2, InstFacts
    <3> QED BY <1>1, <1>6, <3>1
  <2> QED BY <2>1, <2>2
<1>16. Cut(new, T, C, m)
  BY <1>1, <1>4, <1>6, <1>10, <1>11, <1>12, <1>14, <1>15 DEF Cut
<1> QED BY <1>16 DEF new, T, k

LEMMA CutMoves ==
    ASSUME AnnotatorInv, AtInst,
           NEW n, NEW block, NEW X, NEW C \in Seq(Insts),
           Cut(block, X, Ahead(Inst, C), n)
    PROVE  Cut(block, Then(X, Inst), C, n)
<1> DEFINE T == Then(X, Inst)
           H == Ahead(Inst, C)
<1>1. Inst \in Insts /\ X \in Seq(Insts) /\ block = X \o H BY InstFacts DEF Cut
<1>2. block = T \o C BY <1>1, CutPasses
<1>3. /\ T \in Seq(Insts) /\ Len(T) = Len(X) + 1 /\ Len(X) \in Nat
      /\ \A p \in 1 .. Len(X) : T[p] = X[p]
      /\ T[Len(X) + 1] = Inst
  BY <1>1, ThenFacts
<1>4. pos \in Nat /\ 1 <= pos BY InstFacts
<1> HIDE DEF T, H
<1>5. /\ pos - 1 <= Len(X) /\ \A p \in 1 .. pos - 1 : X[p] = Block[p]
      /\ \A p \in pos .. Len(X) : X[p] = Inst \/ X[p].op \notin Tracked
  BY DEF Cut, H
<1>6. pos - 1 <= Len(T) /\ \A p \in 1 .. pos - 1 : T[p] = Block[p]
  <2>1. \A p \in 1 .. pos - 1 : p \in 1 .. Len(X) BY <1>3, <1>4, <1>5
  <2> QED BY <1>3, <1>4, <1>5, <2>1
<1>7. ASSUME NEW p \in pos .. Len(T) PROVE T[p] = Inst \/ T[p].op \notin Tracked
  <2>1. CASE p = Len(X) + 1 BY <1>3, <2>1
  <2>2. CASE p # Len(X) + 1
    <3>1. p \in pos .. Len(X) /\ p \in 1 .. Len(X) BY <1>3, <1>4, <2>2
    <3> QED BY <1>3, <1>5, <3>1
  <2> QED BY <2>1, <2>2
<1>8. Cut(block, T, C, n) BY <1>2, <1>3, <1>6, <1>7 DEF Cut, H
<1> QED BY <1>8 DEF T

(* The instruction behind the cut, and the one in front of it, are found.  *)
LEMMA CutFound ==
    ASSUME NEW n, NEW block, NEW X, NEW C,
           NEW i \in Insts, Cut(block, X, Ahead(i, C), n), C \in Seq(Insts)
    PROVE  PosOf(block, i.id) = Len(X) + 1
<1>1. X \in Seq(Insts) /\ Ahead(i, C) \in Seq(Insts) /\ block = X \o Ahead(i, C) BY DEF Cut
<1>2. Len(Ahead(i, C)) = Len(C) + 1 /\ Ahead(i, C)[1] = i /\ Len(C) \in Nat
  BY AheadFacts, LenProperties
<1>3. 1 \in 1 .. Len(Ahead(i, C)) BY <1>2
<1>4. block[Len(X) + 1] = i /\ Len(X) + 1 \in DOMAIN block BY <1>1, <1>2, <1>3, PartsOf
<1> QED BY <1>4 DEF PosOf, Cut

LEMMA CutLast ==
    ASSUME NEW n, NEW block, NEW X \in Seq(Insts), NEW C,
           NEW i \in Insts, Cut(block, Then(X, i), C, n)
    PROVE  PosOf(block, i.id) + 1 = Len(Then(X, i)) + 1
<1> DEFINE T == Then(X, i)
<1>1. T \in Seq(Insts) /\ Len(T) = Len(X) + 1 /\ T[Len(X) + 1] = i /\ Len(X) \in Nat
  BY ThenFacts
<1> HIDE DEF T
<1>2. C \in Seq(Insts) /\ block = T \o C BY DEF Cut, T
<1>3. Len(T) \in 1 .. Len(T) BY <1>1
<1>4. block[Len(T)] = i /\ Len(T) \in DOMAIN block BY <1>1, <1>2, <1>3, PartsOf
<1> QED BY <1>4 DEF PosOf, Cut, T

LEMMA CutBefore ==
    ASSUME AnnotatorInv, AtInst,
           NEW n \in 0 .. 3, NEW m \in 0 .. 3, n < m,
           NEW block, NEW X, NEW C \in Seq(Insts), Cut(block, X, Ahead(Inst, C), n),
           NEW i \in Insts, i.id = Fresh(m), i.op \in {"cast", "gep", "track"}
    PROVE  Cut(InsertBefore(block, Inst.id, i), Then(X, i), Ahead(Inst, C), m)
<1>1. Inst \in Insts BY InstFacts
<1>2. PosOf(block, Inst.id) = Len(X) + 1 BY <1>1, CutFound
<1>3. Cut(InsertAt(block, Len(X) + 1, i), Then(X, i), Ahead(Inst, C), m) BY CutInsert
<1> QED BY <1>2, <1>3 DEF InsertBefore

LEMMA CutAfter ==
    ASSUME AnnotatorInv, AtInst,
           NEW n \in 0 .. 3, NEW m \in 0 .. 3, n < m,
           NEW block, NEW X \in Seq(Insts), NEW j \in Insts, NEW C, Cut(block, Then(X, j), C, n),
           NEW i \in Insts, i.id = Fresh(m), i.op \in {"cast", "gep", "track"}
    PROVE  Cut(InsertAfter(block, j.id, i), Then(Then(X, j), i), C, m)
<1>1. PosOf(block, j.id) + 1 = Len(Then(X, j)) + 1 BY CutLast
<1>2. Cut(InsertAt(block, Len(Then(X, j)) + 1, i), Then(Then(X, j), i), C, m) BY CutInsert
<1> QED BY <1>1, <1>2 DEF InsertAfter

-----------------------------------------------------------------------------
(* Values, and what they are made from                                     *)

LEMMA InstGood ==
    ASSUME NEW g, GoodFunction(g), NEW i \in InstsOf(g)
    PROVE  /\ i \in Insts /\ Fits(i, g.ids) /\ g.ids \in Nat
           /\ \A a \in DOMAIN i.args : i.args[a] \in Int /\ i.args[a] <= g.ids
           /\ \A j \in InstsOf(g) : j.id = i.id => j = i
<1>1. \E b \in DOMAIN g.blocks : i \in Range(g.blocks[b]) BY DEF InstsOf
<1>2. PICK b \in DOMAIN g.blocks : i \in Range(g.blocks[b]) BY <1>1
<1>3. PICK p \in DOMAIN g.blocks[b] : i = g.blocks[b][p] BY <1>2 DEF Range
<1>4. GoodBlock(g.blocks[b], g.ids) /\ NumbersApart(g) /\ g.ids \in Nat
  BY DEF GoodFunction, AnyFunction
<1>5. i \in Insts /\ Fits(i, g.ids) BY <1>3, <1>4, LenProperties, ElementOfSeq DEF GoodBlock
<1>6. i.args \in Seq(Int) BY <1>5 DEF Insts
<1>7. \A a \in DOMAIN i.args : i.args[a] \in Int BY <1>6, LenProperties, ElementOfSeq
<1>8. ASSUME NEW j \in InstsOf(g), j.id = i.id PROVE j = i
  <2>1. \E c \in DOMAIN g.blocks : j \in Range(g.blocks[c]) BY DEF InstsOf
  <2>2. PICK c \in DOMAIN g.blocks : j \in Range(g.blocks[c]) BY <2>1
  <2>3. PICK q \in DOMAIN g.blocks[c] : j = g.blocks[c][q] BY <2>2 DEF Range
  <2>4. b = c /\ p = q BY <1>3, <1>4, <1>8, <2>3 DEF NumbersApart
  <2> QED BY <1>3, <2>3, <2>4
<1> QED BY <1>4, <1>5, <1>7, <1>8 DEF Fits

(* A conversion stands for what it is made from, anything else for itself. *)
LEMMA OriginOf ==
    ASSUME NEW g, GoodFunction(g), NEW i \in InstsOf(g), i.op \in Conversions
    PROVE  Origin(g, i.id) = i.args[1]
<1> DEFINE found == By(g, i.id, Conversions)
<1>1. i \in found /\ \A j \in found : j = i BY InstGood DEF By
<1>2. found # {} /\ (CHOOSE j \in found : TRUE) = i BY <1>1
<1> QED BY <1>2 DEF Origin, OperandOf

LEMMA OriginOfOther ==
    ASSUME NEW g, NEW v, \A i \in InstsOf(g) : i.op \in Conversions => i.id # v
    PROVE  Origin(g, v) = v
<1>1. By(g, v, Conversions) = {} BY DEF By
<1> QED BY <1>1 DEF Origin

(* h has the instructions of g, and others with numbers behind those of g. *)
Extends(g, h) ==
    /\ GoodFunction(g)
    /\ InstsOf(g) \subseteq InstsOf(h)
    /\ \A i \in InstsOf(h) \ InstsOf(g) : i.id > g.ids /\ i.op \notin Pairings

LEMMA OriginStays ==
    ASSUME NEW g, NEW h, Extends(g, h), NEW v \in Int, v <= g.ids
    PROVE  Origin(h, v) = Origin(g, v) /\ Origin(g, v) \in Int /\ Origin(g, v) <= g.ids
<1> DEFINE found == By(g, v, Conversions)
<1>1. g.ids \in Nat BY DEF Extends, GoodFunction, AnyFunction
<1>2. By(h, v, Conversions) = found
  <2>1. found \subseteq By(h, v, Conversions) BY DEF By, Extends
  <2>2. ASSUME NEW i \in By(h, v, Conversions) PROVE i \in found
    <3>1. i \in InstsOf(h) /\ i.id = v /\ i.op \in Conversions BY DEF By
    <3>2. i \in InstsOf(g) BY <1>1, <3>1 DEF Extends
    <3> QED BY <3>1, <3>2 DEF By
  <2> QED BY <2>1, <2>2
<1>3. Origin(h, v) = Origin(g, v) BY <1>2 DEF Origin, OperandOf
<1>4. CASE found = {} BY <1>3, <1>4 DEF Origin
<1>5. CASE found # {}
  <2> DEFINE i == CHOOSE j \in found : TRUE
  <2>1. i \in found BY <1>5
  <2> HIDE DEF i
  <2>2. i \in InstsOf(g) /\ i.op \in Conversions BY <2>1 DEF By
  <2>3. GoodFunction(g) BY DEF Extends
  <2>4. 1 \in DOMAIN i.args /\ \A a \in DOMAIN i.args : i.args[a] \in Int /\ i.args[a] <= g.ids
    BY <2>2, <2>3, InstGood DEF Fits
  <2>5. Origin(g, v) = i.args[1] BY <1>5 DEF Origin, OperandOf, i
  <2> QED BY <1>3, <2>4, <2>5
<1> QED BY <1>4, <1>5

LEMMA ResolveStays ==
    ASSUME NEW g, NEW h, Extends(g, h), NEW v \in Int, v <= g.ids
    PROVE  Resolve(h, v) = Resolve(g, v)
<1> DEFINE w == Origin(g, v)
<1>1. Origin(h, v) = w /\ w \in Int /\ w <= g.ids BY OriginStays
<1> HIDE DEF w
<1>2. Origin(h, w) = Origin(g, w) BY <1>1, OriginStays
<1> QED BY <1>1, <1>2 DEF Resolve, w

(* What is returned depends on the insertvalue instructions only.          *)
LEMMA ReturnedSame ==
    ASSUME NEW g, NEW h, \A i : i.op \in Pairings => (i \in InstsOf(g) <=> i \in InstsOf(h))
    PROVE  \A v : Returned(h, v) = Returned(g, v)
<1>1. \A v : By(h, v, Pairings) = By(g, v, Pairings)
  <2> SUFFICES ASSUME NEW v PROVE By(h, v, Pairings) = By(g, v, Pairings) OBVIOUS
  <2> QED BY DEF By
<1>2. \A v, n : OperandOf(h, v, Pairings, n) = OperandOf(g, v, Pairings, n)
  <2> SUFFICES ASSUME NEW v, NEW n
               PROVE  OperandOf(h, v, Pairings, n) = OperandOf(g, v, Pairings, n)
    OBVIOUS
  <2>1. By(h, v, Pairings) = By(g, v, Pairings) BY <1>1
  <2> QED BY <2>1 DEF OperandOf
<1>3. \A v : PutTogether(h, v) = PutTogether(g, v) BY <1>1, <1>2 DEF PutTogether
<1> QED BY <1>1, <1>2, <1>3 DEF Returned

(* What an instruction of g reports is not changed by what is inserted.    *)
LEMMA ReportedStays ==
    ASSUME NEW g, NEW h, Extends(g, h), NEW i \in Insts, Fits(i, g.ids)
    PROVE  Reported(h, i) = Reported(g, i)
<1>1. i.args \in Seq(Int) BY DEF Insts
<1>2. \A a \in DOMAIN i.args : i.args[a] \in Int /\ i.args[a] <= g.ids
  BY <1>1, LenProperties, ElementOfSeq DEF Fits
<1>3. \A a \in DOMAIN i.args : Resolve(h, i.args[a]) = Resolve(g, i.args[a])
  BY <1>2, ResolveStays
<1>4. [n \in DOMAIN i.args |-> Resolve(h, i.args[n])]
         = [n \in DOMAIN i.args |-> Resolve(g, i.args[n])]
  BY <1>3
<1>5. \A v : Returned(h, v) = Returned(g, v)
  <2>1. \A j : j.op \in Pairings => (j \in InstsOf(g) <=> j \in InstsOf(h)) BY DEF Extends
  <2> QED BY <2>1, ReturnedSame
<1>6. Returned(h, i.args[1]) = Returned(g, i.args[1]) BY <1>5
<1> QED BY <1>4, <1>6 DEF Reported

LEMMA ReportsStay ==
    ASSUME NEW g, NEW h, Extends(g, h), NEW A \in Seq(Insts),
           \A p \in DOMAIN A : Fits(A[p], g.ids)
    PROVE  Reports(h, A) = Reports(g, A)
<1>1. \A p \in DOMAIN A : A[p] \in Insts BY LenProperties, ElementOfSeq
<1>2. \A p \in DOMAIN A : Reported(h, A[p]) = Reported(g, A[p]) BY <1>1, ReportedStays
<1>3. [p \in DOMAIN A |-> Reported(h, A[p])] = [p \in DOMAIN A |-> Reported(g, A[p])]
  BY <1>2
<1> QED BY <1>3 DEF Reports

-----------------------------------------------------------------------------
(* The walk                                                                *)

(* A function as the walk finds it: nothing was inserted yet.              *)
Started(s) ==
    /\ GoodFunction(s)
    /\ \A i \in InstsOf(s) : i.op \notin {"cast", "gep", "track"}

(* With the iterators at block b of function n, the walk is behind block c *)
(* of function k.                                                          *)
Past(n, b, k, c) == k < n \/ (k = n /\ c < b)

(* The block was, now, falls into what the walk has come past, which       *)
(* reports what it should, and what it has not changed.                    *)
Walking(g, s, p, now, was) ==
    \E A \in Seq(Insts) : \E C \in Seq(Insts) : \E D \in Seq(Insts) :
        /\ now = A \o C /\ was = D \o C
        /\ Reports(g, A) = AwaitedOf(s, D)
        /\ p <= Len(A) + 1
        /\ \A q \in p .. Len(A) : A[q].op \notin Tracked

(* With the iterators at n, b and p, function k of fs, once s, reports     *)
(* what it should behind them, and is as it was in front of them.          *)
Walked(fs, n, b, p, k, s) ==
    /\ k \in DOMAIN fs
    /\ DOMAIN fs[k].blocks = DOMAIN s.blocks
    /\ s.ids <= fs[k].ids
    /\ (k > n \/ (k = n /\ b = 0)) => fs[k] = s
    /\ \A i \in InstsOf(fs[k]) : i.op \in Conversions => i.id > s.ids
    /\ \A i : i.op \in Pairings => (i \in InstsOf(fs[k]) <=> i \in InstsOf(s))
    /\ \A c \in DOMAIN s.blocks :
          /\ Past(n, b, k, c) => Reports(fs[k], fs[k].blocks[c]) = AwaitedOf(s, s.blocks[c])
          /\ k = n /\ c = b => Walking(fs[k], s, p, fs[k].blocks[c], s.blocks[c])
          /\ ~Past(n, b, k, c) /\ ~(k = n /\ c = b) => fs[k].blocks[c] = s.blocks[c]

(* An instruction where the unchanged rest of the block begins.            *)
LEMMA WalkAtCut ==
    ASSUME AnnotatorInv, AtInst, NEW s, bb \in DOMAIN s.blocks,
           NEW A \in Seq(Insts), NEW C \in Seq(Insts), NEW D \in Seq(Insts),
           Block = A \o C, s.blocks[bb] = D \o C, pos = Len(A) + 1
    PROVE  /\ A = Passed /\ s.blocks[bb] = Then(D, Inst) \o Rest
           /\ Inst \in InstsOf(s)
<1>1. /\ Passed \in Seq(Insts) /\ Len(Passed) = pos - 1
      /\ \A p \in 1 .. pos - 1 : Passed[p] = Block[p]
      /\ Rest \in Seq(Insts) /\ Inst \in Insts
      /\ Block = Passed \o Ahead(Inst, Rest)
  BY BlockParts
<1>2. Len(A) \in Nat /\ \A p \in 1 .. Len(A) : Block[p] = A[p] BY PartsOf
<1>3. A = Passed
  <2>1. Len(A) = Len(Passed) BY <1>1, <1>2
  <2>2. \A p \in 1 .. Len(A) : A[p] = Passed[p] BY <1>1, <1>2
  <2> QED BY <1>1, <2>1, <2>2, SeqEqual
<1>4. C = Ahead(Inst, Rest)
  <2> DEFINE H == Ahead(Inst, Rest)
  <2>1. H \in Seq(Insts) BY <1>1, AheadFacts
  <2>2. Passed \o C = Passed \o H BY <1>1, <1>3
  <2> HIDE DEF H
  <2>3. \A x, y, z \in Seq(Insts) : x \o y = x \o z => y = z BY ConcatSimplifications
  <2>4. C = H BY <1>1, <2>1, <2>2, <2>3
  <2> QED BY <2>4 DEF H
<1>5. s.blocks[bb] = Then(D, Inst) \o Rest BY <1>1, <1>4, CutPasses
<1>6. Inst \in InstsOf(s)
  <2> DEFINE T == Then(D, Inst)
  <2>1. T \in Seq(Insts) /\ Len(T) = Len(D) + 1 /\ T[Len(D) + 1] = Inst /\ Len(D) \in Nat
    BY <1>1, ThenFacts
  <2>2. s.blocks[bb] = T \o Rest BY <1>5
  <2> HIDE DEF T
  <2>3. Len(D) + 1 \in 1 .. Len(T) BY <2>1
  <2>4. (T \o Rest)[Len(D) + 1] = Inst /\ Len(D) + 1 \in DOMAIN (T \o Rest)
    BY <1>1, <2>1, <2>3, PartsOf
  <2>5. Inst \in Range(s.blocks[bb]) BY <2>2, <2>4 DEF Range
  <2> QED BY <2>5 DEF InstsOf
<1> QED BY <1>3, <1>5, <1>6

(* At a tracked instruction the walk is just behind what it has come past. *)
LEMMA WalkAtTracked ==
    ASSUME AnnotatorInv, AtInst, Inst.op \in Tracked,
           NEW s, Walked(funs, fn, bb, pos, fn, s)
    PROVE  /\ Inst \in InstsOf(s) /\ bb \in DOMAIN s.blocks
           /\ \E D \in Seq(Insts) : /\ s.blocks[bb] = Then(D, Inst) \o Rest
                                    /\ Reports(Self, Passed) = AwaitedOf(s, D)
<1>1. /\ Passed \in Seq(Insts) /\ Len(Passed) = pos - 1
      /\ \A p \in 1 .. pos - 1 : Passed[p] = Block[p]
      /\ Rest \in Seq(Insts) /\ Inst \in Insts
      /\ Block = Passed \o Ahead(Inst, Rest)
  BY BlockParts
<1>2. bb \in DOMAIN Self.blocks /\ pos \in Nat /\ 1 <= pos BY InstFacts DEF InBlock
<1>3. bb \in DOMAIN s.blocks /\ Walking(Self, s, pos, Block, s.blocks[bb])
  BY <1>2 DEF Walked, Self, Block
<1>4. \E A \in Seq(Insts) : \E C \in Seq(Insts) : \E D \in Seq(Insts) :
        /\ Block = A \o C /\ s.blocks[bb] = D \o C
        /\ Reports(Self, A) = AwaitedOf(s, D)
        /\ pos <= Len(A) + 1
        /\ \A q \in pos .. Len(A) : A[q].op \notin Tracked
  BY <1>3 DEF Walking
<1>5. PICK A \in Seq(Insts) : \E C \in Seq(Insts) : \E D \in Seq(Insts) :
        /\ Block = A \o C /\ s.blocks[bb] = D \o C
        /\ Reports(Self, A) = AwaitedOf(s, D)
        /\ pos <= Len(A) + 1
        /\ \A q \in pos .. Len(A) : A[q].op \notin Tracked
  BY <1>4
<1>6. PICK C \in Seq(Insts) : \E D \in Seq(Insts) :
        /\ Block = A \o C /\ s.blocks[bb] = D \o C
        /\ Reports(Self, A) = AwaitedOf(s, D)
        /\ pos <= Len(A) + 1
        /\ \A q \in pos .. Len(A) : A[q].op \notin Tracked
  BY <1>5
<1>7. PICK D \in Seq(Insts) :
        /\ Block = A \o C /\ s.blocks[bb] = D \o C
        /\ Reports(Self, A) = AwaitedOf(s, D)
        /\ pos <= Len(A) + 1
        /\ \A q \in pos .. Len(A) : A[q].op \notin Tracked
  BY <1>6
<1>8. Len(A) \in Nat /\ \A p \in 1 .. Len(A) : Block[p] = A[p] BY <1>7, PartsOf
<1>9. pos = Len(A) + 1
  <2> SUFFICES ASSUME pos <= Len(A) PROVE FALSE BY <1>2, <1>7, <1>8
  <2>1. pos \in 1 .. Len(A) /\ pos \in pos .. Len(A) BY <1>2, <1>8
  <2> QED BY <1>7, <1>8, <2>1 DEF Inst
<1>10. A = Passed /\ s.blocks[bb] = Then(D, Inst) \o Rest /\ Inst \in InstsOf(s)
  BY <1>3, <1>7, <1>9, WalkAtCut
<1> QED BY <1>3, <1>7, <1>10

(* The function after a rewrite.                                           *)
LEMMA RewriteShape ==
    ASSUME AnnotatorInv, AnnotatorInv', AtInst, NEW block, Rewrite(block)
    PROVE  LET h == funs'[fn] IN
           /\ DOMAIN funs' = DOMAIN funs /\ fn \in DOMAIN funs
           /\ \A k \in DOMAIN funs : k # fn => funs'[k] = funs[k]
           /\ GoodFunction(h)
           /\ h.ids = Self.ids + 3
           /\ DOMAIN h.blocks = DOMAIN Self.blocks
           /\ h.blocks[bb] = block
           /\ \A c \in DOMAIN Self.blocks : c # bb => h.blocks[c] = Self.blocks[c]
<1>1. /\ AtFunction /\ InBlock /\ fn \in DOMAIN funs /\ bb \in DOMAIN Self.blocks
      /\ GoodFunction(Self) /\ Self \in AnyFunction
  BY InstFacts, FunctionFacts DEF InBlock, GoodFunction
<1> DEFINE blocks == [Self.blocks EXCEPT ![bb] = block]
           self == [Self EXCEPT !.blocks = blocks, !.ids = Self.ids + 3]
<1>2. self.ids = Self.ids + 3 /\ self.blocks = blocks BY <1>1 DEF AnyFunction
<1>3. /\ DOMAIN blocks = DOMAIN Self.blocks /\ blocks[bb] = block
      /\ \A c \in DOMAIN Self.blocks : c # bb => blocks[c] = Self.blocks[c]
  BY <1>1
<1>4. funs' = [funs EXCEPT ![fn] = self] BY <1>1 DEF Rewrite, Self
<1> HIDE DEF self, blocks
<1>5. /\ DOMAIN funs' = DOMAIN funs /\ funs'[fn] = self
      /\ \A k \in DOMAIN funs : k # fn => funs'[k] = funs[k]
  BY <1>1, <1>4
<1>6. GoodFunction(funs'[fn]) BY <1>1, <1>5 DEF AnnotatorInv
<1> QED BY <1>1, <1>2, <1>3, <1>5, <1>6

LEMMA RewriteExtends ==
    ASSUME AnnotatorInv, AnnotatorInv', AtInst, NEW n \in 0 .. 3,
           NEW block, NEW X, NEW C, Cut(block, X, C, n), Rewrite(block)
    PROVE  /\ Extends(Self, funs'[fn])
           /\ \A i \in InstsOf(funs'[fn]) : i \in InstsOf(Self) \/ Added(i, n)
           /\ Range(block) \subseteq InstsOf(funs'[fn])
<1> DEFINE h == funs'[fn]
<1>1. /\ DOMAIN h.blocks = DOMAIN Self.blocks
      /\ h.blocks[bb] = block
      /\ \A c \in DOMAIN Self.blocks : c # bb => h.blocks[c] = Self.blocks[c]
  BY RewriteShape
<1>2. bb \in DOMAIN Self.blocks /\ GoodFunction(Self) /\ Self.ids \in Nat
  BY InstFacts, FunctionFacts DEF InBlock
<1> HIDE DEF h
<1>3. Range(block) \subseteq InstsOf(h) BY <1>1, <1>2 DEF InstsOf
<1>4. Range(Block) \subseteq InstsOf(Self) BY <1>2 DEF InstsOf, Block
<1>5. ASSUME NEW i \in InstsOf(Self) PROVE i \in InstsOf(h)
  <2>1. \E c \in DOMAIN Self.blocks : i \in Range(Self.blocks[c]) BY DEF InstsOf
  <2>2. PICK c \in DOMAIN Self.blocks : i \in Range(Self.blocks[c]) BY <2>1
  <2>3. CASE c = bb BY <1>3, <2>2, <2>3 DEF Cut, Block
  <2>4. CASE c # bb BY <1>1, <2>2, <2>4 DEF InstsOf
  <2> QED BY <2>3, <2>4
<1>6. ASSUME NEW i \in InstsOf(h) PROVE i \in InstsOf(Self) \/ Added(i, n)
  <2>1. \E c \in DOMAIN h.blocks : i \in Range(h.blocks[c]) BY DEF InstsOf
  <2>2. PICK c \in DOMAIN h.blocks : i \in Range(h.blocks[c]) BY <2>1
  <2>3. CASE c = bb
    <3>1. PICK p \in DOMAIN block : i = block[p] BY <1>1, <2>2, <2>3 DEF Range
    <3> QED BY <1>4, <3>1 DEF Cut
  <2>4. CASE c # bb BY <1>1, <2>2, <2>4 DEF InstsOf
  <2> QED BY <2>3, <2>4
<1>7. \A i : Added(i, n) => i.id > Self.ids /\ i.op \notin Pairings
  BY <1>2 DEF Added, Pairings
<1>8. Extends(Self, h) BY <1>2, <1>5, <1>6, <1>7 DEF Extends
<1> QED BY <1>3, <1>6, <1>8 DEF h

(* A rewrite that makes the block report what it should, at the current    *)
(* instruction, takes the walk past that instruction.                      *)
LEMMA RewriteWalks ==
    ASSUME AnnotatorInv, AnnotatorInv', AtInst, Inst.op \in Tracked,
           NEW s, s.ids \in Nat, Walked(funs, fn, bb, pos, fn, s),
           NEW n \in 0 .. 3, NEW block, NEW X, Cut(block, X, Rest, n), Rewrite(block),
           Inst \in Range(X),
           Reports(funs'[fn], X) = Reports(funs'[fn], Passed) \o Awaited(s, Inst)
    PROVE  Walked(funs', fn', bb', pos', fn, s)
<1> DEFINE h == funs'[fn]
<1>1. /\ DOMAIN funs' = DOMAIN funs /\ fn \in DOMAIN funs
      /\ h.ids = Self.ids + 3
      /\ DOMAIN h.blocks = DOMAIN Self.blocks
      /\ h.blocks[bb] = block
      /\ \A c \in DOMAIN Self.blocks : c # bb => h.blocks[c] = Self.blocks[c]
  BY RewriteShape
<1>2. /\ Extends(Self, h)
      /\ \A i \in InstsOf(h) : i \in InstsOf(Self) \/ Added(i, n)
  BY RewriteExtends
<1>3. Reports(h, X) = Reports(h, Passed) \o Awaited(s, Inst) OBVIOUS
<1> HIDE DEF h
<1>4. /\ fn' = fn /\ bb' = bb /\ pos' = PosOf(block, Inst.id) + 1 BY DEF Rewrite
<1>5. /\ bb \in DOMAIN Self.blocks /\ Self.ids \in Nat /\ bb \in Nat /\ bb # 0
      /\ \A c \in DOMAIN Self.blocks : GoodBlock(Self.blocks[c], Self.ids)
  BY InstFacts, FunctionFacts DEF InBlock, GoodFunction
<1>6. /\ Inst \in InstsOf(s) /\ bb \in DOMAIN s.blocks
      /\ \E D \in Seq(Insts) : /\ s.blocks[bb] = Then(D, Inst) \o Rest
                               /\ Reports(Self, Passed) = AwaitedOf(s, D)
  BY WalkAtTracked
<1>7. PICK D \in Seq(Insts) : /\ s.blocks[bb] = Then(D, Inst) \o Rest
                              /\ Reports(Self, Passed) = AwaitedOf(s, D)
  BY <1>6
<1>8. Inst \in Insts /\ pos \in Nat /\ 1 <= pos BY InstFacts
<1>9. \A c \in DOMAIN Self.blocks : Reports(h, Self.blocks[c]) = Reports(Self, Self.blocks[c])
  <2> SUFFICES ASSUME NEW c \in DOMAIN Self.blocks
               PROVE  Reports(h, Self.blocks[c]) = Reports(Self, Self.blocks[c])
    OBVIOUS
  <2>1. GoodBlock(Self.blocks[c], Self.ids) BY <1>5
  <2> QED BY <1>2, <2>1, ReportsStay DEF GoodBlock
<1>10. Reports(h, Passed) = Reports(Self, Passed)
  <2>1. /\ Passed \in Seq(Insts) /\ Len(Passed) = pos - 1
        /\ \A p \in 1 .. pos - 1 : Passed[p] = Block[p]
    BY BlockParts
  <2>2. pos - 1 \in Nat /\ DOMAIN Passed = 1 .. pos - 1 BY <1>8, <2>1, LenProperties
  <2>3. \A p \in 1 .. pos - 1 : p \in DOMAIN Block BY InstFacts, BlockFacts
  <2>4. \A p \in DOMAIN Passed : Fits(Passed[p], Self.ids)
    BY <1>5, <2>1, <2>2, <2>3 DEF GoodBlock, Block
  <2> QED BY <1>2, <2>1, <2>4, ReportsStay
<1>11. Walking(h, s, pos', block, s.blocks[bb])
  <2> DEFINE T == Then(D, Inst)
  <2>1. AwaitedOf(s, T) = AwaitedOf(s, D) \o Awaited(s, Inst)
    BY <1>8, AwaitedFacts DEF Then
  <2>2. Reports(h, X) = AwaitedOf(s, T) BY <1>3, <1>7, <1>10, <2>1
  <2>3. T \in Seq(Insts) BY <1>8, ThenFacts
  <2>4. X \in Seq(Insts) /\ Rest \in Seq(Insts) /\ block = X \o Rest BY DEF Cut
  <2>5. PICK q \in DOMAIN X : X[q] = Inst BY DEF Range
  <2>6. /\ Len(X) \in Nat /\ DOMAIN X = 1 .. Len(X)
        /\ \A p \in 1 .. Len(X) : block[p] = X[p] /\ p \in DOMAIN block
    BY <2>4, PartsOf
  <2>7. \A p \in DOMAIN X : X[p].id = Inst.id => p = q BY <2>5, <2>6 DEF Cut
  <2>8. PosOf(block, Inst.id) = q
    <3>1. block[q].id = Inst.id /\ q \in DOMAIN block BY <2>5, <2>6
    <3>2. \A p \in DOMAIN block : block[p].id = Inst.id => p = q BY <3>1 DEF Cut
    <3> QED BY <3>1, <3>2 DEF PosOf
  <2>9. q >= pos
    <3> SUFFICES ASSUME q < pos PROVE FALSE BY <1>8, <2>6
    <3>1. q \in 1 .. pos - 1 BY <1>8, <2>6
    <3>2. Block[q] = Inst BY <2>5, <3>1 DEF Cut
    <3>3. q \in DOMAIN Block /\ pos \in DOMAIN Block BY <3>1, InstFacts, BlockFacts
    <3>4. q = pos BY <3>2, <3>3, InstFacts, BlockFacts DEF GoodBlock, Inst
    <3> QED BY <3>1, <3>4
  <2>10. pos' <= Len(X) + 1 BY <1>4, <2>6, <2>8
  <2>11. ASSUME NEW p \in pos' .. Len(X) PROVE X[p].op \notin Tracked
    <3>1. p \in q + 1 .. Len(X) BY <1>4, <2>8
    <3>2. p \in DOMAIN X /\ p \in pos .. Len(X) /\ p # q BY <1>8, <2>6, <2>9, <3>1
    <3> QED BY <2>7, <3>2 DEF Cut
  <2> HIDE DEF T
  <2>12. s.blocks[bb] = T \o Rest BY <1>7 DEF T
  <2> QED BY <2>2, <2>3, <2>4, <2>10, <2>11, <2>12 DEF Walking
<1>12. /\ DOMAIN Self.blocks = DOMAIN s.blocks /\ s.ids <= Self.ids
       /\ \A i \in InstsOf(Self) : i.op \in Conversions => i.id > s.ids
       /\ \A i : i.op \in Pairings => (i \in InstsOf(Self) <=> i \in InstsOf(s))
       /\ \A c \in DOMAIN s.blocks :
            /\ Past(fn, bb, fn, c) => Reports(Self, Self.blocks[c]) = AwaitedOf(s, s.blocks[c])
            /\ ~Past(fn, bb, fn, c) /\ c # bb => Self.blocks[c] = s.blocks[c]
  BY DEF Walked, Self
<1>13. ASSUME NEW i \in InstsOf(h), i.op \in Conversions PROVE i.id > s.ids
  <2>1. CASE i \in InstsOf(Self) BY <1>12, <1>13, <2>1
  <2>2. CASE Added(i, n)
    <3>1. i.id \in Self.ids + 1 .. Self.ids + n BY <2>2 DEF Added
    <3> QED BY <1>5, <1>12, <3>1
  <2> QED BY <1>2, <2>1, <2>2
<1>14. ASSUME NEW i, i.op \in Pairings PROVE i \in InstsOf(h) <=> i \in InstsOf(s)
  BY <1>2, <1>12, <1>14 DEF Extends
<1>15. s.ids <= h.ids BY <1>1, <1>5, <1>12
<1>16. ASSUME NEW c \in DOMAIN s.blocks
       PROVE  /\ Past(fn, bb, fn, c) => Reports(h, h.blocks[c]) = AwaitedOf(s, s.blocks[c])
              /\ c = bb => Walking(h, s, pos', h.blocks[c], s.blocks[c])
              /\ ~Past(fn, bb, fn, c) /\ c # bb => h.blocks[c] = s.blocks[c]
  <2>1. CASE c = bb
    <3>1. ~Past(fn, bb, fn, c) BY <1>5, <2>1, FunctionFacts, InstFacts DEF Past
    <3> QED BY <1>1, <1>11, <2>1, <3>1
  <2>2. CASE c # bb BY <1>1, <1>9, <1>12, <2>2
  <2> QED BY <2>1, <2>2
<1>17. ~(fn > fn) BY FunctionFacts, InstFacts
<1> QED BY <1>1, <1>4, <1>5, <1>12, <1>13, <1>14, <1>15, <1>16, <1>17 DEF Walked, h

-----------------------------------------------------------------------------
(* What the trackers say                                                   *)

LEMMA ReportedTracked ==
    ASSUME NEW f, NEW i, i.op \in Tracked
    PROVE  Reported(f, i) = <<Event(i.op, <<i.id>>)>>
<1> DEFINE e == <<Event(i.op, <<i.id>>)>>
<1>1. i.op # "track" /\ i.op # "ret" /\ i.op \notin Conversions \cup Pairings
  BY DEF Tracked, Allocations, Conversions, Pairings
<1>2. Reported(f, i) = e BY <1>1 DEF Reported
<1> QED BY <1>2

LEMMA ReportedConversion ==
    ASSUME NEW f, NEW i, i.op \in Conversions
    PROVE  Reported(f, i) = <<>>
<1>1. i.op # "track" /\ i.op # "ret" BY DEF Conversions
<1> QED BY <1>1 DEF Reported

LEMMA ReportedTracker ==
    ASSUME NEW f, NEW i, i.op = "track"
    PROVE  Reported(f, i) =
              <<Event(i.what, [n \in DOMAIN i.args |-> Resolve(f, i.args[n])])>>
<1> DEFINE e == <<Event(i.what, [n \in DOMAIN i.args |-> Resolve(f, i.args[n])])>>
           r == <<Event("ret", Returned(f, i.args[1]))>>
           o == <<Event(i.op, <<i.id>>)>>
           T == i.op = "track"
           R == i.op = "ret"
           S == i.op \in Conversions \cup Pairings
           w == CASE T -> e [] R -> r [] S -> <<>> [] OTHER -> o
<1>1. T /\ ~R /\ ~S BY DEF Conversions, Pairings
<1>2. Reported(f, i) = w BY DEF Reported
<1>3. w = e
  <2> HIDE DEF T, R, S, e, r, o
  <2> QED BY <1>1
<1> QED BY <1>2, <1>3

LEMMA ResolveOne ==
    ASSUME NEW f, NEW a
    PROVE  [n \in DOMAIN <<a>> |-> Resolve(f, <<a>>[n])] = <<Resolve(f, a)>>
<1> DEFINE R(x) == Resolve(f, x)
<1> HIDE DEF R
<1>1. [n \in DOMAIN <<a>> |-> R(<<a>>[n])] = <<R(a)>> OBVIOUS
<1> QED BY <1>1 DEF R

LEMMA ResolveTwo ==
    ASSUME NEW f, NEW a, NEW b
    PROVE  [n \in DOMAIN <<a, b>> |-> Resolve(f, <<a, b>>[n])] = <<Resolve(f, a), Resolve(f, b)>>
<1> DEFINE R(x) == Resolve(f, x)
<1> HIDE DEF R
<1>1. [n \in DOMAIN <<a, b>> |-> R(<<a, b>>[n])] = <<R(a), R(b)>> OBVIOUS
<1> QED BY <1>1 DEF R

LEMMA ResolveThree ==
    ASSUME NEW f, NEW a, NEW b, NEW c
    PROVE  [n \in DOMAIN <<a, b, c>> |-> Resolve(f, <<a, b, c>>[n])]
              = <<Resolve(f, a), Resolve(f, b), Resolve(f, c)>>
<1> DEFINE R(x) == Resolve(f, x)
<1> HIDE DEF R
<1>1. [n \in DOMAIN <<a, b, c>> |-> R(<<a, b, c>>[n])] = <<R(a), R(b), R(c)>> OBVIOUS
<1> QED BY <1>1 DEF R

(* Two events more.                                                        *)
LEMMA TwoSaid ==
    ASSUME NEW S, NEW w \in Seq(S), NEW x, NEW y
    PROVE  (w \o <<x>>) \o <<y>> = w \o <<x, y>>
<1> DEFINE U == S \cup {x, y}
           one == <<x>>
           two == <<y>>
           pair == <<x, y>>
<1>1. w \in Seq(U)
  <2>1. S \subseteq U OBVIOUS
  <2> HIDE DEF U
  <2> QED BY <2>1, SeqMonotonic
<1>2. x \in U /\ y \in U OBVIOUS
<1>3. one \in Seq(U) /\ two \in Seq(U)
  <2> HIDE DEF U
  <2> QED BY <1>2
<1>4. one \o two = pair
  <2>1. Append(one, y) = one \o two BY <1>2, <1>3, AppendIsConcat
  <2> DEFINE more == Append(one, y)
  <2>2. Len(one) = 1 /\ one[1] = x OBVIOUS
  <2>3. Len(pair) = 2 /\ pair[1] = x /\ pair[2] = y OBVIOUS
  <2>4. pair \in Seq(U)
    <3> HIDE DEF U
    <3> QED BY <1>2
  <2> HIDE DEF U, one, pair, more
  <2>5. /\ more \in Seq(U) /\ Len(more) = Len(one) + 1
        /\ \A p \in 1 .. Len(one) : more[p] = one[p]
        /\ more[Len(one) + 1] = y
    BY <1>2, <1>3, AppendProperties DEF more
  <2>6. \A p \in 1 .. Len(more) : p = 1 \/ p = 2 BY <2>2, <2>5
  <2>7. more[1] = x /\ more[2] = y /\ Len(more) = 2 BY <2>2, <2>5
  <2>8. more = pair BY <2>3, <2>4, <2>5, <2>6, <2>7, SeqEqual
  <2> QED BY <2>1, <2>8 DEF more
<1> HIDE DEF U, one, two, pair
<1>5. (w \o one) \o two = w \o (one \o two) BY <1>1, <1>3, ConcatAssociative
<1> QED BY <1>4, <1>5 DEF one, two, pair

LEMMA SaidThen ==
    ASSUME NEW f, NEW X \in Seq(Insts), NEW i \in Insts
    PROVE  Reports(f, Then(X, i)) = Reports(f, X) \o Reported(f, i)
BY ReportsFacts DEF Then

(* A conversion says nothing.                                              *)
LEMMA ConversionSilent ==
    ASSUME NEW f, NEW X \in Seq(Insts), NEW i \in Insts, i.op \in Conversions
    PROVE  Then(X, i) \in Seq(Insts) /\ Reports(f, Then(X, i)) = Reports(f, X)
<1>1. Reports(f, Then(X, i)) = Reports(f, X) \o Reported(f, i) BY SaidThen
<1>2. Reported(f, i) = <<>> BY ReportedConversion
<1>3. Reports(f, X) \in Seq(EventsIn(f)) BY ReportsFacts
<1>4. Reports(f, X) \o <<>> = Reports(f, X) BY <1>3, ConcatEmptySeq
<1> QED BY <1>1, <1>2, <1>4, ThenFacts

(* Two instructions say two events, with conversions between them or not.  *)
LEMMA PairSaid ==
    ASSUME NEW f, NEW X \in Seq(Insts), NEW Y \in Seq(Insts), NEW Z \in Seq(Insts),
           NEW i \in Insts, NEW j \in Insts, NEW d, NEW e,
           Reported(f, i) = <<d>>, Reported(f, j) = <<e>>,
           Reports(f, Y) = Reports(f, X), Reports(f, Z) = Reports(f, Then(Y, i))
    PROVE  Reports(f, Then(Z, j)) = Reports(f, X) \o <<d, e>>
<1>1. Reports(f, Then(Z, j)) = Reports(f, Z) \o <<e>> BY SaidThen
<1>2. Reports(f, Then(Y, i)) = Reports(f, X) \o <<d>> BY SaidThen
<1>3. Reports(f, X) \in Seq(EventsIn(f)) BY ReportsFacts
<1>4. Reports(f, Then(Z, j)) = (Reports(f, X) \o <<d>>) \o <<e>> BY <1>1, <1>2
<1>5. (Reports(f, X) \o <<d>>) \o <<e>> = Reports(f, X) \o <<d, e>> BY <1>3, TwoSaid
<1> QED BY <1>4, <1>5

-----------------------------------------------------------------------------
(* The trackers are the ones awaited                                       *)

(* An instruction of the program that is tracked.                          *)
LEMMA TrackedFacts ==
    ASSUME AnnotatorInv, AtInst, Inst.op \in Tracked,
           NEW s, Started(s), Walked(funs, fn, bb, pos, fn, s)
    PROVE  /\ s.ids \in Nat /\ s.ids <= Self.ids /\ Inst \in Insts
           /\ Inst.id \in Int /\ Inst.id <= s.ids
           /\ Arity(Inst.op) \in Nat =>
                 \A a \in 1 .. Arity(Inst.op) : Inst.args[a] \in Int /\ Inst.args[a] <= s.ids
           /\ Awaited(s, Inst) = Expected(Inst, 1)
           /\ \A f : Reported(f, Inst) = <<Event(Inst.op, <<Inst.id>>)>>
           /\ Passed \in Seq(Insts) /\ Rest \in Seq(Insts)
<1>1. Inst \in InstsOf(s) BY WalkAtTracked
<1>2. GoodFunction(s) BY DEF Started
<1>3. /\ s.ids \in Nat /\ Fits(Inst, s.ids)
      /\ \A a \in DOMAIN Inst.args : Inst.args[a] \in Int /\ Inst.args[a] <= s.ids
  BY <1>1, <1>2, InstGood
<1>4. Inst.id \in Int /\ Inst.id <= s.ids BY <1>3 DEF Fits
<1>5. ASSUME Arity(Inst.op) \in Nat, NEW a \in 1 .. Arity(Inst.op)
      PROVE  Inst.args[a] \in Int /\ Inst.args[a] <= s.ids
  <2>1. a \in DOMAIN Inst.args BY <1>5, InstFacts
  <2> QED BY <1>3, <2>1
<1>6. s.ids <= Self.ids BY DEF Walked, Self
<1>7. Awaited(s, Inst) = Expected(Inst, 1)
  <2>1. Inst.op \notin Pairings /\ Inst.op # "ret" BY DEF Tracked, Allocations, Pairings
  <2> QED BY <2>1 DEF Awaited
<1>8. \A f : Reported(f, Inst) = <<Event(Inst.op, <<Inst.id>>)>> BY ReportedTracked
<1> QED BY <1>3, <1>4, <1>5, <1>6, <1>7, <1>8, InstFacts, BlockParts

(* What the values of the function stand for after the rewrite.            *)
LEMMA ValuesAfter ==
    ASSUME AnnotatorInv, AnnotatorInv', AtInst, Inst.op \in Tracked,
           NEW s, Started(s), Walked(funs, fn, bb, pos, fn, s),
           NEW n \in 0 .. 3, NEW block, NEW X, NEW C, Cut(block, X, C, n), Rewrite(block)
    PROVE  /\ \A v \in Int : v <= s.ids => Origin(funs'[fn], v) = v
           /\ \A i \in Range(X) : i.op \in Conversions => Origin(funs'[fn], i.id) = i.args[1]
<1> DEFINE h == funs'[fn]
<1>1. /\ \A i \in InstsOf(h) : i \in InstsOf(Self) \/ Added(i, n)
      /\ Range(block) \subseteq InstsOf(h) /\ GoodFunction(h)
  BY RewriteExtends, RewriteShape
<1> HIDE DEF h
<1>2. s.ids \in Nat /\ s.ids <= Self.ids /\ Self.ids \in Nat
  BY TrackedFacts, FunctionFacts, InstFacts
<1>3. \A i \in InstsOf(Self) : i.op \in Conversions => i.id > s.ids BY DEF Walked, Self
<1>4. ASSUME NEW i \in InstsOf(h), i.op \in Conversions PROVE i.id \in Nat /\ i.id > s.ids
  <2>0. i.id \in Nat
    <3>1. i \in Insts BY <1>1, InstGood
    <3> QED BY <3>1 DEF Insts
  <2>1. CASE i \in InstsOf(Self) BY <1>3, <1>4, <2>0, <2>1
  <2>2. CASE Added(i, n)
    <3>1. i.id \in Self.ids + 1 .. Self.ids + n BY <2>2 DEF Added
    <3> QED BY <1>2, <2>0, <3>1
  <2> QED BY <1>1, <2>1, <2>2
<1>5. ASSUME NEW v \in Int, v <= s.ids PROVE Origin(h, v) = v
  <2>1. \A i \in InstsOf(h) : i.op \in Conversions => i.id # v BY <1>2, <1>4, <1>5
  <2> QED BY <2>1, OriginOfOther
<1>6. Range(X) \subseteq Range(block)
  <2>1. X \in Seq(Insts) /\ C \in Seq(Insts) /\ block = X \o C BY DEF Cut
  <2>2. /\ DOMAIN X = 1 .. Len(X)
        /\ \A p \in 1 .. Len(X) : block[p] = X[p] /\ p \in DOMAIN block
    BY <2>1, PartsOf
  <2>3. \A p \in DOMAIN X : \E q \in DOMAIN block : block[q] = X[p] BY <2>2
  <2> QED BY <2>3 DEF Range
<1>7. \A i \in Range(X) : i.op \in Conversions => Origin(h, i.id) = i.args[1]
  BY <1>1, <1>6, OriginOf
<1> QED BY <1>5, <1>7 DEF h

LEMMA RangeThen ==
    ASSUME NEW X \in Seq(Insts), NEW i \in Insts
    PROVE  Range(Then(X, i)) = Range(X) \cup {i} /\ Then(X, i) \in Seq(Insts)
<1> DEFINE T == Then(X, i)
<1>1. /\ T \in Seq(Insts) /\ Len(X) \in Nat
      /\ \A p \in 1 .. Len(X) : T[p] = X[p]
      /\ T[Len(X) + 1] = i
      /\ DOMAIN X = 1 .. Len(X) /\ DOMAIN T = 1 .. Len(X) + 1
  BY ThenFacts
<1> HIDE DEF T
<1>2. ASSUME NEW p \in DOMAIN T PROVE T[p] \in Range(X) \cup {i}
  <2>1. p \in 1 .. Len(X) \/ p = Len(X) + 1 BY <1>1
  <2> QED BY <1>1, <2>1 DEF Range
<1>3. \A p \in DOMAIN X : X[p] \in Range(T)
  <2>1. \A p \in DOMAIN X : p \in DOMAIN T BY <1>1
  <2> QED BY <1>1, <2>1 DEF Range
<1>4. i \in Range(T)
  <2>1. Len(X) + 1 \in DOMAIN T BY <1>1
  <2> QED BY <1>1, <2>1 DEF Range
<1>5. Range(T) = Range(X) \cup {i} BY <1>2, <1>3, <1>4 DEF Range
<1> QED BY <1>1, <1>5 DEF T

-----------------------------------------------------------------------------
(* The trackers of allocations, releases and the stack                     *)

(* What a tracker is given, and what it says.                              *)
LEMMA TrackerTells ==
    ASSUME AnnotatorInv, AtInst, NEW m \in 1 .. 3, NEW name \in Marks, NEW args \in Seq(Int),
           \A a \in DOMAIN args : args[a] <= Fresh(m)
    PROVE  LET i == CreateTracker(Fresh(m), name, args) IN
           /\ i \in Insts /\ i.id = Fresh(m) /\ i.op = "track"
           /\ \A f : Reported(f, i) =
                        <<Event(name, [n \in DOMAIN args |-> Resolve(f, args[n])])>>
<1> DEFINE i == CreateTracker(Fresh(m), name, args)
<1>1. Fresh(m) \in Nat \ {0} BY FreshFacts
<1>2. i \in Insts /\ i.id = Fresh(m) /\ i.args = args BY <1>1, TrackerFits
<1>3. i.op = "track" /\ i.what = name BY DEF CreateTracker, Instr
<1> HIDE DEF i
<1>4. \A f : Reported(f, i) = <<Event(i.what, [n \in DOMAIN i.args |-> Resolve(f, i.args[n])])>>
  BY <1>3, ReportedTracker
<1> QED BY <1>2, <1>3, <1>4 DEF i

LEMMA TellsOne ==
    ASSUME AnnotatorInv, AtInst, NEW m \in 1 .. 3, NEW name \in Marks,
           NEW v \in Int, v <= Fresh(m)
    PROVE  LET i == CreateTracker(Fresh(m), name, <<v>>) IN
           /\ i \in Insts /\ i.id = Fresh(m) /\ i.op = "track"
           /\ \A f : Reported(f, i) = <<Event(name, <<Resolve(f, v)>>)>>
<1> DEFINE args == <<v>>
           i == CreateTracker(Fresh(m), name, args)
<1>1. args \in Seq(Int) /\ DOMAIN args = 1 .. 1 /\ args[1] = v OBVIOUS
<1>2. \A f : [n \in DOMAIN args |-> Resolve(f, args[n])] = <<Resolve(f, v)>> BY ResolveOne
<1> HIDE DEF args
<1>3. \A a \in DOMAIN args : args[a] <= Fresh(m) BY <1>1
<1>4. /\ i \in Insts /\ i.id = Fresh(m) /\ i.op = "track"
      /\ \A f : Reported(f, i) = <<Event(name, [n \in DOMAIN args |-> Resolve(f, args[n])])>>
  BY <1>1, <1>3, TrackerTells
<1> HIDE DEF i
<1> QED BY <1>2, <1>4 DEF i, args

LEMMA TellsTwo ==
    ASSUME AnnotatorInv, AtInst, NEW m \in 1 .. 3, NEW name \in Marks,
           NEW v \in Int, v <= Fresh(m), NEW w \in Int, w <= Fresh(m)
    PROVE  LET i == CreateTracker(Fresh(m), name, <<v, w>>) IN
           /\ i \in Insts /\ i.id = Fresh(m) /\ i.op = "track"
           /\ \A f : Reported(f, i) = <<Event(name, <<Resolve(f, v), Resolve(f, w)>>)>>
<1> DEFINE args == <<v, w>>
           i == CreateTracker(Fresh(m), name, args)
<1>1. args \in Seq(Int) /\ DOMAIN args = 1 .. 2 /\ args[1] = v /\ args[2] = w OBVIOUS
<1>2. \A f : [n \in DOMAIN args |-> Resolve(f, args[n])] = <<Resolve(f, v), Resolve(f, w)>>
  BY ResolveTwo
<1> HIDE DEF args
<1>3. \A a \in DOMAIN args : a = 1 \/ a = 2 BY <1>1
<1>4. \A a \in DOMAIN args : args[a] <= Fresh(m) BY <1>1, <1>3
<1>5. /\ i \in Insts /\ i.id = Fresh(m) /\ i.op = "track"
      /\ \A f : Reported(f, i) = <<Event(name, [n \in DOMAIN args |-> Resolve(f, args[n])])>>
  BY <1>1, <1>4, TrackerTells
<1> HIDE DEF i
<1> QED BY <1>2, <1>5 DEF i, args

LEMMA TellsThree ==
    ASSUME AnnotatorInv, AtInst, NEW m \in 1 .. 3, NEW name \in Marks,
           NEW u \in Int, u <= Fresh(m),
           NEW v \in Int, v <= Fresh(m), NEW w \in Int, w <= Fresh(m)
    PROVE  LET i == CreateTracker(Fresh(m), name, <<u, v, w>>) IN
           /\ i \in Insts /\ i.id = Fresh(m) /\ i.op = "track"
           /\ \A f : Reported(f, i)
                       = <<Event(name, <<Resolve(f, u), Resolve(f, v), Resolve(f, w)>>)>>
<1> DEFINE args == <<u, v, w>>
           i == CreateTracker(Fresh(m), name, args)
<1>1. /\ args \in Seq(Int) /\ DOMAIN args = 1 .. 3
      /\ args[1] = u /\ args[2] = v /\ args[3] = w
  OBVIOUS
<1>2. \A f : [n \in DOMAIN args |-> Resolve(f, args[n])]
               = <<Resolve(f, u), Resolve(f, v), Resolve(f, w)>>
  BY ResolveThree
<1> HIDE DEF args
<1>3. \A a \in DOMAIN args : a = 1 \/ a = 2 \/ a = 3 BY <1>1
<1>4. \A a \in DOMAIN args : args[a] <= Fresh(m) BY <1>1, <1>3
<1>5. /\ i \in Insts /\ i.id = Fresh(m) /\ i.op = "track"
      /\ \A f : Reported(f, i) = <<Event(name, [n \in DOMAIN args |-> Resolve(f, args[n])])>>
  BY <1>1, <1>4, TrackerTells
<1> HIDE DEF i
<1> QED BY <1>2, <1>5 DEF i, args

(* One tracker in front of the instruction, or behind it.                  *)
LEMMA OneBeforeWalks ==
    ASSUME AnnotatorInv, AnnotatorInv', AtInst, Inst.op \in Tracked,
           NEW s, Started(s), Walked(funs, fn, bb, pos, fn, s),
           NEW v \in Int, v <= s.ids, NEW name \in Marks,
           Rewrite(InsertBefore(Block, Inst.id, CreateTracker(Fresh(1), name, <<v>>))),
           Expected(Inst, 1) = <<Event(name, <<v>>), Event(Inst.op, <<Inst.id>>)>>
    PROVE  Walked(funs', fn', bb', pos', fn, s)
<1> DEFINE h == funs'[fn]
           i == CreateTracker(Fresh(1), name, <<v>>)
           block == InsertBefore(Block, Inst.id, i)
           Y == Then(Passed, i)
           X == Then(Y, Inst)
<1>1. /\ s.ids \in Nat /\ s.ids <= Self.ids /\ Inst \in Insts
      /\ Awaited(s, Inst) = Expected(Inst, 1)
      /\ \A f : Reported(f, Inst) = <<Event(Inst.op, <<Inst.id>>)>>
      /\ Passed \in Seq(Insts) /\ Rest \in Seq(Insts)
  BY TrackedFacts
<1>2. v <= Fresh(1) BY <1>1, FreshFacts
<1>3. /\ i \in Insts /\ i.id = Fresh(1) /\ i.op = "track"
      /\ \A f : Reported(f, i) = <<Event(name, <<Resolve(f, v)>>)>>
  <2>1. 1 \in 1 .. 3 OBVIOUS
  <2> QED BY <1>2, <2>1, TellsOne
<1>4. Rewrite(block) OBVIOUS
<1> HIDE DEF i, h
<1>5. Cut(block, Y, Ahead(Inst, Rest), 1)
  <2>1. 0 \in 0 .. 3 /\ 1 \in 0 .. 3 /\ 0 < 1 OBVIOUS
  <2> QED BY <1>1, <1>3, <2>1, CutStart, CutBefore
<1> HIDE DEF block
<1>6. Cut(block, X, Rest, 1) BY <1>1, <1>5, CutMoves
<1>7. Resolve(h, v) = v
  <2>1. 1 \in 0 .. 3 OBVIOUS
  <2>2. Origin(h, v) = v BY <1>4, <1>6, <2>1, ValuesAfter DEF h
  <2> QED BY <2>2 DEF Resolve
<1>8. Y \in Seq(Insts) BY <1>1, <1>3, ThenFacts
<1>9. Reports(h, X) = Reports(h, Passed) \o Awaited(s, Inst)
  <2> DEFINE d == Event(name, <<v>>)
             e == Event(Inst.op, <<Inst.id>>)
  <2>1. Reported(h, i) = <<d>> /\ Reported(h, Inst) = <<e>> BY <1>1, <1>3, <1>7
  <2>2. Awaited(s, Inst) = <<d, e>> BY <1>1
  <2> HIDE DEF d, e
  <2>3. Reports(h, X) = Reports(h, Passed) \o <<d, e>> BY <1>1, <1>3, <1>8, <2>1, PairSaid
  <2> QED BY <2>2, <2>3
<1>10. Inst \in Range(X) BY <1>1, <1>8, RangeThen
<1> HIDE DEF X
<1>11. 1 \in 0 .. 3 OBVIOUS
<1> QED BY <1>1, <1>4, <1>6, <1>9, <1>10, <1>11, RewriteWalks DEF h

LEMMA OneBehindWalks ==
    ASSUME AnnotatorInv, AnnotatorInv', AtInst, Inst.op \in Tracked,
           NEW s, Started(s), Walked(funs, fn, bb, pos, fn, s),
           NEW v \in Int, v <= s.ids, NEW name \in Marks,
           Rewrite(InsertAfter(Block, Inst.id, CreateTracker(Fresh(1), name, <<v>>))),
           Expected(Inst, 1) = <<Event(Inst.op, <<Inst.id>>), Event(name, <<v>>)>>
    PROVE  Walked(funs', fn', bb', pos', fn, s)
<1> DEFINE h == funs'[fn]
           i == CreateTracker(Fresh(1), name, <<v>>)
           block == InsertAfter(Block, Inst.id, i)
           Y == Then(Passed, Inst)
           X == Then(Y, i)
<1>1. /\ s.ids \in Nat /\ s.ids <= Self.ids /\ Inst \in Insts
      /\ Awaited(s, Inst) = Expected(Inst, 1)
      /\ \A f : Reported(f, Inst) = <<Event(Inst.op, <<Inst.id>>)>>
      /\ Passed \in Seq(Insts) /\ Rest \in Seq(Insts)
  BY TrackedFacts
<1>2. v <= Fresh(1) BY <1>1, FreshFacts
<1>3. /\ i \in Insts /\ i.id = Fresh(1) /\ i.op = "track"
      /\ \A f : Reported(f, i) = <<Event(name, <<Resolve(f, v)>>)>>
  <2>1. 1 \in 1 .. 3 OBVIOUS
  <2> QED BY <1>2, <2>1, TellsOne
<1>4. Rewrite(block) OBVIOUS
<1> HIDE DEF i, h
<1>5. Cut(block, X, Rest, 1)
  <2>1. 0 \in 0 .. 3 /\ 1 \in 0 .. 3 /\ 0 < 1 OBVIOUS
  <2> QED BY <1>1, <1>3, <2>1, CutStart, CutAfter
<1> HIDE DEF block
<1>7. Resolve(h, v) = v
  <2>1. 1 \in 0 .. 3 OBVIOUS
  <2>2. Origin(h, v) = v BY <1>4, <1>5, <2>1, ValuesAfter DEF h
  <2> QED BY <2>2 DEF Resolve
<1>8. Y \in Seq(Insts) BY <1>1, ThenFacts
<1>9. Reports(h, X) = Reports(h, Passed) \o Awaited(s, Inst)
  <2> DEFINE d == Event(Inst.op, <<Inst.id>>)
             e == Event(name, <<v>>)
  <2>1. Reported(h, Inst) = <<d>> /\ Reported(h, i) = <<e>> BY <1>1, <1>3, <1>7
  <2>2. Awaited(s, Inst) = <<d, e>> BY <1>1
  <2> HIDE DEF d, e
  <2>3. Reports(h, X) = Reports(h, Passed) \o <<d, e>> BY <1>1, <1>3, <1>8, <2>1, PairSaid
  <2> QED BY <2>2, <2>3
<1>10. Inst \in Range(X) BY <1>1, <1>3, <1>8, RangeThen
<1> HIDE DEF X
<1>11. 1 \in 0 .. 3 OBVIOUS
<1> QED BY <1>1, <1>4, <1>5, <1>9, <1>10, <1>11, RewriteWalks DEF h

(* Allocations, releases and the stack, one action after the other.        *)
LEMMA FreeWalks ==
    ASSUME AnnotatorInv, AnnotatorInv', AnnotateFree,
           NEW s, Started(s), Walked(funs, fn, bb, pos, fn, s)
    PROVE  Walked(funs', fn', bb', pos', fn, s)
<1>1. AtInst /\ Inst.op = "free" BY DEF AnnotateFree
<1>2. Inst.op \in Tracked /\ Arity(Inst.op) = 1 BY <1>1 DEF Tracked, Arity
<1>3. Inst.args[1] \in Int /\ Inst.args[1] <= s.ids BY <1>1, <1>2, TrackedFacts
<1>4. Rewrite(InsertBefore(Block, Inst.id,
                  CreateTracker(Fresh(1), "heap_free_before", <<Inst.args[1]>>)))
  BY DEF AnnotateFree
<1>5. Expected(Inst, 1)
        = <<Event("heap_free_before", <<Inst.args[1]>>), Event(Inst.op, <<Inst.id>>)>>
  BY <1>1 DEF Expected
<1> QED BY <1>1, <1>2, <1>3, <1>4, <1>5, OneBeforeWalks, TrackerMarks

LEMMA StackRestoreWalks ==
    ASSUME AnnotatorInv, AnnotatorInv', AnnotateStackRestore,
           NEW s, Started(s), Walked(funs, fn, bb, pos, fn, s)
    PROVE  Walked(funs', fn', bb', pos', fn, s)
<1>1. AtInst /\ Inst.op = "stackrestore" BY DEF AnnotateStackRestore
<1>2. Inst.op \in Tracked /\ Arity(Inst.op) = 1 BY <1>1 DEF Tracked, Arity
<1>3. Inst.args[1] \in Int /\ Inst.args[1] <= s.ids BY <1>1, <1>2, TrackedFacts
<1>4. Rewrite(InsertBefore(Block, Inst.id,
                  CreateTracker(Fresh(1), "stack_restore_before", <<Inst.args[1]>>)))
  BY DEF AnnotateStackRestore
<1>5. Expected(Inst, 1)
        = <<Event("stack_restore_before", <<Inst.args[1]>>), Event(Inst.op, <<Inst.id>>)>>
  BY <1>1 DEF Expected
<1> QED BY <1>1, <1>2, <1>3, <1>4, <1>5, OneBeforeWalks, TrackerMarks

LEMMA StackSaveWalks ==
    ASSUME AnnotatorInv, AnnotatorInv', AnnotateStackSave,
           NEW s, Started(s), Walked(funs, fn, bb, pos, fn, s)
    PROVE  Walked(funs', fn', bb', pos', fn, s)
<1>1. AtInst /\ Inst.op = "stacksave" BY DEF AnnotateStackSave
<1>2. Inst.op \in Tracked BY <1>1 DEF Tracked
<1>3. Inst.id \in Int /\ Inst.id <= s.ids BY <1>1, <1>2, TrackedFacts
<1>4. Rewrite(InsertAfter(Block, Inst.id,
                  CreateTracker(Fresh(1), "stack_save_after", <<Inst.id>>)))
  BY DEF AnnotateStackSave
<1>5. Expected(Inst, 1)
        = <<Event(Inst.op, <<Inst.id>>), Event("stack_save_after", <<Inst.id>>)>>
  BY <1>1 DEF Expected
<1> QED BY <1>1, <1>2, <1>3, <1>4, <1>5, OneBehindWalks, TrackerMarks

LEMMA MallocWalks ==
    ASSUME AnnotatorInv, AnnotatorInv', AnnotateMalloc,
           NEW s, Started(s), Walked(funs, fn, bb, pos, fn, s)
    PROVE  Walked(funs', fn', bb', pos', fn, s)
<1> DEFINE h == funs'[fn]
           v == Inst.id
           name == "heap_allocation_bound_after"
           bound == CreateGep(Fresh(1), v, Inst.args[1])
           track == CreateTracker(Fresh(2), name, <<v, v, Fresh(1)>>)
           block == InsertAfter(InsertAfter(Block, v, bound), bound.id, track)
           Y == Then(Passed, Inst)
           Z == Then(Y, bound)
           X == Then(Z, track)
<1>1. AtInst /\ Inst.op = "malloc" BY DEF AnnotateMalloc
<1>2. Inst.op \in Tracked /\ Arity(Inst.op) = 1 BY <1>1 DEF Tracked, Allocations, Arity
<1>3. /\ s.ids \in Nat /\ s.ids <= Self.ids /\ Inst \in Insts
      /\ v \in Int /\ v <= s.ids
      /\ Inst.args[1] \in Int /\ Inst.args[1] <= s.ids
      /\ Awaited(s, Inst) = Expected(Inst, 1)
      /\ \A f : Reported(f, Inst) = <<Event(Inst.op, <<v>>)>>
      /\ Passed \in Seq(Insts) /\ Rest \in Seq(Insts)
  BY <1>1, <1>2, TrackedFacts
<1>4. /\ Self.ids \in Nat /\ Fresh(1) < Fresh(2)
      /\ Fresh(1) \in Nat \ {0} /\ Fresh(2) \in Nat \ {0}
      /\ \A x \in Int : \A n \in 1 .. 3 : x <= Self.ids => x < Fresh(n)
  BY <1>1, FreshFacts
<1>5. /\ v < Fresh(1) /\ v <= Fresh(1) /\ v < Fresh(2) /\ v <= Fresh(2)
      /\ Inst.args[1] <= Fresh(1) /\ Fresh(1) <= Fresh(2)
  <2>1. v <= Self.ids /\ Inst.args[1] <= Self.ids BY <1>3, <1>4
  <2>2. v < Fresh(1) /\ v < Fresh(2) /\ Inst.args[1] < Fresh(1) BY <1>3, <1>4, <2>1
  <2> QED BY <1>3, <1>4, <2>2
<1>6. /\ bound \in Insts /\ bound.id = Fresh(1) /\ bound.op = "gep"
      /\ bound.args = <<v, Inst.args[1]>>
  BY <1>3, <1>4, <1>5, GepFits DEF CreateGep, Instr
<1>7. bound.args[1] = v BY <1>6
<1>8. /\ track \in Insts /\ track.id = Fresh(2) /\ track.op = "track"
      /\ \A f : Reported(f, track)
                  = <<Event(name, <<Resolve(f, v), Resolve(f, v), Resolve(f, Fresh(1))>>)>>
  <2>1. 2 \in 1 .. 3 /\ name \in Marks BY TrackerMarks
  <2> HIDE DEF name
  <2> QED BY <1>1, <1>3, <1>4, <1>5, <2>1, TellsThree
<1>9. Rewrite(block)
  <2>1. Rewrite(InsertAfter(InsertAfter(Block, v, bound), bound.id,
           CreateTracker(Fresh(2), name, <<v, v, bound.id>>)))
    BY DEF AnnotateMalloc
  <2> HIDE DEF bound
  <2> QED BY <1>6, <2>1
<1> HIDE DEF bound, track, h
<1>10. Y \in Seq(Insts) /\ Z \in Seq(Insts) BY <1>3, <1>6, ThenFacts
<1>11. Cut(block, X, Rest, 2)
  <2>1. 0 \in 0 .. 3 /\ 1 \in 0 .. 3 /\ 2 \in 0 .. 3 /\ 0 < 1 /\ 1 < 2 OBVIOUS
  <2>2. Cut(Block, Y, Rest, 0) BY <1>1, CutStart
  <2>3. Cut(InsertAfter(Block, v, bound), Z, Rest, 1)
    BY <1>1, <1>3, <1>6, <2>1, <2>2, CutAfter
  <2> DEFINE one == InsertAfter(Block, v, bound)
  <2> HIDE DEF one, Y
  <2> QED BY <1>1, <1>6, <1>8, <1>10, <2>1, <2>3, CutAfter DEF one
<1>12. Inst \in Range(X) /\ bound \in Range(X)
  BY <1>3, <1>6, <1>8, <1>10, RangeThen
<1> HIDE DEF block
<1>13. 2 \in 0 .. 3 OBVIOUS
<1>14. /\ Origin(h, v) = v
       /\ Origin(h, Fresh(1)) = v
  <2>1. Origin(h, bound.id) = bound.args[1]
    <3> HIDE DEF X
    <3>1. bound.op \in Conversions BY <1>6 DEF Conversions
    <3> QED BY <1>1, <1>2, <1>9, <1>11, <1>12, <1>13, <3>1, ValuesAfter DEF h
  <2>2. Origin(h, v) = v
    <3> HIDE DEF X, v
    <3> QED BY <1>1, <1>2, <1>3, <1>9, <1>11, <1>13, ValuesAfter DEF h
  <2> QED BY <1>6, <1>7, <2>1, <2>2
<1>15. Resolve(h, v) = v /\ Resolve(h, Fresh(1)) = v BY <1>14 DEF Resolve
<1>16. Reports(h, X) = Reports(h, Passed) \o Awaited(s, Inst)
  <2> DEFINE d == Event(Inst.op, <<v>>)
             e == Event(name, <<v, v, v>>)
  <2>1. Reported(h, Inst) = <<d>> /\ Reported(h, track) = <<e>> BY <1>3, <1>8, <1>15
  <2>2. Awaited(s, Inst) = <<d, e>>
    <3>1. Expected(Inst, 1) = <<d, e>> BY <1>1 DEF Expected
    <3> QED BY <1>3, <3>1
  <2> HIDE DEF d, e
  <2>3. Reports(h, Z) = Reports(h, Y)
    <3>1. bound.op \in Conversions BY <1>6 DEF Conversions
    <3> QED BY <1>6, <1>10, <3>1, ConversionSilent
  <2>4. Reports(h, X) = Reports(h, Passed) \o <<d, e>>
    <3>1. Reports(h, Z) = Reports(h, Then(Passed, Inst)) BY <2>3
    <3> HIDE DEF Z
    <3>2. Z \in Seq(Insts) /\ track \in Insts /\ Inst \in Insts /\ Passed \in Seq(Insts)
      BY <1>3, <1>8, <1>10
    <3>3. Reports(h, Then(Z, track)) = Reports(h, Passed) \o <<d, e>>
      BY <2>1, <3>1, <3>2, PairSaid
    <3> QED BY <3>3
  <2> QED BY <2>2, <2>4
<1> HIDE DEF X
<1> QED BY <1>1, <1>2, <1>3, <1>9, <1>11, <1>12, <1>13, <1>16, RewriteWalks DEF h

LEMMA AllocaWalks ==
    ASSUME AnnotatorInv, AnnotatorInv', AnnotateAlloca,
           NEW s, Started(s), Walked(funs, fn, bb, pos, fn, s)
    PROVE  Walked(funs', fn', bb', pos', fn, s)
<1> DEFINE h == funs'[fn]
           v == Inst.id
           name == "stack_allocation_bound_after"
           base == CreatePointerCast(Fresh(1), v)
           bound == CreateGep(Fresh(2), Fresh(1), Constant)
           track == CreateTracker(Fresh(3), name, <<Fresh(1), Fresh(1), Fresh(2)>>)
           one == InsertAt(Block, pos + 1, base)
           two == InsertAt(one, pos + 2, bound)
           block == InsertAt(two, pos + 3, track)
           V == Then(Passed, Inst)
           Y == Then(V, base)
           Z == Then(Y, bound)
           X == Then(Z, track)
<1>1. AtInst /\ Inst.op = "alloca" BY DEF AnnotateAlloca
<1>2. Inst.op \in Tracked BY <1>1 DEF Tracked, Allocations
<1>3. /\ s.ids \in Nat /\ s.ids <= Self.ids /\ Inst \in Insts
      /\ v \in Int /\ v <= s.ids
      /\ Awaited(s, Inst) = Expected(Inst, 1)
      /\ \A f : Reported(f, Inst) = <<Event(Inst.op, <<v>>)>>
      /\ Passed \in Seq(Insts) /\ Rest \in Seq(Insts)
  BY <1>1, <1>2, TrackedFacts
<1>4. /\ Self.ids \in Nat /\ Fresh(1) < Fresh(2) /\ Fresh(2) < Fresh(3) /\ Fresh(1) < Fresh(3)
      /\ Fresh(1) \in Nat \ {0} /\ Fresh(2) \in Nat \ {0} /\ Fresh(3) \in Nat \ {0}
      /\ \A x \in Int : \A n \in 1 .. 3 : x <= Self.ids => x < Fresh(n)
      /\ Constant \in Int /\ Constant <= Self.ids
  BY <1>1, FreshFacts
<1>5. /\ v <= Fresh(1) /\ Fresh(1) <= Fresh(2) /\ Constant <= Fresh(2)
      /\ Fresh(1) <= Fresh(3) /\ Fresh(2) <= Fresh(3)
  <2>1. v <= Self.ids BY <1>3, <1>4
  <2>2. v < Fresh(1) /\ Constant < Fresh(2) BY <1>3, <1>4, <2>1
  <2> QED BY <1>3, <1>4, <2>2
<1>6. base \in Insts /\ base.id = Fresh(1) /\ base.op = "cast" /\ base.args = <<v>>
  BY <1>3, <1>4, <1>5, PointerCastFits DEF CreatePointerCast, Instr
<1>7. /\ bound \in Insts /\ bound.id = Fresh(2) /\ bound.op = "gep"
      /\ bound.args = <<Fresh(1), Constant>>
  BY <1>4, <1>5, GepFits DEF CreateGep, Instr
<1>8. base.args[1] = v /\ bound.args[1] = Fresh(1) BY <1>6, <1>7
<1>9. /\ track \in Insts /\ track.id = Fresh(3) /\ track.op = "track"
      /\ \A f : Reported(f, track) =
            <<Event(name, <<Resolve(f, Fresh(1)), Resolve(f, Fresh(1)), Resolve(f, Fresh(2))>>)>>
  <2>1. 3 \in 1 .. 3 /\ name \in Marks BY TrackerMarks
  <2> HIDE DEF name
  <2> QED BY <1>1, <1>4, <1>5, <2>1, TellsThree
<1>10. Rewrite(block)
  <2>1. Block \in Seq(Insts) /\ pos \in 1 .. Len(Block) BY <1>1, InstFacts, BlockFacts
  <2>2. Stitched(Block, pos, base, bound, track) = block
    <3> HIDE DEF base, bound, track
    <3> QED BY <1>6, <1>7, <1>9, <2>1, ThreeInserted
  <2>3. Rewrite(SubSeq(Block, 1, pos)
                  \o AllocaTracking(base, CreateGep(Fresh(2), base.id, Constant),
                        CreateTracker(Fresh(3), name,
                            <<base.id, base.id, CreateGep(Fresh(2), base.id, Constant).id>>))
                  \o SubSeq(Block, pos + 1, Len(Block)))
    BY DEF AnnotateAlloca
  <2> HIDE DEF base
  <2>4. CreateGep(Fresh(2), base.id, Constant) = bound BY <1>6
  <2> HIDE DEF bound
  <2>5. CreateTracker(Fresh(3), name, <<base.id, base.id, bound.id>>) = track BY <1>6, <1>7
  <2> HIDE DEF track, block
  <2> QED BY <2>2, <2>3, <2>4, <2>5 DEF AllocaTracking, Stitched
<1> HIDE DEF base, bound, track, h
<1>11. V \in Seq(Insts) /\ Y \in Seq(Insts) /\ Z \in Seq(Insts)
  BY <1>3, <1>6, <1>7, ThenFacts
<1>12. Cut(block, X, Rest, 3)
  <2>1. 0 \in 0 .. 3 /\ 1 \in 0 .. 3 /\ 2 \in 0 .. 3 /\ 3 \in 0 .. 3 /\ 0 < 1 /\ 1 < 2 /\ 2 < 3
    OBVIOUS
  <2>2. Cut(Block, V, Rest, 0) BY <1>1, CutStart
  <2>3. /\ Len(V) + 1 = pos + 1 /\ Len(Y) + 1 = pos + 2 /\ Len(Z) + 1 = pos + 3
    <3>1. Len(Passed) = pos - 1 /\ pos \in Nat BY <1>1, BlockParts, InstFacts
    <3>2. Len(V) = Len(Passed) + 1 BY <1>3, ThenFacts
    <3>3. Len(Y) = Len(V) + 1
      <4> HIDE DEF V
      <4> QED BY <1>6, <1>11, ThenFacts
    <3>4. Len(Z) = Len(Y) + 1
      <4> HIDE DEF Y
      <4> QED BY <1>7, <1>11, ThenFacts
    <3> HIDE DEF V, Y, Z
    <3> QED BY <3>1, <3>2, <3>3, <3>4
  <2>4. base.op \in {"cast", "gep", "track"} /\ bound.op \in {"cast", "gep", "track"}
        /\ track.op \in {"cast", "gep", "track"}
    BY <1>6, <1>7, <1>9
  <2> HIDE DEF V
  <2>5. Cut(InsertAt(Block, Len(V) + 1, base), Y, Rest, 1)
    BY <1>1, <1>6, <2>1, <2>2, <2>4, CutInsert
  <2>6. Cut(one, Y, Rest, 1) BY <2>3, <2>5
  <2> HIDE DEF Y, one
  <2>7. Cut(InsertAt(one, Len(Y) + 1, bound), Z, Rest, 2)
    BY <1>1, <1>7, <2>1, <2>4, <2>6, CutInsert
  <2>8. Cut(two, Z, Rest, 2) BY <2>3, <2>7
  <2> HIDE DEF Z, two
  <2>9. Cut(InsertAt(two, Len(Z) + 1, track), X, Rest, 3)
    BY <1>1, <1>9, <2>1, <2>4, <2>8, CutInsert
  <2> QED BY <2>3, <2>9
<1>13. Inst \in Range(X) /\ base \in Range(X) /\ bound \in Range(X)
  BY <1>3, <1>6, <1>7, <1>9, <1>11, RangeThen
<1> HIDE DEF block
<1>14. 3 \in 0 .. 3 OBVIOUS
<1>15. Origin(h, v) = v /\ Origin(h, Fresh(1)) = v /\ Origin(h, Fresh(2)) = Fresh(1)
  <2> HIDE DEF X
  <2>1. base.op \in Conversions /\ bound.op \in Conversions BY <1>6, <1>7 DEF Conversions
  <2>2. Origin(h, base.id) = base.args[1] /\ Origin(h, bound.id) = bound.args[1]
    BY <1>1, <1>2, <1>10, <1>12, <1>13, <1>14, <2>1, ValuesAfter DEF h
  <2>3. Origin(h, v) = v
    <3> HIDE DEF v
    <3> QED BY <1>1, <1>2, <1>3, <1>10, <1>12, <1>14, ValuesAfter DEF h
  <2> QED BY <1>6, <1>7, <1>8, <2>2, <2>3
<1>16. Resolve(h, Fresh(1)) = v /\ Resolve(h, Fresh(2)) = v BY <1>15 DEF Resolve
<1>17. Reports(h, X) = Reports(h, Passed) \o Awaited(s, Inst)
  <2> DEFINE d == Event(Inst.op, <<v>>)
             e == Event(name, <<v, v, v>>)
  <2>1. Reported(h, Inst) = <<d>> /\ Reported(h, track) = <<e>> BY <1>3, <1>9, <1>16
  <2>2. Awaited(s, Inst) = <<d, e>>
    <3>1. Expected(Inst, 1) = <<d, e>> BY <1>1 DEF Expected
    <3> QED BY <1>3, <3>1
  <2> HIDE DEF d, e
  <2>3. base.op \in Conversions /\ bound.op \in Conversions BY <1>6, <1>7 DEF Conversions
  <2>4. Reports(h, Y) = Reports(h, V) BY <1>6, <1>11, <2>3, ConversionSilent
  <2>5. Reports(h, Z) = Reports(h, Y)
    <3> HIDE DEF Y
    <3> QED BY <1>7, <1>11, <2>3, ConversionSilent
  <2>6. Reports(h, Z) = Reports(h, Then(Passed, Inst)) BY <2>4, <2>5
  <2> HIDE DEF Z
  <2>7. Z \in Seq(Insts) /\ track \in Insts /\ Inst \in Insts /\ Passed \in Seq(Insts)
    BY <1>3, <1>9, <1>11
  <2>8. Reports(h, Then(Z, track)) = Reports(h, Passed) \o <<d, e>>
    BY <2>1, <2>6, <2>7, PairSaid
  <2> QED BY <2>2, <2>8
<1> HIDE DEF X
<1> QED BY <1>1, <1>2, <1>3, <1>10, <1>12, <1>13, <1>14, <1>17, RewriteWalks DEF h

-----------------------------------------------------------------------------
(* The trackers of accesses                                                *)

(* a is the value v, or converted from it.                                 *)
Stands(X, a, v) ==
    a = v \/ \E i \in Range(X) : i.op \in Conversions /\ i.id = a /\ i.args[1] = v

LEMMA StandsThen ==
    ASSUME NEW X \in Seq(Insts), NEW i \in Insts, NEW a, NEW v, Stands(X, a, v)
    PROVE  Stands(Then(X, i), a, v)
BY RangeThen DEF Stands

LEMMA StandsFor ==
    ASSUME AnnotatorInv, AnnotatorInv', AtInst, Inst.op \in Tracked,
           NEW s, Started(s), Walked(funs, fn, bb, pos, fn, s),
           NEW block, NEW X, Cut(block, X, Rest, 3), Rewrite(block),
           NEW a, NEW v \in Int, v <= s.ids, Stands(X, a, v)
    PROVE  Resolve(funs'[fn], a) = v
<1> DEFINE h == funs'[fn]
<1>1. 3 \in 0 .. 3 OBVIOUS
<1>2. Origin(h, v) = v BY <1>1, ValuesAfter
<1>3. \A i \in Range(X) : i.op \in Conversions => Origin(h, i.id) = i.args[1]
  BY <1>1, ValuesAfter
<1> HIDE DEF h
<1>4. Origin(h, a) = v BY <1>2, <1>3 DEF Stands
<1>5. Resolve(h, a) = v BY <1>2, <1>4 DEF Resolve
<1> QED BY <1>5 DEF h

LEMMA CutLarger ==
    ASSUME AnnotatorInv, AtInst, NEW n \in 0 .. 3, NEW m \in 0 .. 3, n < m,
           NEW block, NEW X, NEW C, Cut(block, X, C, n)
    PROVE  Cut(block, X, C, m)
<1>1. \A i : Added(i, n) => Added(i, m)
  <2> SUFFICES ASSUME NEW i, Added(i, n) PROVE Added(i, m) OBVIOUS
  <2> DEFINE ids == Self.ids
  <2>1. ids \in Nat BY FreshFacts
  <2>2. i.id \in ids + 1 .. ids + n /\ i.op \in {"cast", "gep", "track"} BY DEF Added
  <2> HIDE DEF ids
  <2>3. i.id \in ids + 1 .. ids + m BY <2>1, <2>2
  <2> QED BY <2>2, <2>3 DEF Added, ids
<1> QED BY <1>1 DEF Cut

(* The operands of an access.                                              *)
LEMMA AccessFacts ==
    ASSUME AnnotatorInv, AtInst, Inst.op \in {"load", "store"},
           NEW s, Started(s), Walked(funs, fn, bb, pos, fn, s)
    PROVE  /\ Inst.op \in Tracked /\ Inst \in Insts
           /\ Inst.args[1] \in Int /\ Inst.args[1] <= s.ids /\ Inst.args[1] <= Self.ids
           /\ Inst.op = "store" => /\ Inst.args[2] \in Int
                                   /\ Inst.args[2] <= s.ids /\ Inst.args[2] <= Self.ids
           /\ Inst.id \in Int /\ Inst.id <= s.ids /\ Inst.id <= Self.ids
           /\ Inst.ty \in Types /\ Inst.ty # "none"
           /\ s.ids \in Nat /\ s.ids <= Self.ids /\ Self.ids \in Nat
           /\ Passed \in Seq(Insts) /\ Rest \in Seq(Insts)
<1>1. Inst.op \in Tracked BY DEF Tracked
<1>2. Arity(Inst.op) \in Nat /\ 1 \in 1 .. Arity(Inst.op) BY DEF Arity
<1>3. Inst.op = "store" => 2 \in 1 .. Arity(Inst.op) BY DEF Arity
<1>4. /\ s.ids \in Nat /\ s.ids <= Self.ids /\ Inst \in Insts
      /\ Inst.id \in Int /\ Inst.id <= s.ids
      /\ \A a \in 1 .. Arity(Inst.op) : Inst.args[a] \in Int /\ Inst.args[a] <= s.ids
      /\ Passed \in Seq(Insts) /\ Rest \in Seq(Insts)
  BY <1>1, <1>2, TrackedFacts
<1>5. Inst.ty \in Types BY <1>4 DEF Insts
<1>6. Inst.ty # "none"
  <2>1. Inst \in InstsOf(s) /\ GoodFunction(s) BY <1>1, WalkAtTracked DEF Started
  <2>2. Fits(Inst, s.ids) BY <2>1, InstGood
  <2> QED BY <2>2 DEF Fits
<1>7. Self.ids \in Nat BY FreshFacts
<1>8. \A v \in Int : v <= s.ids => v <= Self.ids BY <1>4, <1>7
<1> QED BY <1>1, <1>2, <1>3, <1>4, <1>5, <1>6, <1>7, <1>8

(* The pointer the tracker of an access takes.                             *)
LEMMA PointerStands ==
    ASSUME AnnotatorInv, AtInst, Inst.op \in {"load", "store"},
           NEW s, Started(s), Walked(funs, fn, bb, pos, fn, s)
    PROVE  /\ Pointer(1) \in Int /\ Pointer(1) <= Fresh(1)
           /\ \E P \in Seq(Insts) :
                /\ Cut(WithPointer(Block, 1), P, Ahead(Inst, Rest), 1)
                /\ \A f : Reports(f, P) = Reports(f, Passed)
                /\ Stands(P, Pointer(1), Inst.args[1])
<1> DEFINE v == Inst.args[1]
           cast == CreatePointerCast(Fresh(1), v)
<1>1. /\ v \in Int /\ v <= Self.ids /\ Inst \in Insts
      /\ Passed \in Seq(Insts) /\ Rest \in Seq(Insts)
  BY AccessFacts
<1>2. v <= Fresh(1) /\ Fresh(1) \in Nat \ {0}
  <2>1. Fresh(1) \in Nat \ {0} /\ v < Fresh(1) BY <1>1, FreshFacts
  <2> QED BY <1>1, <2>1
<1>3. Cut(Block, Passed, Ahead(Inst, Rest), 0) BY CutStart
<1>4. 0 \in 0 .. 3 /\ 1 \in 0 .. 3 /\ 0 < 1 OBVIOUS
<1>5. CASE Inst.what = VoidPtrTy
  <2>1. Pointer(1) = v /\ WithPointer(Block, 1) = Block BY <1>5 DEF Pointer, WithPointer
  <2>2. Cut(Block, Passed, Ahead(Inst, Rest), 1) BY <1>3, <1>4, CutLarger
  <2>3. Stands(Passed, v, v) BY DEF Stands
  <2> QED BY <1>1, <1>2, <2>1, <2>2, <2>3
<1>6. CASE Inst.what # VoidPtrTy
  <2>1. Pointer(1) = Fresh(1) /\ WithPointer(Block, 1) = InsertBefore(Block, Inst.id, cast)
    BY <1>6 DEF Pointer, WithPointer
  <2>2. cast \in Insts /\ cast.id = Fresh(1) /\ cast.op = "cast" /\ cast.args = <<v>>
    BY <1>1, <1>2, PointerCastFits DEF CreatePointerCast, Instr
  <2>3. cast.args[1] = v BY <2>2
  <2>4. cast.op \in Conversions BY <2>2 DEF Conversions
  <2> HIDE DEF cast
  <2>5. Cut(InsertBefore(Block, Inst.id, cast), Then(Passed, cast), Ahead(Inst, Rest), 1)
    BY <1>1, <1>3, <1>4, <2>2, CutBefore
  <2>6. /\ Then(Passed, cast) \in Seq(Insts)
        /\ \A f : Reports(f, Then(Passed, cast)) = Reports(f, Passed)
    BY <1>1, <2>2, <2>4, ConversionSilent
  <2>7. cast \in Range(Then(Passed, cast)) BY <1>1, <2>2, RangeThen
  <2>8. Stands(Then(Passed, cast), Pointer(1), v) BY <2>1, <2>2, <2>3, <2>4, <2>7 DEF Stands
  <2>9. Pointer(1) \in Int /\ Pointer(1) <= Fresh(1) BY <1>2, <2>1
  <2> DEFINE P == Then(Passed, cast)
  <2> HIDE DEF P
  <2> QED BY <2>1, <2>5, <2>6, <2>8, <2>9 DEF P
<1> QED BY <1>5, <1>6

(* The value the tracker of an access takes, converted.                    *)
LEMMA ConversionTells ==
    ASSUME NEW m \in Nat \ {0}, NEW i, NEW v \in Int, v <= m,
           i.ty \in Types, i.ty # "none", i.ty # SizeTy
    PROVE  LET j == Cast2SizeTy(m, v, i.ty) IN
           /\ j \in Insts /\ j.id = m /\ j.op = "cast" /\ j.args[1] = Value(i, v)
<1> DEFINE ty == i.ty
           j == Cast2SizeTy(m, v, ty)
<1>1. j \in Insts /\ j.id = m BY ConversionFits
<1>2. j.op = "cast" /\ j.args[1] = Value(i, v)
  <2>1. CASE ~Castable(ty)
    <3>1. ~BitCastable(ty) /\ ty # "ptr" BY <2>1 DEF Castable, BitCastable
    <3>2. j = Instr(m, "cast", <<Constant>>, SizeTy, "bitcast") BY <2>1, <3>1 DEF Cast2SizeTy
    <3>3. Value(i, v) = Constant BY <2>1 DEF Value
    <3> QED BY <3>2, <3>3 DEF Instr
  <2>2. CASE Castable(ty) /\ BitCastable(ty)
    <3>1. ty # "ptr" BY <2>2 DEF BitCastable
    <3>2. j = Instr(m, "cast", <<v>>, ty, "bitcast") BY <2>2, <3>1 DEF Cast2SizeTy
    <3>3. Value(i, v) = v BY <2>2 DEF Value
    <3> QED BY <3>2, <3>3 DEF Instr
  <2>3. CASE Castable(ty) /\ ~BitCastable(ty) /\ ty = "ptr"
    <3>1. j = Instr(m, "cast", <<v>>, ty, "ptrtoint") BY <2>3 DEF Cast2SizeTy
    <3>2. Value(i, v) = v BY <2>3 DEF Value
    <3> QED BY <3>1, <3>2 DEF Instr
  <2>4. CASE Castable(ty) /\ ~BitCastable(ty) /\ ty # "ptr"
    <3>1. j = Instr(m, "cast", <<v>>, ty, "zext") BY <2>4 DEF Cast2SizeTy
    <3>2. Value(i, v) = v BY <2>4 DEF Value
    <3> QED BY <3>1, <3>2 DEF Instr
  <2> QED BY <2>1, <2>2, <2>3, <2>4
<1> QED BY <1>1, <1>2

LEMMA ValueFacts ==
    ASSUME NEW i, NEW n \in Nat, NEW v \in Int, v <= n
    PROVE  /\ Value(i, v) \in Int /\ Value(i, v) <= n
           /\ i.ty = SizeTy => Value(i, v) = v
BY DEF Value, Constant, Castable, SizeTy

(* A load, with its value converted or not, and the block it stands in.    *)
Loadee == IF Inst.ty # SizeTy THEN Fresh(2) ELSE Inst.id
LoadBlock ==
    IF Inst.ty # SizeTy
    THEN InsertAfter(WithPointer(Block, 1), Inst.id, Cast2SizeTy(Fresh(2), Inst.id, Inst.ty))
    ELSE WithPointer(Block, 1)

LEMMA LoadStands ==
    ASSUME AnnotatorInv, AtInst, Inst.op = "load",
           NEW s, Started(s), Walked(funs, fn, bb, pos, fn, s)
    PROVE  /\ Loadee \in Int /\ Loadee <= Fresh(3)
           /\ \E Z \in Seq(Insts) : \E j \in Insts :
                /\ Cut(LoadBlock, Then(Z, j), Rest, 2) /\ j.id = Loadee
                /\ \A f : Reports(f, Then(Z, j)) = Reports(f, Then(Passed, Inst))
                /\ Inst \in Range(Then(Z, j))
                /\ Stands(Then(Z, j), Pointer(1), Inst.args[1])
                /\ Stands(Then(Z, j), Loadee, Value(Inst, Inst.id))
<1> DEFINE v == Inst.id
           W == WithPointer(Block, 1)
           conv == Cast2SizeTy(Fresh(2), v, Inst.ty)
<1>1. /\ Inst \in Insts /\ v \in Int /\ v <= Self.ids /\ Self.ids \in Nat
      /\ Inst.ty \in Types /\ Inst.ty # "none"
      /\ Passed \in Seq(Insts) /\ Rest \in Seq(Insts)
  BY AccessFacts
<1>2. PICK P \in Seq(Insts) :
        /\ Cut(W, P, Ahead(Inst, Rest), 1)
        /\ \A f : Reports(f, P) = Reports(f, Passed)
        /\ Stands(P, Pointer(1), Inst.args[1])
  BY PointerStands
<1>3. /\ Fresh(1) < Fresh(2) /\ Fresh(2) < Fresh(3)
      /\ Fresh(2) \in Nat \ {0} /\ Fresh(3) \in Nat \ {0}
      /\ v <= Fresh(2) /\ v <= Fresh(3)
  <2>1. /\ Fresh(1) < Fresh(2) /\ Fresh(2) < Fresh(3)
        /\ Fresh(2) \in Nat \ {0} /\ Fresh(3) \in Nat \ {0}
        /\ \A x \in Int : \A n \in 1 .. 3 : x <= Self.ids => x < Fresh(n)
    BY FreshFacts
  <2>2. v < Fresh(2) /\ v < Fresh(3) BY <1>1, <2>1
  <2> HIDE DEF v
  <2> QED BY <1>1, <2>1, <2>2
<1> DEFINE V == Then(P, Inst)
<1> HIDE DEF W
<1>4. /\ Cut(W, V, Rest, 1) /\ V \in Seq(Insts)
      /\ \A f : Reports(f, V) = Reports(f, Then(Passed, Inst))
      /\ Inst \in Range(V) /\ Stands(V, Pointer(1), Inst.args[1])
  <2>1. Cut(W, V, Rest, 1) BY <1>1, <1>2, CutMoves
  <2>2. ASSUME NEW f PROVE Reports(f, V) = Reports(f, Then(Passed, Inst))
    <3>1. Reports(f, V) = Reports(f, P) \o Reported(f, Inst) BY <1>1, SaidThen
    <3>2. Reports(f, Then(Passed, Inst)) = Reports(f, Passed) \o Reported(f, Inst)
      BY <1>1, SaidThen
    <3> QED BY <1>2, <3>1, <3>2
  <2> QED BY <1>1, <1>2, <2>1, <2>2, RangeThen, StandsThen
<1>5. 1 \in 0 .. 3 /\ 2 \in 0 .. 3 /\ 1 < 2 OBVIOUS
<1>6. CASE Inst.ty = SizeTy
  <2>1. Loadee = v /\ LoadBlock = W BY <1>6 DEF Loadee, LoadBlock, W
  <2>2. Cut(W, V, Rest, 2) BY <1>4, <1>5, CutLarger
  <2>3. Value(Inst, v) = v BY <1>1, <1>6, ValueFacts
  <2>4. Stands(V, v, v) BY DEF Stands
  <2> QED BY <1>1, <1>2, <1>3, <1>4, <2>1, <2>2, <2>3, <2>4
<1>7. CASE Inst.ty # SizeTy
  <2>1. Loadee = Fresh(2) /\ LoadBlock = InsertAfter(W, Inst.id, conv)
    BY <1>7 DEF Loadee, LoadBlock, W
  <2>2. conv \in Insts /\ conv.id = Fresh(2) /\ conv.op = "cast" /\ conv.args[1] = Value(Inst, v)
    BY <1>1, <1>3, <1>7, ConversionTells
  <2>3. conv.op \in Conversions BY <2>2 DEF Conversions
  <2> HIDE DEF conv
  <2>4. Cut(InsertAfter(W, Inst.id, conv), Then(V, conv), Rest, 2)
    BY <1>1, <1>2, <1>4, <1>5, <2>2, CutAfter
  <2> HIDE DEF V
  <2>5. \A f : Reports(f, Then(V, conv)) = Reports(f, V) BY <1>4, <2>2, <2>3, ConversionSilent
  <2>6. /\ Inst \in Range(Then(V, conv)) /\ conv \in Range(Then(V, conv))
        /\ Stands(Then(V, conv), Pointer(1), Inst.args[1])
    BY <1>4, <2>2, RangeThen, StandsThen
  <2>7. Stands(Then(V, conv), Fresh(2), Value(Inst, v)) BY <2>2, <2>3, <2>6 DEF Stands
  <2>8. Fresh(2) \in Int /\ Fresh(2) <= Fresh(3) BY <1>3
  <2>9. \A f : Reports(f, Then(V, conv)) = Reports(f, Then(Passed, Inst)) BY <1>4, <2>5
  <2> QED BY <1>4, <2>1, <2>2, <2>4, <2>6, <2>7, <2>8, <2>9
<1> QED BY <1>6, <1>7

LEMMA LoadWalks ==
    ASSUME AnnotatorInv, AnnotatorInv', AnnotateLoad,
           NEW s, Started(s), Walked(funs, fn, bb, pos, fn, s)
    PROVE  Walked(funs', fn', bb', pos', fn, s)
<1> DEFINE h == funs'[fn]
           v == Inst.id
           p == Inst.args[1]
           name == "load_integer_after"
           track == CreateTracker(Fresh(3), name, <<Pointer(1), Loadee>>)
           block == InsertAfter(LoadBlock, Loadee, track)
<1>1. AtInst /\ Inst.op = "load" BY DEF AnnotateLoad
<1>2. /\ Inst.op \in Tracked /\ Inst \in Insts /\ v \in Int /\ v <= s.ids
      /\ p \in Int /\ p <= s.ids /\ s.ids \in Nat
      /\ Passed \in Seq(Insts) /\ Rest \in Seq(Insts)
  BY <1>1, AccessFacts
<1>3. Rewrite(block) BY DEF AnnotateLoad, Loadee, LoadBlock, LoadPos
<1>4. PICK Z \in Seq(Insts) : \E j \in Insts :
        /\ Cut(LoadBlock, Then(Z, j), Rest, 2) /\ j.id = Loadee
        /\ \A f : Reports(f, Then(Z, j)) = Reports(f, Then(Passed, Inst))
        /\ Inst \in Range(Then(Z, j))
        /\ Stands(Then(Z, j), Pointer(1), p)
        /\ Stands(Then(Z, j), Loadee, Value(Inst, v))
  BY <1>1, LoadStands
<1>5. PICK j \in Insts :
        /\ Cut(LoadBlock, Then(Z, j), Rest, 2) /\ j.id = Loadee
        /\ \A f : Reports(f, Then(Z, j)) = Reports(f, Then(Passed, Inst))
        /\ Inst \in Range(Then(Z, j))
        /\ Stands(Then(Z, j), Pointer(1), p)
        /\ Stands(Then(Z, j), Loadee, Value(Inst, v))
  BY <1>4
<1>6. /\ Loadee \in Int /\ Loadee <= Fresh(3) /\ Pointer(1) \in Int /\ Pointer(1) <= Fresh(3)
  <2>1. Loadee \in Int /\ Loadee <= Fresh(3) BY <1>1, LoadStands
  <2>2. Pointer(1) \in Int /\ Pointer(1) <= Fresh(1) BY <1>1, PointerStands
  <2>3. Fresh(1) < Fresh(3) /\ Fresh(1) \in Nat /\ Fresh(3) \in Nat BY <1>1, FreshFacts
  <2> QED BY <2>1, <2>2, <2>3
<1>7. /\ track \in Insts /\ track.id = Fresh(3) /\ track.op = "track"
      /\ \A f : Reported(f, track)
                  = <<Event(name, <<Resolve(f, Pointer(1)), Resolve(f, Loadee)>>)>>
  <2>1. 3 \in 1 .. 3 /\ name \in Marks BY TrackerMarks
  <2> HIDE DEF name
  <2> QED BY <1>1, <1>6, <2>1, TellsTwo
<1> DEFINE Y == Then(Z, j)
           X == Then(Y, track)
<1>8. Y \in Seq(Insts) BY ThenFacts
<1> HIDE DEF track, h
<1>9. Cut(block, X, Rest, 3)
  <2>1. 2 \in 0 .. 3 /\ 3 \in 0 .. 3 /\ 2 < 3 OBVIOUS
  <2> QED BY <1>1, <1>5, <1>7, <2>1, CutAfter
<1> HIDE DEF block, Y
<1>10. /\ Inst \in Range(X)
       /\ Stands(X, Pointer(1), p) /\ Stands(X, Loadee, Value(Inst, v))
  BY <1>5, <1>7, <1>8, RangeThen, StandsThen DEF Y
<1> HIDE DEF X
<1>11. Resolve(h, Pointer(1)) = p
  <2> HIDE DEF p
  <2> QED BY <1>1, <1>2, <1>3, <1>9, <1>10, StandsFor DEF h
<1>12. Resolve(h, Loadee) = Value(Inst, v)
  <2> DEFINE w == Value(Inst, v)
  <2>1. w \in Int /\ w <= s.ids BY <1>2, ValueFacts
  <2> HIDE DEF w
  <2>2. Stands(X, Loadee, w) BY <1>10 DEF w
  <2>3. Resolve(h, Loadee) = w BY <1>1, <1>2, <1>3, <1>9, <2>1, <2>2, StandsFor DEF h
  <2> QED BY <2>3 DEF w
<1>13. Reports(h, X) = Reports(h, Passed) \o Awaited(s, Inst)
  <2> DEFINE d == Event(Inst.op, <<v>>)
             e == Event(name, <<p, Value(Inst, v)>>)
  <2>1. Reported(h, Inst) = <<d>>
    <3>1. \A f : Reported(f, Inst) = <<Event(Inst.op, <<Inst.id>>)>> BY <1>1, <1>2, TrackedFacts
    <3> QED BY <3>1
  <2>2. Reported(h, track) = <<e>> BY <1>7, <1>11, <1>12
  <2>3. Awaited(s, Inst) = <<d, e>>
    <3>1. Expected(Inst, 1) = <<d, e>> BY <1>1 DEF Expected
    <3>2. Awaited(s, Inst) = Expected(Inst, 1) BY <1>1, <1>2, TrackedFacts
    <3> QED BY <3>1, <3>2
  <2> HIDE DEF d, e
  <2>4. Reports(h, Y) = Reports(h, Then(Passed, Inst)) BY <1>5 DEF Y
  <2>5. Reports(h, Then(Y, track)) = Reports(h, Passed) \o <<d, e>>
    BY <1>2, <1>7, <1>8, <2>1, <2>2, <2>4, PairSaid
  <2> QED BY <2>3, <2>5 DEF X
<1>14. 3 \in 0 .. 3 OBVIOUS
<1> QED BY <1>1, <1>2, <1>3, <1>9, <1>10, <1>13, <1>14, RewriteWalks DEF h

(* A store, with the value converted or not.                               *)
Storee == IF Inst.ty # SizeTy THEN Fresh(2) ELSE Inst.args[2]
StoreBlock ==
    IF Inst.ty # SizeTy
    THEN InsertBefore(WithPointer(Block, 1), Inst.id,
                      Cast2SizeTy(Fresh(2), Inst.args[2], Inst.ty))
    ELSE WithPointer(Block, 1)

LEMMA StoreStands ==
    ASSUME AnnotatorInv, AtInst, Inst.op = "store",
           NEW s, Started(s), Walked(funs, fn, bb, pos, fn, s)
    PROVE  /\ Storee \in Int /\ Storee <= Fresh(3)
           /\ \E Z \in Seq(Insts) :
                /\ Cut(StoreBlock, Z, Ahead(Inst, Rest), 2)
                /\ \A f : Reports(f, Z) = Reports(f, Passed)
                /\ Stands(Z, Pointer(1), Inst.args[1])
                /\ Stands(Z, Storee, Value(Inst, Inst.args[2]))
<1> DEFINE v == Inst.args[2]
           W == WithPointer(Block, 1)
           conv == Cast2SizeTy(Fresh(2), v, Inst.ty)
<1>1. /\ Inst \in Insts /\ v \in Int /\ v <= Self.ids /\ Self.ids \in Nat
      /\ Inst.ty \in Types /\ Inst.ty # "none"
      /\ Passed \in Seq(Insts) /\ Rest \in Seq(Insts)
  BY AccessFacts
<1>2. PICK P \in Seq(Insts) :
        /\ Cut(W, P, Ahead(Inst, Rest), 1)
        /\ \A f : Reports(f, P) = Reports(f, Passed)
        /\ Stands(P, Pointer(1), Inst.args[1])
  BY PointerStands
<1>3. /\ Fresh(1) < Fresh(2) /\ Fresh(2) < Fresh(3)
      /\ Fresh(2) \in Nat \ {0} /\ Fresh(3) \in Nat \ {0}
      /\ v <= Fresh(2) /\ v <= Fresh(3)
  <2>1. /\ Fresh(1) < Fresh(2) /\ Fresh(2) < Fresh(3)
        /\ Fresh(2) \in Nat \ {0} /\ Fresh(3) \in Nat \ {0}
        /\ \A x \in Int : \A n \in 1 .. 3 : x <= Self.ids => x < Fresh(n)
    BY FreshFacts
  <2>2. v < Fresh(2) /\ v < Fresh(3) BY <1>1, <2>1
  <2> HIDE DEF v
  <2> QED BY <1>1, <2>1, <2>2
<1> HIDE DEF W
<1>5. 1 \in 0 .. 3 /\ 2 \in 0 .. 3 /\ 1 < 2 OBVIOUS
<1>6. CASE Inst.ty = SizeTy
  <2>1. Storee = v /\ StoreBlock = W BY <1>6 DEF Storee, StoreBlock, W
  <2>2. Cut(W, P, Ahead(Inst, Rest), 2) BY <1>2, <1>5, CutLarger
  <2>3. Value(Inst, v) = v BY <1>1, <1>6, ValueFacts
  <2>4. Stands(P, v, v) BY DEF Stands
  <2> QED BY <1>1, <1>2, <1>3, <2>1, <2>2, <2>3, <2>4
<1>7. CASE Inst.ty # SizeTy
  <2>1. Storee = Fresh(2) /\ StoreBlock = InsertBefore(W, Inst.id, conv)
    BY <1>7 DEF Storee, StoreBlock, W
  <2>2. conv \in Insts /\ conv.id = Fresh(2) /\ conv.op = "cast" /\ conv.args[1] = Value(Inst, v)
    BY <1>1, <1>3, <1>7, ConversionTells
  <2>3. conv.op \in Conversions BY <2>2 DEF Conversions
  <2> HIDE DEF conv
  <2>4. Cut(InsertBefore(W, Inst.id, conv), Then(P, conv), Ahead(Inst, Rest), 2)
    BY <1>1, <1>2, <1>5, <2>2, CutBefore
  <2>5. \A f : Reports(f, Then(P, conv)) = Reports(f, P) BY <1>2, <2>2, <2>3, ConversionSilent
  <2>6. /\ Then(P, conv) \in Seq(Insts) /\ conv \in Range(Then(P, conv))
        /\ Stands(Then(P, conv), Pointer(1), Inst.args[1])
    BY <1>2, <2>2, RangeThen, StandsThen
  <2>7. Stands(Then(P, conv), Fresh(2), Value(Inst, v)) BY <2>2, <2>3, <2>6 DEF Stands
  <2>8. Fresh(2) \in Int /\ Fresh(2) <= Fresh(3) BY <1>3
  <2>9. \A f : Reports(f, Then(P, conv)) = Reports(f, Passed) BY <1>2, <2>5
  <2> QED BY <2>1, <2>4, <2>6, <2>7, <2>8, <2>9
<1> QED BY <1>6, <1>7

LEMMA StoreWalks ==
    ASSUME AnnotatorInv, AnnotatorInv', AnnotateStore,
           NEW s, Started(s), Walked(funs, fn, bb, pos, fn, s)
    PROVE  Walked(funs', fn', bb', pos', fn, s)
<1> DEFINE h == funs'[fn]
           v == Inst.args[2]
           p == Inst.args[1]
           name == "store_integer_before"
           track == CreateTracker(Fresh(3), name, <<Pointer(1), Storee>>)
           block == InsertBefore(StoreBlock, Inst.id, track)
<1>1. AtInst /\ Inst.op = "store" BY DEF AnnotateStore
<1>2. /\ Inst.op \in Tracked /\ Inst \in Insts /\ v \in Int /\ v <= s.ids
      /\ p \in Int /\ p <= s.ids /\ s.ids \in Nat
      /\ Passed \in Seq(Insts) /\ Rest \in Seq(Insts)
  BY <1>1, AccessFacts
<1>3. Rewrite(block) BY DEF AnnotateStore, Storee, StoreBlock
<1>5. PICK Z \in Seq(Insts) :
        /\ Cut(StoreBlock, Z, Ahead(Inst, Rest), 2)
        /\ \A f : Reports(f, Z) = Reports(f, Passed)
        /\ Stands(Z, Pointer(1), p)
        /\ Stands(Z, Storee, Value(Inst, v))
  BY <1>1, StoreStands
<1>6. /\ Storee \in Int /\ Storee <= Fresh(3) /\ Pointer(1) \in Int /\ Pointer(1) <= Fresh(3)
  <2>1. Storee \in Int /\ Storee <= Fresh(3) BY <1>1, StoreStands
  <2>2. Pointer(1) \in Int /\ Pointer(1) <= Fresh(1) BY <1>1, PointerStands
  <2>3. Fresh(1) < Fresh(3) /\ Fresh(1) \in Nat /\ Fresh(3) \in Nat BY <1>1, FreshFacts
  <2> QED BY <2>1, <2>2, <2>3
<1>7. /\ track \in Insts /\ track.id = Fresh(3) /\ track.op = "track"
      /\ \A f : Reported(f, track)
                  = <<Event(name, <<Resolve(f, Pointer(1)), Resolve(f, Storee)>>)>>
  <2>1. 3 \in 1 .. 3 /\ name \in Marks BY TrackerMarks
  <2> HIDE DEF name
  <2> QED BY <1>1, <1>6, <2>1, TellsTwo
<1> DEFINE Y == Then(Z, track)
           X == Then(Y, Inst)
<1> HIDE DEF track, h
<1>8. Y \in Seq(Insts) BY <1>7, ThenFacts
<1>9. Cut(block, X, Rest, 3)
  <2>1. 2 \in 0 .. 3 /\ 3 \in 0 .. 3 /\ 2 < 3 OBVIOUS
  <2>2. Cut(block, Y, Ahead(Inst, Rest), 3) BY <1>1, <1>2, <1>5, <1>7, <2>1, CutBefore
  <2> HIDE DEF block, Y
  <2> QED BY <1>1, <1>2, <2>2, CutMoves
<1> HIDE DEF block
<1>10. /\ Inst \in Range(X)
       /\ Stands(X, Pointer(1), p) /\ Stands(X, Storee, Value(Inst, v))
  <2>1. Stands(Y, Pointer(1), p) /\ Stands(Y, Storee, Value(Inst, v))
    BY <1>5, <1>7, StandsThen
  <2> HIDE DEF Y
  <2> QED BY <1>2, <1>8, <2>1, RangeThen, StandsThen
<1> HIDE DEF X
<1>11. Resolve(h, Pointer(1)) = p
  <2> HIDE DEF p
  <2> QED BY <1>1, <1>2, <1>3, <1>9, <1>10, StandsFor DEF h
<1>12. Resolve(h, Storee) = Value(Inst, v)
  <2> DEFINE w == Value(Inst, v)
  <2>1. w \in Int /\ w <= s.ids BY <1>2, ValueFacts
  <2> HIDE DEF w
  <2>2. Stands(X, Storee, w) BY <1>10 DEF w
  <2>3. Resolve(h, Storee) = w BY <1>1, <1>2, <1>3, <1>9, <2>1, <2>2, StandsFor DEF h
  <2> QED BY <2>3 DEF w
<1>13. Reports(h, X) = Reports(h, Passed) \o Awaited(s, Inst)
  <2> DEFINE d == Event(name, <<p, Value(Inst, v)>>)
             e == Event(Inst.op, <<Inst.id>>)
  <2>1. Reported(h, Inst) = <<e>>
    <3>1. \A f : Reported(f, Inst) = <<Event(Inst.op, <<Inst.id>>)>> BY <1>1, <1>2, TrackedFacts
    <3> QED BY <3>1
  <2>2. Reported(h, track) = <<d>> BY <1>7, <1>11, <1>12
  <2>3. Awaited(s, Inst) = <<d, e>>
    <3>1. Expected(Inst, 1) = <<d, e>> BY <1>1 DEF Expected
    <3>2. Awaited(s, Inst) = Expected(Inst, 1) BY <1>1, <1>2, TrackedFacts
    <3> QED BY <3>1, <3>2
  <2> HIDE DEF d, e
  <2>4. Reports(h, Z) = Reports(h, Passed) BY <1>5
  <2>5. Reports(h, Then(Y, Inst)) = Reports(h, Passed) \o <<d, e>>
    BY <1>2, <1>7, <1>8, <2>1, <2>2, <2>4, PairSaid
  <2> QED BY <2>3, <2>5 DEF X
<1>14. 3 \in 0 .. 3 OBVIOUS
<1> QED BY <1>1, <1>2, <1>3, <1>9, <1>10, <1>13, <1>14, RewriteWalks DEF h

-----------------------------------------------------------------------------
(* The steps that insert nothing                                           *)

(* A function that is as it was: nothing is missing, nothing is there yet. *)
LEMMA FreshWalked ==
    ASSUME NEW fs, NEW n \in Int, NEW b, NEW p, NEW k \in DOMAIN fs, k \in Int,
           NEW s, Started(s), fs[k] = s, k > n \/ (k = n /\ b = 0)
    PROVE  Walked(fs, n, b, p, k, s)
<1>1. /\ DOMAIN s.blocks = 1 .. Len(s.blocks) /\ Len(s.blocks) \in Nat /\ s.ids \in Nat
  <2>1. s.blocks \in Seq(Seq(Insts)) /\ s.ids \in Nat BY DEF Started, GoodFunction, AnyFunction
  <2> QED BY <2>1, LenProperties
<1>2. \A i \in InstsOf(s) : i.op \notin Conversions BY DEF Started, Conversions
<1>3. ~(k < n) BY DEF Past
<1>4. \A c \in DOMAIN s.blocks : ~Past(n, b, k, c) /\ ~(k = n /\ c = b)
  <2> SUFFICES ASSUME NEW c \in DOMAIN s.blocks PROVE ~Past(n, b, k, c) /\ ~(k = n /\ c = b)
    OBVIOUS
  <2>1. c \in Int /\ c > 0 BY <1>1
  <2> QED BY <1>3, <2>1 DEF Past
<1>5. s.ids <= s.ids BY <1>1
<1> QED BY <1>2, <1>4, <1>5 DEF Walked

(* A step inside one function leaves the walk through the others alone.    *)
LEMMA OthersStay ==
    ASSUME NEW fs, NEW gs, NEW n, NEW b, NEW c, NEW p, NEW q, NEW k, NEW s, k # n,
           Walked(fs, n, b, p, k, s), k \in DOMAIN gs, gs[k] = fs[k]
    PROVE  Walked(gs, n, c, q, k, s)
BY DEF Walked, Past

(* In front of a block that is as it was.                                  *)
LEMMA WalkingStarts ==
    ASSUME NEW g, NEW s, NEW was \in Seq(Insts)
    PROVE  Walking(g, s, 1, was, was)
<1> DEFINE none == <<>>
<1>1. none \in Seq(Insts) /\ Len(none) = 0 /\ none \o was = was BY EmptySeq, ConcatEmptySeq
<1>2. Reports(g, none) = AwaitedOf(s, none)
  <2>1. Reports(g, none) = FlattenSeq(none) /\ AwaitedOf(s, none) = FlattenSeq(none)
    BY DEF Reports, AwaitedOf
  <2> QED BY <2>1
<1> HIDE DEF none
<1>3. 1 <= Len(none) + 1 /\ \A a \in 1 .. Len(none) : none[a].op \notin Tracked BY <1>1
<1> QED BY <1>1, <1>2, <1>3 DEF Walking

(* An instruction the pass goes over reports what it should.               *)
LEMMA PassedSays ==
    ASSUME AnnotatorInv, AtInst, Inst.op \notin Tracked,
           NEW s, Started(s), Walked(funs, fn, bb, pos, fn, s), Inst \in InstsOf(s)
    PROVE  Reported(Self, Inst) = Awaited(s, Inst)
<1>1. Inst.op \notin {"cast", "gep", "track"} BY DEF Started
<1>2. \A i : i.op \in Pairings => (i \in InstsOf(s) <=> i \in InstsOf(Self))
  BY DEF Walked, Self
<1>3. \A v : Returned(Self, v) = Returned(s, v) BY <1>2, ReturnedSame
<1>4. CASE Inst.op \in Pairings
  <2>1. Inst.op # "track" /\ Inst.op # "ret" BY <1>4 DEF Pairings
  <2>2. Reported(Self, Inst) = <<>> BY <1>4, <2>1 DEF Reported
  <2>3. Awaited(s, Inst) = <<>> BY <1>4, <2>1 DEF Awaited
  <2> QED BY <2>2, <2>3
<1>5. CASE Inst.op = "ret"
  <2> DEFINE e == <<Event("ret", Returned(Self, Inst.args[1]))>>
  <2>1. Inst.op # "track" /\ Inst.op \notin Pairings /\ Inst.op \notin Conversions
    BY <1>5 DEF Pairings, Conversions
  <2>2. Reported(Self, Inst) = e BY <1>5, <2>1 DEF Reported
  <2>3. Awaited(s, Inst) = <<Event("ret", Returned(s, Inst.args[1]))>>
    BY <1>5, <2>1 DEF Awaited
  <2> QED BY <1>3, <2>2, <2>3
<1>6. CASE Inst.op \notin Pairings /\ Inst.op # "ret"
  <2> DEFINE e == <<Event(Inst.op, <<Inst.id>>)>>
  <2>1. Inst.op # "track" /\ Inst.op \notin Conversions BY <1>1 DEF Conversions
  <2>2. Reported(Self, Inst) = e BY <1>6, <2>1 DEF Reported
  <2>3. Awaited(s, Inst) = Expected(Inst, 1) BY <1>6 DEF Awaited
  <2>4. /\ Inst.op # "alloca" /\ Inst.op # "malloc" /\ Inst.op # "free" /\ Inst.op # "stacksave"
        /\ Inst.op # "stackrestore" /\ Inst.op # "load" /\ Inst.op # "store"
    BY DEF Tracked, Allocations
  <2>5. Expected(Inst, 1) = e BY <1>6, <2>4 DEF Expected
  <2> QED BY <2>2, <2>3, <2>5
<1> QED BY <1>4, <1>5, <1>6

LEMMA PassOverWalks ==
    ASSUME AnnotatorInv, PassOver, NEW s, Started(s), Walked(funs, fn, bb, pos, fn, s)
    PROVE  Walked(funs', fn', bb', pos', fn, s)
<1>1. /\ AtInst /\ Inst.op \notin Tracked
      /\ pos' = pos + 1 /\ funs' = funs /\ fn' = fn /\ bb' = bb
  BY DEF PassOver
<1>2. /\ Passed \in Seq(Insts) /\ Rest \in Seq(Insts) /\ Inst \in Insts
      /\ Len(Passed) = pos - 1 /\ Block = Then(Passed, Inst) \o Rest
  BY <1>1, BlockParts
<1>3. bb \in DOMAIN Self.blocks /\ pos \in Nat /\ 1 <= pos BY <1>1, InstFacts DEF InBlock
<1>4. bb \in DOMAIN s.blocks /\ Walking(Self, s, pos, Block, s.blocks[bb])
  BY <1>3 DEF Walked, Self, Block
<1>5. ASSUME NEW A \in Seq(Insts), NEW C \in Seq(Insts), NEW D \in Seq(Insts),
             Block = A \o C, s.blocks[bb] = D \o C,
             Reports(Self, A) = AwaitedOf(s, D), pos <= Len(A) + 1,
             \A q \in pos .. Len(A) : A[q].op \notin Tracked
      PROVE  Walking(Self, s, pos + 1, Block, s.blocks[bb])
  <2>1. Len(A) \in Nat BY LenProperties
  <2>2. CASE pos <= Len(A)
    <3>1. pos + 1 <= Len(A) + 1 /\ \A q \in pos + 1 .. Len(A) : A[q].op \notin Tracked
      BY <1>3, <1>5, <2>1, <2>2
    <3> QED BY <1>5, <3>1 DEF Walking
  <2>3. CASE pos = Len(A) + 1
    <3> DEFINE T == Then(A, Inst)
               U == Then(D, Inst)
    <3>1. A = Passed /\ s.blocks[bb] = U \o Rest /\ Inst \in InstsOf(s)
      BY <1>1, <1>4, <1>5, <2>3, WalkAtCut
    <3>2. Block = T \o Rest BY <1>2, <3>1
    <3>3. Reports(Self, T) = AwaitedOf(s, U)
      <4>1. Reports(Self, T) = Reports(Self, A) \o Reported(Self, Inst) BY <1>2, SaidThen
      <4>2. AwaitedOf(s, U) = AwaitedOf(s, D) \o Awaited(s, Inst)
        BY <1>2, AwaitedFacts DEF Then
      <4>3. Reported(Self, Inst) = Awaited(s, Inst) BY <1>1, <3>1, PassedSays
      <4> QED BY <1>5, <4>1, <4>2, <4>3
    <3>4. T \in Seq(Insts) /\ U \in Seq(Insts) /\ Len(T) = Len(A) + 1 BY <1>2, ThenFacts
    <3> HIDE DEF T, U
    <3>5. pos + 1 <= Len(T) + 1 /\ \A q \in pos + 1 .. Len(T) : T[q].op \notin Tracked
      BY <1>3, <2>1, <2>3, <3>4
    <3> QED BY <1>2, <3>1, <3>2, <3>3, <3>4, <3>5 DEF Walking
  <2> QED BY <1>3, <1>5, <2>1, <2>2, <2>3
<1>6. Walking(Self, s, pos + 1, Block, s.blocks[bb]) BY <1>4, <1>5 DEF Walking
<1>7. Walking(funs[fn], s, pos + 1, funs[fn].blocks[bb], s.blocks[bb])
  BY <1>6 DEF Self, Block
<1> QED BY <1>1, <1>7 DEF Walked

(* Whatever is appended, the functions keep their places.                  *)
LEMMA EnterKeepsFunctions ==
    ASSUME AnnotatorInv, EnterFunction
    PROVE  /\ \A k \in DOMAIN funs : k \in DOMAIN funs' /\ funs'[k] = funs[k]
           /\ Self.name = "main" => /\ Len(funs) + 1 \in DOMAIN funs' \ DOMAIN funs
                                    /\ funs'[Len(funs) + 1] = CloneFunction(Self)
                                    /\ Len(funs) + 1 > fn /\ Len(funs) + 1 \in Int
<1>1. AtFunction BY DEF EnterFunction
<1>2. CASE Self.name # "main" BY <1>2 DEF EnterFunction
<1>3. CASE Self.name = "main"
  <2> DEFINE clone == CloneFunction(Self)
  <2>1. GoodFunction(clone) BY <1>1, <1>3, FunctionFacts, CloneGood
  <2>2. clone \in AnyFunction BY <2>1 DEF GoodFunction
  <2>3. funs' = Append(funs, clone) BY <1>3 DEF EnterFunction
  <2> HIDE DEF clone
  <2>4. /\ funs' \in Seq(AnyFunction) /\ Len(funs') = Len(funs) + 1 /\ Len(funs) \in Nat
        /\ DOMAIN funs = 1 .. Len(funs)
        /\ \A f \in 1 .. Len(funs) : funs'[f] = funs[f]
        /\ funs'[Len(funs) + 1] = clone
    BY <2>2, <2>3, AppendProperties, LenProperties DEF AnnotatorInv
  <2>5. DOMAIN funs' = 1 .. Len(funs) + 1 BY <2>4, LenProperties
  <2>6. fn \in 1 .. Len(funs) BY <1>1, FunctionFacts
  <2>7. Len(funs) + 1 \in DOMAIN funs' \ DOMAIN funs /\ Len(funs) + 1 > fn /\ Len(funs) + 1 \in Int
    BY <2>4, <2>5, <2>6
  <2>8. \A k \in DOMAIN funs : k \in DOMAIN funs' /\ funs'[k] = funs[k] BY <2>4, <2>5
  <2> QED BY <2>4, <2>7, <2>8 DEF clone
<1> QED BY <1>2, <1>3

LEMMA EnterFunctionWalks ==
    ASSUME AnnotatorInv, EnterFunction, NEW s, Started(s), Walked(funs, fn, bb, pos, fn, s)
    PROVE  Walked(funs', fn', bb', pos', fn, s)
<1>1. AtFunction /\ bb = 0 /\ bb' = 1 /\ fn' = fn /\ pos' = pos BY DEF EnterFunction
<1>2. /\ fn \in DOMAIN funs /\ fn \in Nat /\ Len(Self.blocks) \in Nat
      /\ DOMAIN Self.blocks = 1 .. Len(Self.blocks)
      /\ \A c \in DOMAIN Self.blocks : Self.blocks[c] \in Seq(Insts)
  BY <1>1, FunctionFacts, ElementOfSeq
<1>3. pos = 1
  <2>1. 0 \notin 1 .. Len(Self.blocks) BY <1>2
  <2> QED BY <1>1, <1>2, <2>1 DEF AnnotatorInv, InBlock
<1>4. fn \in DOMAIN funs' /\ funs'[fn] = Self
  BY <1>2, EnterKeepsFunctions DEF Self
<1>5. Self = s BY <1>1, <1>2 DEF Walked, Self
<1>6. ASSUME NEW c \in DOMAIN s.blocks
      PROVE  /\ ~Past(fn, 1, fn, c)
             /\ c = 1 => Walking(Self, s, 1, Self.blocks[c], s.blocks[c])
  <2>1. ~(c < 1) /\ ~(fn < fn) BY <1>2, <1>5
  <2>2. c = 1 => Walking(Self, s, 1, Self.blocks[c], s.blocks[c])
    BY <1>2, <1>5, WalkingStarts
  <2> QED BY <2>1, <2>2 DEF Past
<1>7. ~(fn > fn) BY <1>2
<1>8. Walked(funs, fn, bb, pos, fn, s) OBVIOUS
<1>9. /\ s.ids <= funs[fn].ids
      /\ \A i \in InstsOf(funs[fn]) : i.op \in Conversions => i.id > s.ids
  BY <1>8 DEF Walked
<1> QED BY <1>1, <1>3, <1>4, <1>5, <1>6, <1>7, <1>9 DEF Walked, Self

LEMMA EndBlockWalks ==
    ASSUME AnnotatorInv, EndBlock, NEW s, Started(s), Walked(funs, fn, bb, pos, fn, s)
    PROVE  Walked(funs', fn', bb', pos', fn, s)
<1>1. /\ InBlock /\ pos > Len(Block) /\ bb' = bb + 1 /\ pos' = 1 /\ fn' = fn /\ funs' = funs
  BY DEF EndBlock
<1>2. /\ AtFunction /\ Block \in Seq(Insts) /\ Len(Block) \in Nat
      /\ pos \in 1 .. Len(Block) + 1 /\ bb \in DOMAIN Self.blocks
  BY <1>1, BlockFacts DEF InBlock
<1>3. /\ fn \in DOMAIN funs /\ fn \in Nat /\ bb \in Nat /\ Len(Self.blocks) \in Nat
      /\ DOMAIN Self.blocks = 1 .. Len(Self.blocks)
      /\ \A c \in DOMAIN Self.blocks : Self.blocks[c] \in Seq(Insts)
  BY <1>2, FunctionFacts, ElementOfSeq
<1>4. bb \in DOMAIN s.blocks /\ Walking(Self, s, pos, Block, s.blocks[bb])
  BY <1>2 DEF Walked, Self, Block
<1>5. ASSUME NEW A \in Seq(Insts), NEW C \in Seq(Insts), NEW D \in Seq(Insts),
             Block = A \o C, s.blocks[bb] = D \o C,
             Reports(Self, A) = AwaitedOf(s, D), pos <= Len(A) + 1
      PROVE  Reports(Self, Block) = AwaitedOf(s, s.blocks[bb])
  <2>1. /\ Len(A) \in Nat /\ Len(C) \in Nat /\ Len(Block) = Len(A) + Len(C) BY <1>5, PartsOf
  <2>2. Len(C) = 0 BY <1>1, <1>2, <1>5, <2>1
  <2>3. C = <<>> BY <2>2, EmptySeq
  <2>4. Block = A /\ s.blocks[bb] = D BY <1>5, <2>3, ConcatEmptySeq
  <2> QED BY <1>5, <2>4
<1>6. Reports(Self, Block) = AwaitedOf(s, s.blocks[bb]) BY <1>4, <1>5 DEF Walking
<1>7. /\ DOMAIN Self.blocks = DOMAIN s.blocks
      /\ \A c \in DOMAIN s.blocks :
            /\ Past(fn, bb, fn, c) => Reports(Self, Self.blocks[c]) = AwaitedOf(s, s.blocks[c])
            /\ ~Past(fn, bb, fn, c) /\ c # bb => Self.blocks[c] = s.blocks[c]
  BY DEF Walked, Self
<1>8. ASSUME NEW c \in DOMAIN s.blocks
      PROVE  /\ Past(fn, bb + 1, fn, c) =>
                    Reports(Self, Self.blocks[c]) = AwaitedOf(s, s.blocks[c])
             /\ c = bb + 1 => Walking(Self, s, 1, Self.blocks[c], s.blocks[c])
             /\ ~Past(fn, bb + 1, fn, c) /\ c # bb + 1 => Self.blocks[c] = s.blocks[c]
  <2>1. c \in Nat BY <1>3, <1>7
  <2>2. \A b \in Nat : Past(fn, b, fn, c) <=> c < b BY <1>3 DEF Past
  <2>3. bb + 1 \in Nat /\ (Past(fn, bb + 1, fn, c) <=> c < bb + 1) BY <1>3, <2>2
  <2>4. CASE c < bb BY <1>3, <1>7, <2>1, <2>2, <2>3, <2>4
  <2>5. CASE c = bb BY <1>3, <1>6, <2>3, <2>5 DEF Block
  <2>6. CASE c > bb
    <3>1. Self.blocks[c] = s.blocks[c] BY <1>3, <1>7, <2>1, <2>2, <2>6
    <3>2. Self.blocks[c] \in Seq(Insts) BY <1>3, <1>7
    <3>3. Walking(Self, s, 1, Self.blocks[c], s.blocks[c]) BY <3>1, <3>2, WalkingStarts
    <3>4. ~Past(fn, bb + 1, fn, c) BY <1>3, <2>1, <2>3, <2>6
    <3> QED BY <3>1, <3>3, <3>4
  <2> QED BY <1>3, <2>1, <2>4, <2>5, <2>6
<1>9. ~(fn > fn) /\ bb + 1 # 0 BY <1>3
<1> QED BY <1>1, <1>8, <1>9 DEF Walked, Self

LEMMA EndFunctionWalks ==
    ASSUME AnnotatorInv, EndFunction,
           NEW k \in DOMAIN funs, NEW s, Started(s), Walked(funs, fn, bb, pos, k, s)
    PROVE  Walked(funs', fn', bb', pos', k, s)
<1>1. /\ AtFunction /\ bb > Len(Self.blocks) /\ fn' = fn + 1 /\ bb' = 0 /\ pos' = pos
      /\ funs' = funs
  BY DEF EndFunction
<1>2. /\ fn \in Nat /\ Len(Self.blocks) \in Nat /\ bb \in Nat
      /\ DOMAIN Self.blocks = 1 .. Len(Self.blocks)
  BY <1>1, FunctionFacts
<1>3. k \in Nat /\ k >= 1
  <2>1. DOMAIN funs = 1 .. Len(funs) /\ Len(funs) \in Nat BY LenProperties DEF AnnotatorInv
  <2> QED BY <2>1
<1>4. CASE k > fn
  <2>1. funs[k] = s BY <1>4 DEF Walked
  <2>2. k > fn + 1 \/ k = fn + 1 BY <1>2, <1>3, <1>4
  <2>3. fn + 1 \in Int /\ k \in Int BY <1>2, <1>3
  <2> QED BY <1>1, <2>1, <2>2, <2>3, FreshWalked
<1>5. CASE k <= fn
  <2>1. ASSUME NEW c \in DOMAIN s.blocks PROVE Past(fn, bb, k, c)
    <3>1. CASE k < fn BY <3>1 DEF Past
    <3>2. CASE k = fn
      <4>1. c \in DOMAIN Self.blocks BY <2>1, <3>2 DEF Walked, Self
      <4>2. c < bb BY <1>1, <1>2, <4>1
      <4> QED BY <3>2, <4>2 DEF Past
    <3> QED BY <1>2, <1>3, <1>5, <3>1, <3>2
  <2>2. /\ k < fn + 1 /\ ~(k > fn + 1) /\ k # fn + 1 BY <1>2, <1>3, <1>5
  <2>3. \A c : Past(fn + 1, 0, k, c) BY <2>2 DEF Past
  <2> QED BY <1>1, <2>1, <2>2, <2>3 DEF Walked
<1> QED BY <1>2, <1>3, <1>4, <1>5

(* Each insertion leaves the other functions alone.                        *)
LEMMA RewriteOthers ==
    ASSUME NEW block, Rewrite(block), NEW k, NEW s, k # fn, Walked(funs, fn, bb, pos, k, s)
    PROVE  Walked(funs', fn', bb', pos', k, s)
<1>1. fn' = fn BY DEF Rewrite
<1>2. k \in DOMAIN funs' /\ funs'[k] = funs[k]
  <2>1. k \in DOMAIN funs BY DEF Walked
  <2> QED BY <2>1 DEF Rewrite
<1> QED BY <1>1, <1>2, OthersStay

LEMMA StepWalks ==
    ASSUME AnnotatorInv, AnnotatorInv', [Next]_vars,
           NEW k, NEW s, Started(s), Walked(funs, fn, bb, pos, k, s)
    PROVE  Walked(funs', fn', bb', pos', k, s)
<1>0. k \in DOMAIN funs BY DEF Walked
<1>1. CASE AnnotateAlloca
  <2>1. CASE k = fn BY <1>1, <2>1, AllocaWalks
  <2>2. CASE k # fn BY <1>1, <2>2, RewriteOthers DEF AnnotateAlloca
  <2> QED BY <2>1, <2>2
<1>2. CASE AnnotateMalloc
  <2>1. CASE k = fn BY <1>2, <2>1, MallocWalks
  <2>2. CASE k # fn BY <1>2, <2>2, RewriteOthers DEF AnnotateMalloc
  <2> QED BY <2>1, <2>2
<1>3. CASE AnnotateFree
  <2>1. CASE k = fn BY <1>3, <2>1, FreeWalks
  <2>2. CASE k # fn BY <1>3, <2>2, RewriteOthers DEF AnnotateFree
  <2> QED BY <2>1, <2>2
<1>4. CASE AnnotateStackSave
  <2>1. CASE k = fn BY <1>4, <2>1, StackSaveWalks
  <2>2. CASE k # fn BY <1>4, <2>2, RewriteOthers DEF AnnotateStackSave
  <2> QED BY <2>1, <2>2
<1>5. CASE AnnotateStackRestore
  <2>1. CASE k = fn BY <1>5, <2>1, StackRestoreWalks
  <2>2. CASE k # fn BY <1>5, <2>2, RewriteOthers DEF AnnotateStackRestore
  <2> QED BY <2>1, <2>2
<1>6. CASE AnnotateLoad
  <2>1. CASE k = fn BY <1>6, <2>1, LoadWalks
  <2>2. CASE k # fn BY <1>6, <2>2, RewriteOthers DEF AnnotateLoad
  <2> QED BY <2>1, <2>2
<1>7. CASE AnnotateStore
  <2>1. CASE k = fn BY <1>7, <2>1, StoreWalks
  <2>2. CASE k # fn BY <1>7, <2>2, RewriteOthers DEF AnnotateStore
  <2> QED BY <2>1, <2>2
<1>8. CASE PassOver
  <2>1. CASE k = fn BY <1>8, <2>1, PassOverWalks
  <2>2. CASE k # fn BY <1>0, <1>8, <2>2, OthersStay DEF PassOver
  <2> QED BY <2>1, <2>2
<1>9. CASE EndBlock
  <2>1. CASE k = fn BY <1>9, <2>1, EndBlockWalks
  <2>2. CASE k # fn BY <1>0, <1>9, <2>2, OthersStay DEF EndBlock
  <2> QED BY <2>1, <2>2
<1>10. CASE EndFunction BY <1>0, <1>10, EndFunctionWalks
<1>11. CASE EnterFunction
  <2>1. CASE k = fn BY <1>11, <2>1, EnterFunctionWalks
  <2>2. CASE k # fn
    <3>1. k \in DOMAIN funs' /\ funs'[k] = funs[k] BY <1>0, <1>11, EnterKeepsFunctions
    <3> QED BY <1>11, <2>2, <3>1, OthersStay DEF EnterFunction
  <2> QED BY <2>1, <2>2
<1>12. CASE UNCHANGED vars BY <1>12 DEF vars
<1> QED BY <1>1, <1>2, <1>3, <1>4, <1>5, <1>6, <1>7, <1>8, <1>9, <1>10, <1>11, <1>12 DEF Next

-----------------------------------------------------------------------------
(* What the program, and the copy of main, should report                   *)

LEMMA ExpectedFacts ==
    ASSUME NEW r, NEW A \in Seq(Insts), NEW i \in Insts
    PROVE  ExpectedOf(A \o <<i>>, r) = ExpectedOf(A, r) \o Expected(i, r)
<1> DEFINE R == [j \in Insts |-> Expected(j, r)]
           S == UNION {Range(Expected(j, r)) : j \in Insts}
           one == <<i>>
<1>1. ASSUME NEW j \in Insts PROVE Expected(j, r) \in Seq(S)
  <2> DEFINE e == Expected(j, r)
  <2>1. (\E x : e = <<x>>) \/ (\E x, y : e = <<x, y>>) BY DEF Expected
  <2>2. Range(e) \subseteq S OBVIOUS
  <2> HIDE DEF e, S
  <2>3. e \in Seq(Range(e)) BY <2>1, OneWord, TwoWord
  <2>4. e \in Seq(S) BY <2>2, <2>3, SeqMonotonic
  <2> QED BY <2>4 DEF e
<1> HIDE DEF S
<1>2. R \in [Insts -> Seq(S)] BY <1>1
<1>3. R[i] = Expected(i, r) OBVIOUS
<1>4. \A B \in Seq(Insts) : ExpectedOf(B, r) = FlattenSeq(WordsOf(R, B))
  <2> SUFFICES ASSUME NEW B \in Seq(Insts) PROVE ExpectedOf(B, r) = FlattenSeq(WordsOf(R, B))
    OBVIOUS
  <2>1. \A n \in DOMAIN B : B[n] \in Insts BY LenProperties, ElementOfSeq
  <2>2. \A n \in DOMAIN B : R[B[n]] = Expected(B[n], r) BY <2>1
  <2> HIDE DEF R
  <2>3. WordsOf(R, B) = [n \in DOMAIN B |-> Expected(B[n], r)] BY <2>2 DEF WordsOf
  <2> QED BY <2>3 DEF ExpectedOf
<1> HIDE DEF R
<1>5. one \in Seq(Insts) /\ A \o one \in Seq(Insts) BY ConcatProperties
<1>6. FlattenSeq(WordsOf(R, one)) = R[i] BY <1>2, WordOfOne
<1> HIDE DEF one
<1>7. FlattenSeq(WordsOf(R, A \o one)) = FlattenSeq(WordsOf(R, A)) \o FlattenSeq(WordsOf(R, one))
  BY <1>2, <1>5, WordsConcat
<1> QED BY <1>3, <1>4, <1>5, <1>6, <1>7 DEF one

(* Only what a return should report depends on the number of results.      *)
LEMMA ResultsMatter ==
    ASSUME NEW i, NEW r, NEW t, i.op # "ret"
    PROVE  Expected(i, r) = Expected(i, t)
<1>1. CASE i.op \in Tracked BY <1>1 DEF Tracked, Allocations, Expected
<1>2. CASE i.op \notin Tracked
  <2>1. /\ i.op # "alloca" /\ i.op # "malloc" /\ i.op # "free" /\ i.op # "stacksave"
        /\ i.op # "stackrestore" /\ i.op # "load" /\ i.op # "store"
    BY <1>2 DEF Tracked, Allocations
  <2> DEFINE e == <<Event(i.op, <<i.id>>)>>
  <2>2. Expected(i, r) = e BY <2>1 DEF Expected
  <2>3. Expected(i, t) = e BY <2>1 DEF Expected
  <2> QED BY <2>2, <2>3
<1> QED BY <1>1, <1>2

(* The operands of a return.                                               *)
LEMMA ReturnFacts ==
    ASSUME NEW i \in Insts, NEW n, Fits(i, n), i.op = "ret"
    PROVE  1 \in DOMAIN i.args /\ i.args[1] \in Int /\ i.args[1] <= n
<1>1. Arity("ret") = 1 BY DEF Arity
<1>2. i.args \in Seq(Int) BY DEF Insts
<1>3. 1 \in DOMAIN i.args BY <1>1, <1>2, LenProperties DEF Fits
<1> QED BY <1>2, <1>3, LenProperties, ElementOfSeq DEF Fits

(* The program has instructions of its own only, returned values included. *)
LEMMA ProgramAwaits ==
    ASSUME NEW f, WellFormed(f), NEW i \in InstsOf(f)
    PROVE  Awaited(f, i) = Expected(i, 1)
<1>1. \A j \in InstsOf(f) : j.op \notin Pairings BY DEF WellFormed, Inserted, Pairings
<1>2. CASE i.op # "ret" BY <1>1, <1>2 DEF Awaited
<1>3. CASE i.op = "ret"
  <2> DEFINE p == i.args[1]
             w == <<Event("ret", <<p>>)>>
  <2>1. By(f, p, Pairings) = {} BY <1>1 DEF By
  <2>2. Returned(f, p) = <<p>> BY <2>1 DEF Returned
  <2>3. Awaited(f, i) = <<Event("ret", Returned(f, p))>> BY <1>1, <1>3 DEF Awaited
  <2>4. Expected(i, 1) = <<Event("ret", [k \in 1 .. 1 |-> p])>> BY <1>3 DEF Expected
  <2> HIDE DEF p
  <2>5. [k \in 1 .. 1 |-> p] = <<p>> OBVIOUS
  <2> QED BY <2>2, <2>3, <2>4, <2>5
<1> QED BY <1>2, <1>3

LEMMA ProgramAwaited ==
    ASSUME NEW f, WellFormed(f), NEW b \in DOMAIN f.blocks
    PROVE  AwaitedOf(f, f.blocks[b]) = ExpectedOf(f.blocks[b], 1)
<1> DEFINE B == f.blocks[b]
<1>1. \A n \in DOMAIN B : B[n] \in InstsOf(f) BY DEF InstsOf, Range
<1>2. \A n \in DOMAIN B : Awaited(f, B[n]) = Expected(B[n], 1) BY <1>1, ProgramAwaits
<1> HIDE DEF B
<1>3. [n \in DOMAIN B |-> Awaited(f, B[n])] = [n \in DOMAIN B |-> Expected(B[n], 1)] BY <1>2
<1>4. AwaitedOf(f, B) = ExpectedOf(B, 1) BY <1>3 DEF AwaitedOf, ExpectedOf
<1> QED BY <1>4 DEF B

LEMMA ProgramStarted ==
    ASSUME NEW f, WellFormed(f)
    PROVE  Started(f)
BY ProgramGood DEF WellFormed, Started, Inserted

(* The end of a block that returns a pair.                                 *)
HalfPair(c, v) == Instr(c + 1, "insertvalue", <<Constant, v>>, "none", "none")
WholePair(c, v) == Instr(c + 2, "insertvalue", <<c + 1, v>>, "none", "none")
PairBack(c, ret) == [ret EXCEPT !.args = <<c + 2>>]

LEMMA LastApart ==
    ASSUME NEW block \in Seq(Insts), block # <<>>
    PROVE  /\ Front(block) \in Seq(Insts) /\ Last(block) \in Insts
           /\ block = Then(Front(block), Last(block))
           /\ Last(block) \in Range(block) /\ Range(Front(block)) \subseteq Range(block)
           /\ Len(Front(block)) = Len(block) - 1 /\ Len(block) \in Nat \ {0}
           /\ \A p \in 1 .. Len(Front(block)) : Front(block)[p] = block[p]
<1> DEFINE L == Len(block)
           F == Front(block)
           T == Then(F, Last(block))
<1>1. /\ L \in Nat \ {0} /\ DOMAIN block = 1 .. L /\ L \in DOMAIN block
      /\ \A p \in 1 .. L : block[p] \in Insts
  BY LenProperties, ElementOfSeq, EmptySeq
<1>2. F \in Seq(Insts) /\ Len(F) = L - 1 /\ \A p \in 1 .. L - 1 : F[p] = block[p]
  <2> DEFINE sub == SubSeq(block, 1, L - 1)
  <2>1. \A p \in 1 .. L - 1 : block[p] \in Insts BY <1>1
  <2>2. /\ sub \in Seq(Insts)
        /\ Len(sub) = IF 1 <= L - 1 THEN L - 1 - 1 + 1 ELSE 0
        /\ \A p \in 1 .. L - 1 - 1 + 1 : sub[p] = block[1 + p - 1]
    BY <1>1, <2>1, SubSeqProperties
  <2>3. F = sub BY DEF Front
  <2> HIDE DEF sub, F, L
  <2> QED BY <1>1, <2>2, <2>3
<1>3. Last(block) = block[L] /\ Last(block) \in Insts
  <2>1. L \in 1 .. L BY <1>1
  <2>2. block[L] \in Insts BY <1>1, <2>1
  <2>3. Last(block) = block[L] BY DEF Last
  <2> QED BY <2>2, <2>3
<1> HIDE DEF F
<1>4. /\ T \in Seq(Insts) /\ Len(T) = Len(F) + 1 /\ T[Len(F) + 1] = Last(block)
      /\ \A p \in 1 .. Len(F) : T[p] = F[p]
  BY <1>2, <1>3, ThenFacts
<1> HIDE DEF T, L
<1>5. block = T
  <2>1. Len(T) = L BY <1>1, <1>2, <1>4
  <2>2. ASSUME NEW p \in 1 .. L PROVE T[p] = block[p]
    <3>1. p \in 1 .. L - 1 \/ p = L BY <1>1
    <3> QED BY <1>1, <1>2, <1>3, <1>4, <3>1
  <2> QED BY <1>4, <2>1, <2>2, SeqEqual DEF L
<1>6. Last(block) \in Range(block) BY <1>1, <1>3 DEF Range
<1>7. Range(F) \subseteq Range(block)
  <2>1. DOMAIN F = 1 .. L - 1 BY <1>2, LenProperties
  <2>2. \A p \in 1 .. L - 1 : p \in DOMAIN block BY <1>1
  <2> QED BY <1>2, <2>1, <2>2 DEF Range
<1> QED BY <1>1, <1>2, <1>3, <1>5, <1>6, <1>7 DEF F, T, L

LEMMA ThreeThen ==
    ASSUME NEW F \in Seq(Insts), NEW x \in Insts, NEW y \in Insts, NEW z \in Insts
    PROVE  F \o <<x, y, z>> = Then(Then(Then(F, x), y), z)
<1> DEFINE L == Len(F)
           three == <<x, y, z>>
           T == Then(F, x)
           U == Then(T, y)
           V == Then(U, z)
           new == F \o three
<1>1. L \in Nat BY LenProperties
<1>2. /\ three \in Seq(Insts) /\ Len(three) = 3
      /\ three[1] = x /\ three[2] = y /\ three[3] = z
  OBVIOUS
<1> HIDE DEF three, L
<1>3. /\ T \in Seq(Insts) /\ Len(T) = L + 1 /\ T[L + 1] = x /\ \A p \in 1 .. L : T[p] = F[p]
  BY ThenFacts DEF L
<1> HIDE DEF T
<1>4. /\ U \in Seq(Insts) /\ Len(U) = (L + 1) + 1 /\ U[(L + 1) + 1] = y
      /\ \A p \in 1 .. L + 1 : U[p] = T[p]
  <2>1. /\ U \in Seq(Insts) /\ Len(U) = Len(T) + 1 /\ U[Len(T) + 1] = y
        /\ \A p \in 1 .. Len(T) : U[p] = T[p]
    BY <1>3, ThenFacts
  <2> HIDE DEF U
  <2> QED BY <1>3, <2>1
<1> HIDE DEF U
<1>5. /\ V \in Seq(Insts) /\ Len(V) = ((L + 1) + 1) + 1 /\ V[((L + 1) + 1) + 1] = z
      /\ \A p \in 1 .. (L + 1) + 1 : V[p] = U[p]
  <2>1. /\ V \in Seq(Insts) /\ Len(V) = Len(U) + 1 /\ V[Len(U) + 1] = z
        /\ \A p \in 1 .. Len(U) : V[p] = U[p]
    BY <1>4, ThenFacts
  <2> HIDE DEF V
  <2> QED BY <1>4, <2>1
<1> HIDE DEF V
<1>6. /\ new \in Seq(Insts) /\ Len(new) = L + 3
      /\ \A p \in 1 .. L + 3 : new[p] = IF p <= L THEN F[p] ELSE three[p - L]
  <2>1. /\ F \o three \in Seq(Insts) /\ Len(F \o three) = Len(F) + Len(three)
        /\ \A p \in 1 .. Len(F) + Len(three) :
              (F \o three)[p] = IF p <= Len(F) THEN F[p] ELSE three[p - Len(F)]
    BY <1>2, ConcatProperties
  <2>2. Len(F) + Len(three) = L + 3 BY <1>2 DEF L
  <2> QED BY <2>1, <2>2 DEF L
<1> HIDE DEF new
<1>7. ASSUME NEW p \in 1 .. L + 3 PROVE V[p] = new[p]
  <2>1. p \in Nat /\ p <= L + 3 BY <1>1
  <2>2. CASE p <= L
    <3>1. p \in 1 .. L /\ p \in 1 .. L + 1 /\ p \in 1 .. (L + 1) + 1 BY <1>1, <2>1, <2>2
    <3> QED BY <1>3, <1>4, <1>5, <1>6, <2>2, <3>1
  <2>3. CASE p = L + 1
    <3>1. p \in 1 .. L + 1 /\ p \in 1 .. (L + 1) + 1 /\ ~(p <= L) /\ p - L = 1
      BY <1>1, <2>3
    <3> QED BY <1>2, <1>3, <1>4, <1>5, <1>6, <2>3, <3>1
  <2>4. CASE p = L + 2
    <3>1. p \in 1 .. (L + 1) + 1 /\ p = (L + 1) + 1 /\ ~(p <= L) /\ p - L = 2 BY <1>1, <2>4
    <3> QED BY <1>2, <1>4, <1>5, <1>6, <3>1
  <2>5. CASE p = L + 3
    <3>1. p = ((L + 1) + 1) + 1 /\ ~(p <= L) /\ p - L = 3 BY <1>1, <2>5
    <3> QED BY <1>2, <1>5, <1>6, <3>1
  <2> QED BY <1>1, <2>1, <2>2, <2>3, <2>4, <2>5
<1>8. Len(V) = Len(new) BY <1>1, <1>5, <1>6
<1>9. V = new BY <1>5, <1>6, <1>7, <1>8, SeqEqual
<1> QED BY <1>9 DEF V, U, T, new, three

LEMMA PairedAs ==
    ASSUME NEW c \in Nat, NEW block, GoodBlock(block, c), Last(block).op = "ret"
    PROVE  LET v == Last(block).args[1]
               x == HalfPair(c, v)
               y == WholePair(c, v)
               z == PairBack(c, Last(block))
           IN  /\ x \in Insts /\ x.id = c + 1 /\ x.op \in Pairings /\ x.args[2] = v
               /\ y \in Insts /\ y.id = c + 2 /\ y.op \in Pairings
               /\ y.args[1] = c + 1 /\ y.args[2] = v
               /\ z \in Insts /\ z.op = "ret" /\ z.args[1] = c + 2
               /\ PairedReturn(block, c) = Then(Then(Then(Front(block), x), y), z)
<1> DEFINE ret == Last(block)
           v == ret.args[1]
           x == HalfPair(c, v)
           y == WholePair(c, v)
           z == PairBack(c, ret)
<1>1. Front(block) \in Seq(Insts) /\ ret \in Insts /\ ret \in Range(block)
  BY LastApart DEF GoodBlock
<1>2. Fits(ret, c) BY <1>1 DEF GoodBlock, Range
<1>3. v \in Int /\ v <= c BY <1>1, <1>2, ReturnFacts
<1>4. PairedReturn(block, c) = Front(block) \o <<x, y, z>>
  BY DEF PairedReturn, HalfPair, WholePair, PairBack
<1> HIDE DEF v
<1>5. /\ c + 1 \in Nat \ {0} /\ c + 2 \in Nat \ {0} /\ v <= c + 1 /\ v <= c + 2
      /\ c + 1 <= c + 2 /\ c + 1 \in Int
      /\ Constant \in Int /\ Constant <= c + 1
  BY <1>3 DEF Constant
<1>6. /\ x \in Insts /\ x.id = c + 1 /\ x.args = <<Constant, v>>
      /\ y \in Insts /\ y.id = c + 2 /\ y.args = <<c + 1, v>>
  BY <1>3, <1>5, InsertvalueFits DEF HalfPair, WholePair
<1>7. x.op \in Pairings /\ y.op \in Pairings BY DEF HalfPair, WholePair, Instr, Pairings
<1>8. x.args[2] = v /\ y.args[1] = c + 1 /\ y.args[2] = v BY <1>6
<1>9. z \in Insts /\ z.op = "ret" /\ z.args[1] = c + 2
  <2> DEFINE arg == <<c + 2>>
  <2>1. arg \in Seq(Int) /\ arg[1] = c + 2 OBVIOUS
  <2>2. z = [ret EXCEPT !.args = arg] BY DEF PairBack
  <2> HIDE DEF arg, z
  <2>3. z \in Insts BY <1>1, <2>1, <2>2 DEF Insts
  <2>4. z.op = "ret" /\ z.args = arg BY <1>1, <2>2 DEF Insts
  <2> QED BY <2>1, <2>3, <2>4
<1> HIDE DEF x, y, z
<1>10. PairedReturn(block, c) = Then(Then(Then(Front(block), x), y), z)
  BY <1>1, <1>4, <1>6, <1>9, ThreeThen
<1> QED BY <1>6, <1>7, <1>8, <1>9, <1>10 DEF x, y, z, v

(* What comes back from a function with such a pair.                       *)
LEMMA PairReturned ==
    ASSUME NEW g, GoodFunction(g), NEW n, NEW m, NEW v,
           NEW x \in InstsOf(g), x.id = m, x.op \in Pairings, x.args[2] = v,
           NEW y \in InstsOf(g), y.id = n, y.op \in Pairings, y.args[1] = m, y.args[2] = v
    PROVE  Returned(g, n) = <<v, v>>
<1>1. By(g, n, Pairings) = {y} BY InstGood DEF By
<1>2. By(g, m, Pairings) = {x} BY InstGood DEF By
<1>3. \A a \in 1 .. 2 : OperandOf(g, n, Pairings, a) = y.args[a] BY <1>1 DEF OperandOf
<1>4. OperandOf(g, m, Pairings, 2) = x.args[2] BY <1>2 DEF OperandOf
<1>5. OperandOf(g, n, Pairings, 1) = m /\ OperandOf(g, n, Pairings, 2) = v BY <1>3
<1>6. PutTogether(g, n) = <<v>> BY <1>1, <1>5 DEF PutTogether
<1>7. PutTogether(g, m) = <<v>> BY <1>2, <1>4 DEF PutTogether
<1>8. Returned(g, n) = PutTogether(g, m) \o PutTogether(g, n) BY <1>1, <1>5 DEF Returned
<1>9. <<v>> \o <<v>> = <<v, v>>
  <2> DEFINE none == <<>>
             one == <<v>>
             two == <<v, v>>
  <2>1. none \in Seq({v}) BY EmptySeq
  <2>2. one \in Seq({v}) /\ two \in Seq({v}) OBVIOUS
  <2>3. none \o one = one /\ none \o two = two
    <3> HIDE DEF one, two
    <3> QED BY <2>2, ConcatEmptySeq
  <2> HIDE DEF none
  <2>4. (none \o <<v>>) \o <<v>> = none \o <<v, v>> BY <2>1, TwoSaid
  <2> QED BY <2>3, <2>4
<1> QED BY <1>6, <1>7, <1>8, <1>9

(* A block of the copy, from the block it is copied from.                  *)
LEMMA CopiedBlock ==
    ASSUME NEW f, WellFormed(f), NEW b \in DOMAIN f.blocks
    PROVE  LET c == f.ids + 2 * (b - 1)
               B == f.blocks[b]
           IN  /\ c \in Nat /\ GoodBlock(B, c) /\ B \in Seq(Insts) /\ B # <<>>
               /\ DOMAIN CloneFunction(f).blocks = DOMAIN f.blocks
               /\ CloneFunction(f).blocks[b] =
                     IF Last(B).op = "ret" THEN PairedReturn(B, c) ELSE B
<1> DEFINE c == f.ids + 2 * (b - 1)
           B == f.blocks[b]
           N == Len(f.blocks)
<1>1. GoodFunction(f) BY ProgramGood
<1>2. f.ids \in Nat /\ N \in Nat /\ DOMAIN f.blocks = 1 .. N
  BY <1>1, LenProperties DEF GoodFunction, AnyFunction
<1>3. GoodBlock(B, f.ids) BY <1>1 DEF GoodFunction
<1>4. c \in Nat /\ f.ids <= c
  <2> DEFINE ids == f.ids
  <2>1. b \in Nat /\ 1 <= b /\ ids \in Nat BY <1>2
  <2> HIDE DEF ids
  <2>2. ids + 2 * (b - 1) \in Nat /\ ids <= ids + 2 * (b - 1) BY <2>1
  <2> QED BY <2>2 DEF ids
<1>5. /\ DOMAIN CloneFunction(f).blocks = DOMAIN f.blocks
      /\ CloneFunction(f).blocks[b] = IF Last(B).op = "ret" THEN PairedReturn(B, c) ELSE B
  BY DEF CloneFunction
<1> HIDE DEF c
<1>6. GoodBlock(B, c) BY <1>2, <1>3, <1>4, GoodBlockLarger
<1>7. B \in Seq(Insts) /\ B # <<>> BY <1>3 DEF GoodBlock
<1> QED BY <1>4, <1>5, <1>6, <1>7 DEF c

LEMMA CloneStarted ==
    ASSUME NEW f, WellFormed(f), f.name = "main"
    PROVE  Started(CloneFunction(f))
<1> DEFINE g == CloneFunction(f)
<1>1. GoodFunction(g) BY ProgramGood, CloneGood
<1>2. ASSUME NEW i \in InstsOf(g) PROVE i.op \notin {"cast", "gep", "track"}
  <2>1. \E b \in DOMAIN g.blocks : i \in Range(g.blocks[b]) BY DEF InstsOf
  <2>2. PICK b \in DOMAIN g.blocks : i \in Range(g.blocks[b]) BY <2>1
  <2> DEFINE c == f.ids + 2 * (b - 1)
             B == f.blocks[b]
  <2>3. b \in DOMAIN f.blocks BY DEF CloneFunction
  <2>4. /\ c \in Nat /\ GoodBlock(B, c) /\ B \in Seq(Insts) /\ B # <<>>
        /\ g.blocks[b] = IF Last(B).op = "ret" THEN PairedReturn(B, c) ELSE B
    BY <2>3, CopiedBlock
  <2>5. \A j \in Range(B) : j \in InstsOf(f) BY <2>3 DEF InstsOf
  <2>6. \A j \in Range(B) : j.op \notin {"cast", "gep", "track"}
    BY <2>5 DEF WellFormed, Inserted
  <2>7. CASE Last(B).op # "ret" BY <2>2, <2>4, <2>6, <2>7
  <2>8. CASE Last(B).op = "ret"
    <3> HIDE DEF g, B, c
    <3> DEFINE F == Front(B)
               x == HalfPair(c, Last(B).args[1])
               y == WholePair(c, Last(B).args[1])
               z == PairBack(c, Last(B))
    <3>1. g.blocks[b] = PairedReturn(B, c) BY <2>4, <2>8
    <3>2. /\ x \in Insts /\ x.op \in Pairings /\ y \in Insts /\ y.op \in Pairings
          /\ z \in Insts /\ z.op = "ret"
          /\ PairedReturn(B, c) = Then(Then(Then(F, x), y), z)
      BY <2>4, <2>8, PairedAs
    <3>3. F \in Seq(Insts) /\ Range(F) \subseteq Range(B) BY <2>4, LastApart
    <3> HIDE DEF F, x, y, z
    <3>4. Range(Then(F, x)) = Range(F) \cup {x} /\ Then(F, x) \in Seq(Insts)
      BY <3>2, <3>3, RangeThen
    <3>5. /\ Range(Then(Then(F, x), y)) = Range(Then(F, x)) \cup {y}
          /\ Then(Then(F, x), y) \in Seq(Insts)
      BY <3>2, <3>4, RangeThen
    <3>6. Range(Then(Then(Then(F, x), y), z)) = Range(Then(Then(F, x), y)) \cup {z}
      BY <3>2, <3>5, RangeThen
    <3>7. i \in Range(F) \/ i = x \/ i = y \/ i = z BY <2>2, <3>1, <3>2, <3>4, <3>5, <3>6
    <3> QED BY <2>6, <3>2, <3>3, <3>7 DEF Pairings
  <2> QED BY <2>7, <2>8
<1> QED BY <1>1, <1>2 DEF Started

(* The copy awaits what main awaits, and the result twice.                 *)
LEMMA CloneAwaited ==
    ASSUME NEW f, WellFormed(f), f.name = "main", NEW b \in DOMAIN f.blocks
    PROVE  AwaitedOf(CloneFunction(f), CloneFunction(f).blocks[b]) = ExpectedOf(f.blocks[b], 2)
<1> DEFINE g == CloneFunction(f)
           c == f.ids + 2 * (b - 1)
           B == f.blocks[b]
<1>1. GoodFunction(g) BY ProgramGood, CloneGood
<1>2. /\ c \in Nat /\ GoodBlock(B, c) /\ B \in Seq(Insts) /\ B # <<>>
      /\ b \in DOMAIN g.blocks
      /\ g.blocks[b] = IF Last(B).op = "ret" THEN PairedReturn(B, c) ELSE B
  BY CopiedBlock
<1>3. \A p \in DOMAIN B : B[p] \in InstsOf(f) BY DEF InstsOf, Range
<1>4. \A p \in DOMAIN B : B[p].op \notin Inserted /\ (B[p].op = "ret" => p = Len(B))
  BY <1>3 DEF WellFormed
<1>5. /\ Len(B) \in Nat \ {0} /\ DOMAIN B = 1 .. Len(B) /\ Last(B) = B[Len(B)]
  BY <1>2, LenProperties, EmptySeq DEF Last
<1>6. ASSUME NEW i, i.op # "ret", i.op \notin Inserted PROVE Awaited(g, i) = Expected(i, 2)
  <2>1. i.op \notin Pairings BY <1>6 DEF Inserted, Pairings
  <2>2. Awaited(g, i) = Expected(i, 1) BY <1>6, <2>1 DEF Awaited
  <2> QED BY <1>6, <2>2, ResultsMatter
<1>7. InstsOf(g) = UNION {Range(g.blocks[d]) : d \in DOMAIN g.blocks} BY DEF InstsOf
<1> HIDE DEF g, c, B
<1>8. CASE Last(B).op # "ret"
  <2>1. \A p \in DOMAIN B : B[p].op # "ret" BY <1>4, <1>5, <1>8
  <2>2. \A p \in DOMAIN B : Awaited(g, B[p]) = Expected(B[p], 2) BY <1>4, <1>6, <2>1
  <2>3. [n \in DOMAIN B |-> Awaited(g, B[n])] = [n \in DOMAIN B |-> Expected(B[n], 2)] BY <2>2
  <2>4. AwaitedOf(g, B) = ExpectedOf(B, 2) BY <2>3 DEF AwaitedOf, ExpectedOf
  <2>5. g.blocks[b] = B BY <1>2, <1>8
  <2> QED BY <2>4, <2>5 DEF g, B
<1>9. CASE Last(B).op = "ret"
  <2> DEFINE F == Front(B)
             ret == Last(B)
             v == ret.args[1]
             x == HalfPair(c, v)
             y == WholePair(c, v)
             z == PairBack(c, ret)
             T == Then(F, x)
             U == Then(T, y)
             V == Then(U, z)
  <2>1. /\ x \in Insts /\ x.id = c + 1 /\ x.op \in Pairings /\ x.args[2] = v
        /\ y \in Insts /\ y.id = c + 2 /\ y.op \in Pairings
        /\ y.args[1] = c + 1 /\ y.args[2] = v
        /\ z \in Insts /\ z.op = "ret" /\ z.args[1] = c + 2
        /\ PairedReturn(B, c) = V
    BY <1>2, <1>9, PairedAs
  <2>2. /\ F \in Seq(Insts) /\ ret \in Insts /\ B = F \o <<ret>>
        /\ Len(F) = Len(B) - 1 /\ \A p \in 1 .. Len(F) : F[p] = B[p]
    BY <1>2, LastApart DEF Then
  <2>3. g.blocks[b] = V BY <1>2, <1>9, <2>1
  <2> HIDE DEF F, ret, x, y, z, T, U, V, v
  <2>4. Range(T) = Range(F) \cup {x} /\ T \in Seq(Insts) BY <2>1, <2>2, RangeThen DEF T
  <2>5. Range(U) = Range(T) \cup {y} /\ U \in Seq(Insts) BY <2>1, <2>4, RangeThen DEF U
  <2>6. Range(V) = Range(U) \cup {z} BY <2>1, <2>5, RangeThen DEF V
  <2>7. x \in InstsOf(g) /\ y \in InstsOf(g) BY <1>2, <1>7, <2>3, <2>4, <2>5, <2>6
  <2>8. Returned(g, c + 2) = <<v, v>> BY <1>1, <2>1, <2>7, PairReturned
  <2>9. AwaitedOf(g, F) = ExpectedOf(F, 2)
    <3>1. DOMAIN F = 1 .. Len(B) - 1 BY <2>2, LenProperties
    <3>2. \A p \in DOMAIN F : F[p].op # "ret" /\ F[p].op \notin Inserted
      <4> SUFFICES ASSUME NEW p \in DOMAIN F PROVE F[p].op # "ret" /\ F[p].op \notin Inserted
        OBVIOUS
      <4>1. p \in DOMAIN B /\ p # Len(B) /\ p \in 1 .. Len(F) BY <1>5, <2>2, <3>1
      <4> QED BY <1>4, <2>2, <4>1
    <3>3. \A p \in DOMAIN F : Awaited(g, F[p]) = Expected(F[p], 2) BY <1>6, <3>2
    <3>4. [n \in DOMAIN F |-> Awaited(g, F[n])] = [n \in DOMAIN F |-> Expected(F[n], 2)] BY <3>3
    <3> QED BY <3>4 DEF AwaitedOf, ExpectedOf
  <2>10. Awaited(g, x) = <<>> /\ Awaited(g, y) = <<>>
    <3>1. \A i : i.op \in Pairings => Awaited(g, i) = <<>>
      <4> SUFFICES ASSUME NEW i, i.op \in Pairings PROVE Awaited(g, i) = <<>> OBVIOUS
      <4>1. i.op # "ret" BY DEF Pairings
      <4> QED BY <4>1 DEF Awaited
    <3> QED BY <2>1, <3>1
  <2>11. Awaited(g, z) = Expected(ret, 2)
    <3> DEFINE r == Returned(g, c + 2)
    <3>1. z.op \notin Pairings BY <2>1 DEF Pairings
    <3>2. Awaited(g, z) = <<Event("ret", Returned(g, z.args[1]))>> BY <2>1, <3>1 DEF Awaited
    <3>3. Awaited(g, z) = <<Event("ret", r)>> BY <2>1, <3>2
    <3>4. Expected(ret, 2) = <<Event("ret", [k \in 1 .. 2 |-> v])>> BY <1>9 DEF Expected, ret, v
    <3>5. [k \in 1 .. 2 |-> v] = <<v, v>> OBVIOUS
    <3> HIDE DEF r
    <3>6. r = <<v, v>> BY <2>8 DEF r
    <3> QED BY <3>3, <3>4, <3>5, <3>6
  <2>12. AwaitedOf(g, T) = AwaitedOf(g, F) \o Awaited(g, x)
    BY <2>1, <2>2, AwaitedFacts DEF T, Then
  <2>13. AwaitedOf(g, U) = AwaitedOf(g, T) \o Awaited(g, y)
    BY <2>1, <2>4, AwaitedFacts DEF U, Then
  <2>14. AwaitedOf(g, V) = AwaitedOf(g, U) \o Awaited(g, z)
    BY <2>1, <2>5, AwaitedFacts DEF V, Then
  <2>15. AwaitedOf(g, F) \in Seq(EventsAwaited(g)) BY <2>1, <2>2, AwaitedFacts
  <2> DEFINE w == AwaitedOf(g, F)
             none == <<>>
  <2>16. w \o none = w
    <3> HIDE DEF w
    <3> QED BY <2>15, ConcatEmptySeq DEF w
  <2>17. AwaitedOf(g, V) = w \o Awaited(g, z)
    <3> HIDE DEF w
    <3>1. Awaited(g, x) = none /\ Awaited(g, y) = none BY <2>10
    <3> HIDE DEF none
    <3>2. AwaitedOf(g, T) = w BY <2>12, <2>16, <3>1 DEF w
    <3>3. AwaitedOf(g, U) = w BY <2>13, <2>16, <3>1, <3>2
    <3> QED BY <2>14, <3>3
  <2>18. ExpectedOf(F \o <<ret>>, 2) = ExpectedOf(F, 2) \o Expected(ret, 2)
    BY <2>2, ExpectedFacts
  <2>19. AwaitedOf(g, V) = ExpectedOf(B, 2) BY <2>2, <2>9, <2>11, <2>17, <2>18
  <2> QED BY <2>3, <2>19 DEF g, B
<1> QED BY <1>8, <1>9

-----------------------------------------------------------------------------
(* The walk over the module                                                *)

LEMMA RewriteNames ==
    ASSUME AnnotatorInv, AtInst, NEW block, Rewrite(block)
    PROVE  /\ DOMAIN funs' = DOMAIN funs
           /\ \A k \in DOMAIN funs : funs'[k].name = funs[k].name
           /\ mod' = mod /\ fn' = fn /\ bb' = bb
<1>1. fn \in DOMAIN funs /\ Self \in AnyFunction
  BY InstFacts, FunctionFacts DEF AtInst, InBlock, GoodFunction
<1> DEFINE blocks == [Self.blocks EXCEPT ![bb] = block]
           self == [Self EXCEPT !.blocks = blocks, !.ids = Self.ids + 3]
<1>2. self.name = Self.name BY <1>1 DEF AnyFunction
<1>3. funs' = [funs EXCEPT ![fn] = self] BY <1>1 DEF Rewrite, Self
<1> HIDE DEF self
<1>4. /\ DOMAIN funs' = DOMAIN funs /\ funs'[fn] = self
      /\ \A k \in DOMAIN funs : k # fn => funs'[k] = funs[k]
  BY <1>1, <1>3
<1>5. mod' = mod /\ fn' = fn /\ bb' = bb BY DEF Rewrite
<1> QED BY <1>2, <1>4, <1>5 DEF Self

(* What the steps at an instruction have in common.                        *)
LEMMA InstSteps ==
    ASSUME Next
    PROVE  \/ EnterFunction \/ EndBlock \/ EndFunction \/ PassOver
           \/ AtInst /\ \E block : Rewrite(block)
<1>1. ASSUME AnnotateAlloca PROVE AtInst /\ \E block : Rewrite(block)
  BY <1>1 DEF AnnotateAlloca
<1>2. ASSUME AnnotateMalloc PROVE AtInst /\ \E block : Rewrite(block)
  BY <1>2 DEF AnnotateMalloc
<1>3. ASSUME AnnotateFree PROVE AtInst /\ \E block : Rewrite(block) BY <1>3 DEF AnnotateFree
<1>4. ASSUME AnnotateStackSave PROVE AtInst /\ \E block : Rewrite(block)
  BY <1>4 DEF AnnotateStackSave
<1>5. ASSUME AnnotateStackRestore PROVE AtInst /\ \E block : Rewrite(block)
  BY <1>5 DEF AnnotateStackRestore
<1>6. ASSUME AnnotateLoad PROVE AtInst /\ \E block : Rewrite(block) BY <1>6 DEF AnnotateLoad
<1>7. ASSUME AnnotateStore PROVE AtInst /\ \E block : Rewrite(block)
  BY <1>7 DEF AnnotateStore
<1> QED BY <1>1, <1>2, <1>3, <1>4, <1>5, <1>6, <1>7 DEF Next

LEMMA NamesStay ==
    ASSUME AnnotatorInv, [Next]_vars
    PROVE  /\ \A k \in DOMAIN funs : k \in DOMAIN funs' /\ funs'[k].name = funs[k].name
           /\ mod' = mod
           /\ (fn' = fn /\ bb' = bb) \/ EnterFunction \/ EndBlock \/ EndFunction
<1>1. CASE EnterFunction BY <1>1, EnterKeepsFunctions DEF EnterFunction
<1>2. CASE EndBlock BY <1>2 DEF EndBlock
<1>3. CASE EndFunction BY <1>3 DEF EndFunction
<1>4. CASE PassOver BY <1>4 DEF PassOver
<1>5. CASE AtInst /\ \E block : Rewrite(block) BY <1>5, RewriteNames
<1>6. CASE UNCHANGED vars BY <1>6 DEF vars
<1> QED BY <1>1, <1>2, <1>3, <1>4, <1>5, <1>6, InstSteps

(* The copy of function f is where the walk will meet it, or has met it.   *)
Copied(f) ==
    \E c \in DOMAIN funs \ DOMAIN mod :
        /\ funs[c].name = mod[f].name \o "_clone"
        /\ Walked(funs, fn, bb, pos, c, CloneFunction(mod[f]))

Entered(n, b, f) == f < n \/ (f = n /\ b >= 1)

CompleteInv ==
    /\ mod \in Modules
    /\ \A f \in DOMAIN mod :
          /\ Walked(funs, fn, bb, pos, f, mod[f])
          /\ mod[f].name = "main" /\ Entered(fn, bb, f) => Copied(f)

LEMMA ProgramFacts ==
    ASSUME mod \in Modules, NEW f \in DOMAIN mod
    PROVE  /\ WellFormed(mod[f]) /\ Started(mod[f]) /\ f \in Nat /\ f >= 1 /\ f <= Len(mod)
           /\ mod \in Seq(Functions) /\ Len(mod) \in Nat
<1>1. mod \in Seq(Functions) /\ WellFormed(mod[f]) BY ModulesAssumption
<1>2. f \in 1 .. Len(mod) /\ Len(mod) \in Nat BY <1>1, LenProperties
<1> QED BY <1>1, <1>2, ProgramStarted

LEMMA InitFunctions ==
    ASSUME Init, mod \in Seq(Functions), NEW f \in Nat, f >= 1, f <= Len(mod)
    PROVE  f \in DOMAIN funs /\ funs[f] = mod[f]
<1> DEFINE decls == [n \in DOMAIN TrackerNames |-> Declaration(TrackerNames[n])]
           S == Range(mod) \cup Range(decls)
<1>1. funs = mod \o decls BY DEF Init
<1>2. Len(mod) \in Nat /\ DOMAIN mod = 1 .. Len(mod) BY LenProperties
<1>3. mod \in Seq(S)
  <2>1. \A n \in 1 .. Len(mod) : mod[n] \in S BY <1>2 DEF Range
  <2>2. mod = [n \in 1 .. Len(mod) |-> mod[n]] BY <1>2
  <2> HIDE DEF S
  <2> QED BY <1>2, <2>1, <2>2, SeqDef
<1>4. decls \in Seq(S) /\ Len(decls) \in Nat
  <2>1. DOMAIN decls = 1 .. 7 /\ decls = [n \in 1 .. 7 |-> decls[n]] BY DEF TrackerNames
  <2>2. \A n \in 1 .. 7 : decls[n] \in S
    <3> HIDE DEF decls
    <3> QED BY <2>1 DEF Range
  <2> HIDE DEF decls, S
  <2> QED BY <2>1, <2>2, SeqDef, LenProperties
<1> HIDE DEF decls, S
<1>5. /\ mod \o decls \in Seq(S) /\ Len(mod \o decls) = Len(mod) + Len(decls)
      /\ \A n \in 1 .. Len(mod) + Len(decls) :
            (mod \o decls)[n] = IF n <= Len(mod) THEN mod[n] ELSE decls[n - Len(mod)]
  BY <1>3, <1>4, ConcatProperties
<1>6. f \in 1 .. Len(mod) + Len(decls) BY <1>2, <1>4
<1>7. DOMAIN funs = 1 .. Len(mod) + Len(decls) BY <1>1, <1>5, LenProperties
<1> QED BY <1>1, <1>5, <1>6, <1>7

LEMMA InitComplete == Init => CompleteInv
<1> SUFFICES ASSUME Init PROVE CompleteInv OBVIOUS
<1>1. mod \in Modules /\ fn = 1 /\ bb = 0 BY DEF Init
<1>2. AnnotatorInv BY InitAnnotator
<1> SUFFICES ASSUME NEW f \in DOMAIN mod
             PROVE  Walked(funs, fn, bb, pos, f, mod[f]) /\ ~Entered(fn, bb, f)
  BY <1>1 DEF CompleteInv
<1>3. /\ WellFormed(mod[f]) /\ Started(mod[f]) /\ f \in Nat /\ f >= 1 /\ f <= Len(mod)
      /\ mod \in Seq(Functions) /\ Len(mod) \in Nat
  BY <1>1, ProgramFacts
<1>4. f \in DOMAIN funs /\ funs[f] = mod[f] BY <1>3, InitFunctions
<1>5. fn \in Int /\ (f > fn \/ (f = fn /\ bb = 0)) BY <1>1, <1>3
<1>6. Walked(funs, fn, bb, pos, f, mod[f]) BY <1>3, <1>4, <1>5, FreshWalked
<1>7. ~Entered(fn, bb, f) BY <1>1, <1>3 DEF Entered
<1> QED BY <1>6, <1>7

LEMMA CopyMade ==
    ASSUME AnnotatorInv, CompleteInv, EnterFunction, fn \in DOMAIN mod, mod[fn].name = "main"
    PROVE  \E c \in DOMAIN funs' \ DOMAIN mod :
              /\ funs'[c].name = mod[fn].name \o "_clone"
              /\ Walked(funs', fn', bb', pos', c, CloneFunction(mod[fn]))
<1>1. fn' = fn /\ bb = 0 /\ AtFunction BY DEF EnterFunction
<1>2. WellFormed(mod[fn]) /\ fn \in Nat BY ProgramFacts DEF CompleteInv
<1>3. funs[fn] = mod[fn] BY <1>1 DEF CompleteInv, Walked
<1>4. Self = mod[fn] BY <1>3 DEF Self
<1> DEFINE c == Len(funs) + 1
           g == CloneFunction(mod[fn])
<1>5. c \in DOMAIN funs' \ DOMAIN funs /\ funs'[c] = g /\ c > fn /\ c \in Int
  BY <1>4, EnterKeepsFunctions
<1>6. c \notin DOMAIN mod
  <2>1. \A f \in DOMAIN mod : f \in DOMAIN funs BY DEF CompleteInv, Walked
  <2> QED BY <1>5, <2>1
<1>7. g.name = mod[fn].name \o "_clone" BY DEF CloneFunction
<1>8. Started(g) BY <1>2, CloneStarted
<1> HIDE DEF c, g
<1>9. Walked(funs', fn', bb', pos', c, g)
  <2>1. fn' \in Int /\ c > fn' /\ c \in DOMAIN funs' BY <1>1, <1>2, <1>5
  <2> QED BY <1>5, <1>8, <2>1, FreshWalked
<1>10. funs'[c].name = mod[fn].name \o "_clone" BY <1>5, <1>7
<1> QED BY <1>5, <1>6, <1>9, <1>10 DEF g

LEMMA EnteredBefore ==
    ASSUME AnnotatorInv, [Next]_vars, NEW f \in Nat, Entered(fn', bb', f)
    PROVE  Entered(fn, bb, f) \/ (EnterFunction /\ f = fn)
<1>1. fn \in Nat /\ bb \in Nat BY DEF AnnotatorInv
<1>2. CASE fn' = fn /\ bb' = bb BY <1>2 DEF Entered
<1>3. CASE EnterFunction BY <1>3 DEF EnterFunction, Entered
<1>4. CASE EndBlock
  <2>1. AtFunction /\ bb \in DOMAIN Self.blocks /\ fn' = fn BY <1>4 DEF EndBlock, InBlock
  <2>2. DOMAIN Self.blocks = 1 .. Len(Self.blocks) /\ Len(Self.blocks) \in Nat
    BY <2>1, FunctionFacts
  <2> QED BY <1>1, <2>1, <2>2 DEF Entered
<1>5. CASE EndFunction
  <2>1. AtFunction /\ bb > Len(Self.blocks) /\ fn' = fn + 1 /\ bb' = 0
    BY <1>5 DEF EndFunction
  <2>2. Len(Self.blocks) \in Nat BY <2>1, FunctionFacts
  <2> QED BY <1>1, <2>1, <2>2 DEF Entered
<1> QED BY <1>2, <1>3, <1>4, <1>5, NamesStay

LEMMA CompleteStep ==
    ASSUME AnnotatorInv, AnnotatorInv', CompleteInv, [Next]_vars
    PROVE  CompleteInv'
<1>1. /\ \A k \in DOMAIN funs : k \in DOMAIN funs' /\ funs'[k].name = funs[k].name
      /\ mod' = mod
  BY NamesStay
<1>2. mod \in Modules BY DEF CompleteInv
<1>3. ASSUME NEW f \in DOMAIN mod PROVE Walked(funs', fn', bb', pos', f, mod[f])
  <2>1. Walked(funs, fn, bb, pos, f, mod[f]) /\ Started(mod[f])
    BY <1>2, ProgramFacts DEF CompleteInv
  <2> QED BY <2>1, StepWalks
<1>4. ASSUME NEW f \in DOMAIN mod, mod[f].name = "main", Entered(fn', bb', f)
      PROVE  \E c \in DOMAIN funs' \ DOMAIN mod :
                /\ funs'[c].name = mod[f].name \o "_clone"
                /\ Walked(funs', fn', bb', pos', c, CloneFunction(mod[f]))
  <2>1. WellFormed(mod[f]) /\ f \in Nat BY <1>2, ProgramFacts
  <2>2. CASE Entered(fn, bb, f)
    <3> DEFINE g == CloneFunction(mod[f])
    <3>1. Copied(f) BY <1>4, <2>2 DEF CompleteInv
    <3>2. PICK c \in DOMAIN funs \ DOMAIN mod :
             funs[c].name = mod[f].name \o "_clone" /\ Walked(funs, fn, bb, pos, c, g)
      BY <3>1 DEF Copied
    <3>3. Started(g) BY <1>4, <2>1, CloneStarted
    <3> HIDE DEF g
    <3>4. Walked(funs', fn', bb', pos', c, g) BY <3>2, <3>3, StepWalks
    <3>5. c \in DOMAIN funs' \ DOMAIN mod /\ funs'[c].name = mod[f].name \o "_clone"
      BY <1>1, <3>2
    <3> QED BY <3>4, <3>5 DEF g
  <2>3. CASE EnterFunction /\ f = fn BY <1>4, <2>3, CopyMade
  <2> QED BY <1>4, <2>1, <2>2, <2>3, EnteredBefore
<1> QED BY <1>1, <1>2, <1>3, <1>4 DEF CompleteInv, Copied

LEMMA CompleteTrackers == CompleteInv => TrackersInPlace
<1> SUFFICES ASSUME CompleteInv, NEW f \in DOMAIN mod, NEW b \in DOMAIN mod[f].blocks,
                    Behind(f, b)
             PROVE  Reports(funs[f], funs[f].blocks[b]) = ExpectedOf(mod[f].blocks[b], 1)
  BY DEF TrackersInPlace
<1>1. WellFormed(mod[f]) BY ProgramFacts DEF CompleteInv
<1>2. Past(fn, bb, f, b) BY DEF Past, Behind
<1>3. Reports(funs[f], funs[f].blocks[b]) = AwaitedOf(mod[f], mod[f].blocks[b])
  BY <1>2 DEF CompleteInv, Walked
<1> QED BY <1>1, <1>3, ProgramAwaited

LEMMA CompleteClone == AnnotatorInv /\ CompleteInv => CloneReportsAsMain
<1> SUFFICES ASSUME AnnotatorInv, CompleteInv, Done,
                    NEW f \in DOMAIN mod, mod[f].name = "main"
             PROVE  \E c \in DOMAIN funs \ DOMAIN mod :
                       /\ funs[c].name = mod[f].name \o "_clone"
                       /\ \A b \in DOMAIN mod[f].blocks :
                             Reports(funs[c], funs[c].blocks[b])
                                 = ExpectedOf(mod[f].blocks[b], 2)
  BY DEF CloneReportsAsMain
<1> DEFINE g == CloneFunction(mod[f])
<1>1. WellFormed(mod[f]) BY ProgramFacts DEF CompleteInv
<1>2. \A k \in DOMAIN funs : k < fn
  <2>1. DOMAIN funs = 1 .. Len(funs) /\ Len(funs) \in Nat /\ fn \in 1 .. Len(funs) + 1
    BY LenProperties DEF AnnotatorInv
  <2> QED BY <2>1 DEF Done
<1>3. f \in DOMAIN funs BY DEF CompleteInv, Walked
<1>4. Copied(f) BY <1>2, <1>3 DEF CompleteInv, Entered
<1>5. PICK c \in DOMAIN funs \ DOMAIN mod :
         funs[c].name = mod[f].name \o "_clone" /\ Walked(funs, fn, bb, pos, c, g)
  BY <1>4 DEF Copied
<1>6. ASSUME NEW b \in DOMAIN mod[f].blocks
      PROVE  Reports(funs[c], funs[c].blocks[b]) = ExpectedOf(mod[f].blocks[b], 2)
  <2>1. b \in DOMAIN g.blocks BY DEF CloneFunction
  <2>2. AwaitedOf(g, g.blocks[b]) = ExpectedOf(mod[f].blocks[b], 2) BY <1>1, CloneAwaited
  <2> HIDE DEF g
  <2>3. Past(fn, bb, c, b) BY <1>2, <1>5 DEF Past
  <2>4. Reports(funs[c], funs[c].blocks[b]) = AwaitedOf(g, g.blocks[b])
    BY <1>5, <2>1, <2>3 DEF Walked
  <2> QED BY <2>2, <2>4
<1> QED BY <1>5, <1>6

-----------------------------------------------------------------------------
(***************************************************************************)
(* At every step of the walk, whatever the module: of every function of    *)
(* the program, and of the copy of main once the walk has come to main,    *)
(* the blocks behind the iterators report what they should, the block the  *)
(* iterators are in falls into a part that does and a rest the pass has    *)
(* not touched, and what is in front of them is as it was.                 *)
(***************************************************************************)
THEOREM CompleteInvariant == Spec => []CompleteInv
<1>1. AnnotatorInv /\ AnnotatorInv' /\ CompleteInv /\ [Next]_vars => CompleteInv'
  BY CompleteStep
<1> QED BY InitComplete, AnnotatorInvariant, <1>1, PTL DEF Spec

(***************************************************************************)
(* Behind the iterators of runOnModule every allocation, release, load and *)
(* store has one call of its tracker, on the side the name of the tracker  *)
(* says, with the values of the program, and nothing else has one, however *)
(* the casts and calls inserted before move what the walk meets next.      *)
(***************************************************************************)
THEOREM TrackersComplete == Spec => []TrackersInPlace
BY CompleteInvariant, CompleteTrackers, PTL

(***************************************************************************)
(* When the pass is done, the copy of main, appended while the walk was on *)
(* and met by it at the end, reports what main reports, each event once,   *)
(* and returns the result of main twice, as replaceReturn is to make it.   *)
(***************************************************************************)
THEOREM CloneComplete == Spec => []CloneReportsAsMain
BY AnnotatorInvariant, CompleteInvariant, CompleteClone, PTL
=============================================================================
