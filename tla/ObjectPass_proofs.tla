-------------------------- MODULE ObjectPass_proofs --------------------------
(***************************************************************************)
(* Proofs about ObjectPass and ModuleRun, for modules of every size: types *)
(* and that the worklist loses no change; then, for modules without        *)
(* recursion, that local is true of every execution.                       *)
(***************************************************************************)
EXTENDS ModuleRun, SequenceTheorems, FiniteSetTheorems, TLAPS

(* Functions with a body, and the values that have a name in them.         *)
Bodies(m) == {f \in FunsOf(m) : Fun(m, f).blocks # <<>>}
Named(m, f) == GlobalsOf(m) \cup ArgsOf(m, f) \cup PositionsOf(m, f)

(* The facts within f, and its activations.                                *)
FactsOf(m, f) ==
    [bound : SUBSET Named(m, f), exact : SUBSET Named(m, f), bounds : [ValuesOf(m, f) -> Words]]

ActivationsOf(m, f) ==
    [fun       : {f},
     args      : Attributes(Len(Fun(m, f).params)),
     worklist  : SUBSET BlocksOf(m, f),
     visits    : SUBSET BlocksOf(m, f),
     boundOut  : [BlocksOf(m, f) -> SUBSET Named(m, f)],
     exactOut  : [BlocksOf(m, f) -> SUBSET Named(m, f)],
     boundArgs : SUBSET Named(m, f),
     exactArgs : SUBSET Named(m, f),
     node      : BlocksOf(m, f) \cup {Idle},
     seen      : BOOLEAN,
     k         : Nat,
     bound     : SUBSET Named(m, f),
     exact     : SUBSET Named(m, f),
     bounds    : [ValuesOf(m, f) -> Words]]

Activations(m) == UNION {ActivationsOf(m, f) : f \in Bodies(m)}

(* An exact fact is a bound fact.                                          *)
Nested(m, a) ==
    /\ a.exact \subseteq a.bound
    /\ a.exactArgs \subseteq a.boundArgs
    /\ \A n \in BlocksOf(m, a.fun) : a.exactOut[n] \subseteq a.boundOut[n]

InBlock(m, a) ==
    a.node # Idle => a.k \in Block(m, a.fun, a.node).first .. Block(m, a.fun, a.node).last + 1

(* What a visited block last knew is known to its successors, or they      *)
(* wait. This must also be said of a block that is being visited again:    *)
(* when nothing comes of the visit, its successors are not queued.         *)
Carried(m, a) ==
    \A p \in a.visits : (p = a.node => a.seen) =>
        \A n \in Block(m, a.fun, p).succs \ a.worklist :
            /\ n \in a.visits
            /\ a.boundOut[p] \subseteq (IF n = a.node THEN a.bound ELSE a.boundOut[n])
            /\ a.exactOut[p] \subseteq (IF n = a.node THEN a.exact ELSE a.exactOut[n])

Good(m, a) == Nested(m, a) /\ InBlock(m, a) /\ Carried(m, a)

(* An activation that waits for a call to return is at that call.          *)
Calling(m, a) == a.node # Idle /\ a.k <= Block(m, a.fun, a.node).last

StackInv ==
    /\ stack \in Seq(Activations(mod))
    /\ \A j \in 1 .. Len(stack) : Good(mod, stack[j])
    /\ \A j \in 1 .. Len(stack) - 1 : Calling(mod, stack[j])

PassInv ==
    /\ mod \in DOMAIN Modules
    /\ StackInv
    /\ retCall \in [Sites -> Words]
    /\ DOMAIN local = FunsOf(mod)
    /\ \A f \in FunsOf(mod) : local[f] \subseteq ValuesOf(mod, f)

-----------------------------------------------------------------------------
(* What the verifier guarantees of a function with a body.                 *)
LEMMA BlockFacts ==
    ASSUME NEW m \in DOMAIN Modules, NEW f \in Bodies(m)
    PROVE  /\ 1 \in BlocksOf(m, f) /\ BlocksOf(m, f) \subseteq Nat /\ Idle \notin BlocksOf(m, f)
           /\ \A n \in BlocksOf(m, f) :
                 /\ Block(m, f, n).first \in Nat /\ Block(m, f, n).last \in Nat
                 /\ 1 <= Block(m, f, n).first
                 /\ Block(m, f, n).first <= Block(m, f, n).last + 1
                 /\ Block(m, f, n).last <= Len(Fun(m, f).insts)
                 /\ Block(m, f, n).succs \subseteq BlocksOf(m, f) \ {1}
                 /\ Block(m, f, n).ret \in Seq(ValuesOf(m, f))
           /\ Len(Fun(m, f).insts) \in Nat
           /\ PositionsOf(m, f) = 1 .. Len(Fun(m, f).insts)
<1> DEFINE B == [first : Nat, last : 0 .. Len(Fun(m, f).insts),
                 succs : SUBSET Nat, ret : Seq(ValuesOf(m, f))]
<1>0. f \in FunsOf(m) /\ Fun(m, f).blocks # <<>> BY DEF Bodies
<1>1. /\ Fun(m, f).insts \in Seq(Insts(ValuesOf(m, f), FunsOf(m)))
      /\ Fun(m, f).blocks \in Seq(B)
      /\ \A n \in BlocksOf(m, f) :
            /\ Block(m, f, n).first <= Block(m, f, n).last + 1
            /\ Block(m, f, n).succs \subseteq BlocksOf(m, f) \ {1}
            /\ Block(m, f, n).first = IF n = 1 THEN 1 ELSE Block(m, f, n - 1).last + 1
  <2>1. WellFormed(m) BY ModulesAssumption
  <2>2. /\ Fun(m, f).insts \in Seq(Insts(ValuesOf(m, f), FunsOf(m)))
        /\ Fun(m, f).blocks \in Seq(B)
    BY <1>0, <2>1 DEF WellFormed
  <2>3. ASSUME NEW n \in BlocksOf(m, f)
        PROVE  /\ Block(m, f, n).first <= Block(m, f, n).last + 1
               /\ Block(m, f, n).succs \subseteq BlocksOf(m, f) \ {1}
               /\ Block(m, f, n).first = IF n = 1 THEN 1 ELSE Block(m, f, n - 1).last + 1
    BY <1>0, <2>1 DEF WellFormed
  <2> QED BY <2>2, <2>3
<1>2. Len(Fun(m, f).insts) \in Nat /\ PositionsOf(m, f) = 1 .. Len(Fun(m, f).insts)
  BY <1>1, LenProperties DEF PositionsOf
<1>3. /\ Len(Fun(m, f).blocks) \in Nat /\ Len(Fun(m, f).blocks) # 0
      /\ BlocksOf(m, f) = 1 .. Len(Fun(m, f).blocks)
  <2> HIDE DEF B
  <2> QED BY <1>0, <1>1, LenProperties, EmptySeq DEF BlocksOf
<1>4. \A n \in BlocksOf(m, f) : Block(m, f, n) \in B
  <2> HIDE DEF B
  <2> QED BY <1>1, <1>3, ElementOfSeq DEF Block
<1>5. \A n \in BlocksOf(m, f) :
          /\ Block(m, f, n).first \in Nat
          /\ Block(m, f, n).last \in 0 .. Len(Fun(m, f).insts)
          /\ Block(m, f, n).ret \in Seq(ValuesOf(m, f))
  <2> SUFFICES ASSUME NEW n \in BlocksOf(m, f)
               PROVE  /\ Block(m, f, n).first \in Nat
                      /\ Block(m, f, n).last \in 0 .. Len(Fun(m, f).insts)
                      /\ Block(m, f, n).ret \in Seq(ValuesOf(m, f))
    OBVIOUS
  <2> QED BY <1>4
<1> HIDE DEF B
<1>6. ASSUME NEW n \in BlocksOf(m, f) PROVE 1 <= Block(m, f, n).first
  <2>1. CASE n = 1 BY <1>1, <2>1
  <2>2. CASE n # 1
    <3>1. n - 1 \in BlocksOf(m, f) BY <1>3, <2>2
    <3>2. Block(m, f, n).first = Block(m, f, n - 1).last + 1 BY <1>1, <2>2
    <3>3. Block(m, f, n - 1).last \in Nat BY <1>2, <1>5, <3>1
    <3> QED BY <3>2, <3>3
  <2> QED BY <2>1, <2>2
<1>7. \A n \in BlocksOf(m, f) :
          Block(m, f, n).last \in Nat /\ Block(m, f, n).last <= Len(Fun(m, f).insts)
  BY <1>2, <1>5
<1> QED BY <1>1, <1>2, <1>3, <1>5, <1>6, <1>7 DEF Idle

(* Named values are all but Outside.                                       *)
LEMMA NamedFacts ==
    ASSUME NEW m \in DOMAIN Modules, NEW f \in FunsOf(m)
    PROVE  /\ Named(m, f) = ValuesOf(m, f) \ {Outside}
           /\ PositionsOf(m, f) \subseteq Named(m, f)
           /\ Named(m, f) \subseteq ValuesOf(m, f)
<1>1. /\ DOMAIN Modules[m].globals \subseteq Nat \ {0}
      /\ DOMAIN Fun(m, f).params \subseteq Nat \ {0}
      /\ PositionsOf(m, f) \subseteq Nat \ {0}
  <2>1. /\ Modules[m].globals \in Seq(Words)
        /\ Fun(m, f).params \in Seq(Words)
        /\ Fun(m, f).insts \in Seq(Insts(ValuesOf(m, f), FunsOf(m)))
    BY ModulesAssumption DEF WellFormed
  <2>2. \A S : \A s \in Seq(S) : DOMAIN s \subseteq Nat \ {0}
    <3> SUFFICES ASSUME NEW S, NEW s \in Seq(S) PROVE DOMAIN s \subseteq Nat \ {0} OBVIOUS
    <3>1. Len(s) \in Nat /\ DOMAIN s = 1 .. Len(s) BY LenProperties
    <3> QED BY <3>1
  <2> QED BY <2>1, <2>2 DEF PositionsOf
<1>2. Outside \notin GlobalsOf(m)
  <2> SUFFICES ASSUME NEW k \in DOMAIN Modules[m].globals, Global(k) = Outside PROVE FALSE
    BY DEF GlobalsOf
  <2>1. k \in Nat /\ k # 0 BY <1>1
  <2> QED BY <2>1 DEF Global, Outside
<1>3. Outside \notin ArgsOf(m, f)
  <2> SUFFICES ASSUME NEW k \in DOMAIN Fun(m, f).params, Arg(k) = Outside PROVE FALSE
    BY DEF ArgsOf
  <2>1. k \in Nat /\ k # 0 BY <1>1
  <2> QED BY <2>1 DEF Arg, Outside
<1>4. Outside \notin PositionsOf(m, f) BY <1>1 DEF Outside
<1> QED BY <1>2, <1>3, <1>4 DEF Named, ValuesOf

(* An instruction is well-typed data of the right arity.                   *)
LEMMA InstFacts ==
    ASSUME NEW m \in DOMAIN Modules, NEW f \in Bodies(m), NEW v \in PositionsOf(m, f)
    PROVE  /\ Fun(m, f).insts[v] \in Insts(ValuesOf(m, f), FunsOf(m))
           /\ Arity(Fun(m, f).insts[v])
           /\ v \in Named(m, f)
<1>1. /\ f \in FunsOf(m)
      /\ Fun(m, f).insts \in Seq(Insts(ValuesOf(m, f), FunsOf(m)))
      /\ Arity(Fun(m, f).insts[v])
  BY ModulesAssumption DEF WellFormed, Bodies
<1>2. Fun(m, f).insts[v] \in Insts(ValuesOf(m, f), FunsOf(m))
  <2>1. v \in 1 .. Len(Fun(m, f).insts) BY <1>1, LenProperties DEF PositionsOf
  <2> QED BY <1>1, <2>1, ElementOfSeq
<1> QED BY <1>1, <1>2, NamedFacts

(* uint64_t and int.                                                       *)
LEMMA WordFacts ==
    /\ 0 \in Words /\ DYNBOUND_ATTR \in Words /\ UNBOUND_ATTR \in Words
    /\ \A n \in Int : Wrap(n) \in Words
    /\ \A n \in Nat : IntSize(n) \in Words
<1>1. \A n \in Int : Wrap(n) \in Words BY WordAssumption DEF Wrap, Words
<1>2. ASSUME NEW n \in Nat PROVE IntSize(n) \in Words
  <2>1. n % IntWord \in 0 .. IntWord - 1 BY IntWordAssumption
  <2> QED BY <2>1, IntWordAssumption, WordAssumption DEF IntSize, Words
<1> QED BY <1>1, <1>2, WordAssumption DEF Words, DYNBOUND_ATTR, UNBOUND_ATTR

LEMMA AllocSizeType ==
    ASSUME NEW Value, NEW Function, NEW inst \in Insts(Value, Function), Arity(inst)
    PROVE  ConstantAllocSize(inst) \in Nat
<1>1. CASE HasConstSize(inst)
  <2>1. /\ SizeFactors(inst)[1] \in Words \cup {NonConst, 1}
        /\ SizeFactors(inst)[2] \in Words \cup {NonConst, 1}
    <3>1. CASE inst.op = "alloca" BY <3>1 DEF SizeFactors, Insts, Arity
    <3>2. CASE inst.op # "alloca" /\ inst.callee = "calloc"
      BY <1>1, <3>2 DEF SizeFactors, Insts, Arity, HasConstSize
    <3>3. CASE inst.op # "alloca" /\ inst.callee = "memalign"
      BY <1>1, <3>3 DEF SizeFactors, Insts, Arity, HasConstSize
    <3>4. CASE inst.op # "alloca" /\ inst.callee \in {"malloc", "valloc"}
      BY <1>1, <3>4 DEF SizeFactors, Insts, Arity, HasConstSize
    <3> QED BY <1>1, <3>1, <3>2, <3>3, <3>4 DEF HasConstSize, SizedAllocators
  <2>2. SizeFactors(inst)[1] \in Int /\ SizeFactors(inst)[2] \in Int
    BY <1>1, <2>1 DEF HasConstSize, Words
  <2>3. \A x, y \in Int : x * y \in Int OBVIOUS
  <2>4. RequestedSize(inst) \in Int BY <2>2, <2>3 DEF RequestedSize
  <2> QED BY <1>1, <2>4, WordFacts DEF ConstantAllocSize, Words
<1>2. CASE ~HasConstSize(inst) BY <1>2 DEF ConstantAllocSize
<1> QED BY <1>1, <1>2

-----------------------------------------------------------------------------
(* The facts t include those of the activation a.                          *)
Includes(t, a) ==
    t.exact \subseteq t.bound /\ a.bound \subseteq t.bound /\ a.exact \subseteq t.exact

(* The activation after its instruction, with the facts t.                 *)
Learned(a, t) == [a EXCEPT !.bound = t.bound, !.exact = t.exact, !.bounds = t.bounds, !.k = @ + 1]

LEMMA FactsInclude ==
    ASSUME NEW m, NEW f, NEW a \in ActivationsOf(m, f), Nested(m, a)
    PROVE  Facts(a) \in FactsOf(m, f) /\ Includes(Facts(a), a)
<1>1. /\ a.bound \in SUBSET Named(m, f) /\ a.exact \in SUBSET Named(m, f)
      /\ a.bounds \in [ValuesOf(m, f) -> Words]
  BY DEF ActivationsOf
<1>2. a.exact \subseteq a.bound BY DEF Nested
<1> QED BY <1>1, <1>2 DEF Facts, FactsOf, Includes

LEMMA WithBoundFacts ==
    ASSUME NEW m, NEW f, NEW a, NEW t \in FactsOf(m, f), Includes(t, a), NEW v \in Named(m, f)
    PROVE  WithBound(t, v) \in FactsOf(m, f) /\ Includes(WithBound(t, v), a)
BY DEF WithBound, FactsOf, Includes

LEMMA WithExactFacts ==
    ASSUME NEW m, NEW f, NEW a, NEW t \in FactsOf(m, f), Includes(t, a), NEW v \in Named(m, f),
           NEW n \in Words
    PROVE  WithExact(t, v, n) \in FactsOf(m, f) /\ Includes(WithExact(t, v, n), a)
<1>1. t.bounds \in [ValuesOf(m, f) -> Words] BY DEF FactsOf
<1>2. [t.bounds EXCEPT ![v] = n] \in [ValuesOf(m, f) -> Words] BY <1>1
<1>3. /\ WithExact(t, v, n).bound = t.bound \cup {v}
      /\ WithExact(t, v, n).exact = t.exact \cup {v}
  BY DEF WithExact, FactsOf
<1>4. t.bound \cup {v} \in SUBSET Named(m, f) /\ t.exact \cup {v} \in SUBSET Named(m, f)
  BY DEF FactsOf
<1>5. WithExact(t, v, n) \in FactsOf(m, f) BY <1>2, <1>4 DEF WithExact, FactsOf
<1> QED BY <1>3, <1>5 DEF Includes

LEMMA WithAttributeFacts ==
    ASSUME NEW m, NEW f, NEW a, NEW t \in FactsOf(m, f), Includes(t, a), NEW v \in Named(m, f),
           NEW r \in Words
    PROVE  WithAttribute(t, v, r) \in FactsOf(m, f) /\ Includes(WithAttribute(t, v, r), a)
<1>1. WithAttribute(t, v, r) \in {WithBound(t, v), t, WithExact(t, v, r)}
  BY DEF WithAttribute
<1> QED BY <1>1, WithBoundFacts, WithExactFacts

(* An activation that learns from its instruction remains a good one.      *)
LEMMA LearnedGood ==
    ASSUME NEW m \in DOMAIN Modules, NEW f \in Bodies(m), NEW a \in ActivationsOf(m, f),
           Good(m, a), Calling(m, a), NEW t \in FactsOf(m, f), Includes(t, a)
    PROVE  Learned(a, t) \in ActivationsOf(m, f) /\ Good(m, Learned(a, t))
<1> DEFINE b == Learned(a, t)
<1>1. b \in ActivationsOf(m, f)
  <2>1. a.k + 1 \in Nat BY DEF ActivationsOf
  <2> QED BY <2>1 DEF Learned, ActivationsOf, FactsOf
<1>2. /\ b.bound = t.bound /\ b.exact = t.exact /\ b.k = a.k + 1
      /\ b.fun = a.fun /\ b.worklist = a.worklist /\ b.visits = a.visits
      /\ b.boundOut = a.boundOut /\ b.exactOut = a.exactOut
      /\ b.boundArgs = a.boundArgs /\ b.exactArgs = a.exactArgs
      /\ b.node = a.node /\ b.seen = a.seen
  BY DEF Learned, ActivationsOf
<1> HIDE DEF b
<1>3. Nested(m, b) BY <1>2 DEF Good, Nested, Includes
<1>4. InBlock(m, b)
  <2>1. a.fun = f /\ a.node \in BlocksOf(m, f) /\ a.k \in Nat BY DEF ActivationsOf, Calling
  <2>2. Block(m, f, a.node).first \in Nat /\ Block(m, f, a.node).last \in Nat BY <2>1, BlockFacts
  <2>3. a.k >= Block(m, f, a.node).first /\ a.k <= Block(m, f, a.node).last
    BY <2>1, <2>2 DEF Good, InBlock, Calling
  <2> QED BY <1>2, <2>1, <2>2, <2>3 DEF InBlock
<1>5. Carried(m, b)
  <2> SUFFICES ASSUME NEW p \in b.visits, p = b.node => b.seen,
                      NEW n \in Block(m, b.fun, p).succs \ b.worklist
               PROVE  /\ n \in b.visits
                      /\ b.boundOut[p] \subseteq (IF n = b.node THEN b.bound ELSE b.boundOut[n])
                      /\ b.exactOut[p] \subseteq (IF n = b.node THEN b.exact ELSE b.exactOut[n])
    BY DEF Carried
  <2>1. /\ n \in a.visits
        /\ a.boundOut[p] \subseteq (IF n = a.node THEN a.bound ELSE a.boundOut[n])
        /\ a.exactOut[p] \subseteq (IF n = a.node THEN a.exact ELSE a.exactOut[n])
    BY <1>2 DEF Good, Carried
  <2> QED BY <1>2, <2>1 DEF Includes
<1> QED BY <1>1, <1>3, <1>4, <1>5 DEF Good, b

(* A fresh activation.                                                     *)
LEMMA ActivationGood ==
    ASSUME mod \in DOMAIN Modules, NEW f \in Bodies(mod),
           NEW args \in Attributes(Len(Fun(mod, f).params))
    PROVE  Activation(f, args) \in ActivationsOf(mod, f) /\ Good(mod, Activation(f, args))
<1> DEFINE known == {Arg(k) : k \in AttrsOf(args, UNBOUND_ATTR)}
           exact == {Arg(k) : k \in {j \in AttrsOf(args, UNBOUND_ATTR) : args[j] # DYNBOUND_ATTR}}
           Value(v) == CASE v \in exact -> args[CHOOSE k \in DOMAIN args : Arg(k) = v]
                         [] v \in GlobalsOf(mod) ->
                              Modules[mod].globals[CHOOSE k \in DOMAIN Modules[mod].globals :
                                                      Global(k) = v]
                         [] OTHER -> 0
           a == Activation(f, args)
<1>1. /\ f \in FunsOf(mod)
      /\ Modules[mod].globals \in Seq(Words)
      /\ Fun(mod, f).params \in Seq(Words)
  <2>1. WellFormed(mod) /\ f \in FunsOf(mod) BY ModulesAssumption DEF Bodies
  <2> QED BY <2>1 DEF WellFormed
<1>2. DOMAIN args = DOMAIN Fun(mod, f).params /\ \A k \in DOMAIN args : args[k] \in Words
  BY <1>1, LenProperties DEF Attributes
<1>3. exact \subseteq known /\ known \subseteq ArgsOf(mod, f)
  BY <1>2 DEF ArgsOf, AttrsOf
<1>4. known \subseteq Named(mod, f) BY <1>3 DEF Named
<1>5. ASSUME NEW v PROVE Value(v) \in Words
  <2>0. v \in exact => v \notin GlobalsOf(mod)
    <3> SUFFICES ASSUME NEW j \in DOMAIN args, NEW k \in DOMAIN Modules[mod].globals,
                        Arg(j) = Global(k)
                 PROVE  FALSE
      BY DEF AttrsOf, GlobalsOf
    <3>1. j \in Nat /\ k \in Nat BY <1>1, <1>2, LenProperties
    <3> QED BY <3>1 DEF Arg, Global
  <2>1. CASE v \in exact
    <3>1. \E k \in DOMAIN args : Arg(k) = v BY <2>1 DEF AttrsOf
    <3>2. (CHOOSE k \in DOMAIN args : Arg(k) = v) \in DOMAIN args BY <3>1
    <3>3. Value(v) = args[CHOOSE k \in DOMAIN args : Arg(k) = v]
      <4> HIDE DEF exact
      <4> QED BY <2>0, <2>1
    <3> QED BY <1>2, <3>2, <3>3
  <2>2. CASE v \notin exact /\ v \in GlobalsOf(mod)
    <3> DEFINE G == Modules[mod].globals
    <3>1. \E k \in DOMAIN G : Global(k) = v BY <2>2 DEF GlobalsOf
    <3>2. (CHOOSE k \in DOMAIN G : Global(k) = v) \in DOMAIN G BY <3>1
    <3>3. \A k \in DOMAIN G : G[k] \in Words
      <4>1. G \in Seq(Words) BY <1>1
      <4> HIDE DEF G
      <4> QED BY <4>1, LenProperties, ElementOfSeq
    <3>4. Value(v) = G[CHOOSE k \in DOMAIN G : Global(k) = v] BY <2>2
    <3> QED BY <3>2, <3>3, <3>4
  <2>3. CASE v \notin exact /\ v \notin GlobalsOf(mod)
    <3>1. Value(v) = 0 BY <2>3
    <3> QED BY <3>1, WordFacts
  <2> QED BY <2>1, <2>2, <2>3
<1> HIDE DEF Value
<1>6. a = [fun |-> f, args |-> args, worklist |-> {1}, visits |-> {},
           boundOut  |-> [n \in BlocksOf(mod, f) |-> {}],
           exactOut  |-> [n \in BlocksOf(mod, f) |-> {}],
           boundArgs |-> known, exactArgs |-> exact,
           node |-> Idle, seen |-> FALSE, k |-> 0, bound |-> {}, exact |-> {},
           bounds |-> [v \in ValuesOf(mod, f) |-> Value(v)]]
  BY DEF Activation, Value
<1> HIDE DEF known, exact
<1>7. a \in ActivationsOf(mod, f)
  <2>1. 1 \in BlocksOf(mod, f) BY BlockFacts
  <2>2. exact \in SUBSET Named(mod, f) /\ known \in SUBSET Named(mod, f) BY <1>3, <1>4
  <2>3. [v \in ValuesOf(mod, f) |-> Value(v)] \in [ValuesOf(mod, f) -> Words] BY <1>5
  <2>4. [n \in BlocksOf(mod, f) |-> {}] \in [BlocksOf(mod, f) -> SUBSET Named(mod, f)] OBVIOUS
  <2> HIDE DEF a
  <2> QED BY <1>6, <2>1, <2>2, <2>3, <2>4 DEF ActivationsOf
<1>8. /\ a.exact = {} /\ a.exactArgs = exact /\ a.boundArgs = known /\ a.visits = {}
      /\ a.node = Idle /\ a.fun = f /\ \A n \in BlocksOf(mod, f) : a.exactOut[n] = {}
  <2> HIDE DEF a
  <2> QED BY <1>6
<1> HIDE DEF a
<1> QED BY <1>3, <1>7, <1>8 DEF Good, Nested, InBlock, Carried, a

-----------------------------------------------------------------------------
(* The activation that runs.                                               *)
LEMMA TopFacts ==
    ASSUME PassInv, stack # <<>>
    PROVE  /\ Len(stack) \in Nat /\ Len(stack) >= 1
           /\ Name \in Bodies(mod) /\ Top \in ActivationsOf(mod, Name) /\ Good(mod, Top)
<1>1. stack \in Seq(Activations(mod)) /\ \A j \in 1 .. Len(stack) : Good(mod, stack[j])
  BY DEF PassInv, StackInv
<1>2. Len(stack) \in Nat /\ Len(stack) >= 1 BY <1>1, LenProperties, EmptySeq
<1>3. Top \in Activations(mod) /\ Good(mod, Top)
  <2>1. Len(stack) \in 1 .. Len(stack) BY <1>2
  <2> QED BY <1>1, <2>1, ElementOfSeq DEF Top
<1>4. PICK f \in Bodies(mod) : Top \in ActivationsOf(mod, f) BY <1>3 DEF Activations
<1>5. Name = f BY <1>4 DEF Name, ActivationsOf
<1> QED BY <1>2, <1>3, <1>4, <1>5

(* It is replaced.                                                         *)
LEMMA SetTopInv ==
    ASSUME PassInv, stack # <<>>, mod' = mod,
           NEW a \in ActivationsOf(mod, Name), Good(mod, a), SetTop(a)
    PROVE  StackInv'
<1>1. Len(stack) \in Nat /\ Len(stack) >= 1 /\ Name \in Bodies(mod) BY TopFacts
<1>2. a \in Activations(mod) BY <1>1 DEF Activations
<1>3. stack \in Seq(Activations(mod)) BY DEF PassInv, StackInv
<1>4. stack' = [stack EXCEPT ![Len(stack)] = a] BY DEF SetTop
<1>5. /\ stack' \in Seq(Activations(mod)) /\ Len(stack') = Len(stack)
      /\ \A j \in 1 .. Len(stack) : stack'[j] = IF j = Len(stack) THEN a ELSE stack[j]
  BY <1>1, <1>2, <1>3, <1>4, ExceptSeq, LenProperties
<1>6. \A j \in 1 .. Len(stack) : Good(mod, stack'[j]) BY <1>5 DEF PassInv, StackInv
<1>7. ASSUME NEW j \in 1 .. Len(stack) - 1 PROVE Calling(mod, stack'[j])
  <2>1. j \in 1 .. Len(stack) /\ j # Len(stack) BY <1>1
  <2>2. stack'[j] = stack[j] BY <1>5, <2>1
  <2> QED BY <2>2 DEF PassInv, StackInv
<1> QED BY <1>5, <1>6, <1>7 DEF StackInv

(* What stays the same.                                                    *)
RestInv ==
    /\ retCall \in [Sites -> Words]
    /\ DOMAIN local = FunsOf(mod)
    /\ \A f \in FunsOf(mod) : local[f] \subseteq ValuesOf(mod, f)

LEMMA SameRest ==
    ASSUME PassInv, mod' = mod, UNCHANGED <<retCall, local>>
    PROVE  RestInv'
<1>1. Sites' = Sites BY DEF Sites
<1> QED BY <1>1 DEF PassInv, RestInv

-----------------------------------------------------------------------------
(* The instruction that is visited.                                        *)
LEMMA AtInstFacts ==
    ASSUME PassInv, AtInst
    PROVE  /\ stack # <<>> /\ mod \in DOMAIN Modules /\ Name \in Bodies(mod)
           /\ Top \in ActivationsOf(mod, Name) /\ Good(mod, Top) /\ Calling(mod, Top)
           /\ Facts(Top) \in FactsOf(mod, Name) /\ Includes(Facts(Top), Top)
           /\ Inst \in Insts(ValuesOf(mod, Name), FunsOf(mod)) /\ Arity(Inst)
           /\ Top.k \in PositionsOf(mod, Name) /\ Top.k \in Named(mod, Name)
<1>1. /\ stack # <<>> /\ mod \in DOMAIN Modules /\ Name \in Bodies(mod)
      /\ Top \in ActivationsOf(mod, Name) /\ Good(mod, Top)
  BY TopFacts DEF AtInst, PassInv
<1>2. Top.fun = Name /\ Top.k \in Nat /\ Top.node \in BlocksOf(mod, Name)
  BY <1>1 DEF ActivationsOf, AtInst
<1>3. Calling(mod, Top) BY <1>2 DEF Calling, AtInst, Cur
<1>4. Top.k \in PositionsOf(mod, Name)
  <2> DEFINE b == Block(mod, Name, Top.node)
  <2>1. Top.k \in b.first .. b.last + 1 /\ Top.k <= b.last
    BY <1>1, <1>2, <1>3 DEF Good, InBlock, Calling
  <2>2. b.first \in Nat /\ b.last \in Nat /\ 1 <= b.first /\ b.last <= Len(Fun(mod, Name).insts)
    BY <1>1, <1>2, BlockFacts
  <2>3. Len(Fun(mod, Name).insts) \in Nat /\ PositionsOf(mod, Name) = 1 .. Len(Fun(mod, Name).insts)
    BY <1>1, BlockFacts
  <2> HIDE DEF b
  <2> QED BY <1>2, <2>1, <2>2, <2>3
<1>5. Facts(Top) \in FactsOf(mod, Name) /\ Includes(Facts(Top), Top)
  BY <1>1, FactsInclude DEF Good
<1> QED BY <1>1, <1>3, <1>4, <1>5, InstFacts DEF Inst

LEMMA LearnInv ==
    ASSUME PassInv, AtInst, NEW t \in FactsOf(mod, Name), Includes(t, Top), Learn(t)
    PROVE  mod' = mod /\ StackInv' /\ RestInv'
<1>1. /\ mod' = mod /\ UNCHANGED <<retCall, local>> /\ SetTop(Learned(Top, t))
  BY DEF Learn, SetFacts, Learned
<1>2. Learned(Top, t) \in ActivationsOf(mod, Name) /\ Good(mod, Learned(Top, t))
  BY AtInstFacts, LearnedGood
<1> QED BY <1>1, <1>2, AtInstFacts, SetTopInv, SameRest

(* A bound an instruction has computed is a word.                          *)
LEMMA ExactBoundType ==
    ASSUME PassInv, AtInst,
           \/ Inst.op = "gep" /\ GepKeepsBound(Inst, Top.bound, Top.exact, Top.bounds)
           \/ Inst.op = "cast" /\ CastKeepsBound(Inst, Top.bound, Top.exact, Top.bounds)
    PROVE  ExactBound(Inst, Top.bounds) \in Words
<1>1. /\ Inst \in Insts(ValuesOf(mod, Name), FunsOf(mod)) /\ Arity(Inst)
      /\ Top \in ActivationsOf(mod, Name) /\ Name \in FunsOf(mod) /\ mod \in DOMAIN Modules
  BY AtInstFacts DEF Bodies
<1>2. Top.bounds \in [ValuesOf(mod, Name) -> Words] /\ Top.exact \subseteq ValuesOf(mod, Name)
  BY <1>1, NamedFacts DEF ActivationsOf
<1>3. Inst.operands[1] \in ValuesOf(mod, Name)
  BY <1>2 DEF GepKeepsBound, CastKeepsBound
<1>4. Top.bounds[Inst.operands[1]] \in Words BY <1>2, <1>3
<1>5. CASE Inst.op = "gep"
  <2>1. Inst.consts \in Seq(Words \cup {NonConst}) /\ Len(Inst.consts) = 1
    BY <1>1, <1>5 DEF Insts, Arity
  <2>2. Inst.consts[1] \in Words \cup {NonConst}
    <3>1. 1 \in 1 .. Len(Inst.consts) BY <2>1
    <3> QED BY <2>1, <3>1, ElementOfSeq
  <2>3. Inst.consts[1] # NonConst BY <1>5 DEF GepKeepsBound, GepInRange
  <2>4. Top.bounds[Inst.operands[1]] - Inst.consts[1] \in Int BY <1>4, <2>2, <2>3 DEF Words
  <2> QED BY <1>5, <2>4, WordFacts DEF ExactBound
<1>6. CASE Inst.op = "cast" BY <1>4, <1>6 DEF ExactBound
<1> QED BY <1>5, <1>6

(* Every instruction but an analysed call only adds to the facts.          *)
LEMMA VisitInv ==
    ASSUME PassInv,
           \/ VisitAlloca \/ VisitPhi \/ VisitGep \/ VisitCast
           \/ VisitAllocator \/ VisitReturnsArgument \/ VisitOther \/ ReuseCall
    PROVE  mod' = mod /\ StackInv' /\ RestInv'
<1> DEFINE Learns == \E t \in FactsOf(mod, Name) : Includes(t, Top) /\ Learn(t)
           F == Facts(Top)
<1>0. AtInst
  BY DEF VisitAlloca, VisitPhi, VisitGep, VisitCast, VisitAllocator, VisitReturnsArgument,
         VisitOther, ReuseCall
<1>a. /\ F \in FactsOf(mod, Name) /\ Includes(F, Top)
      /\ Inst \in Insts(ValuesOf(mod, Name), FunsOf(mod)) /\ Arity(Inst)
      /\ Top.k \in Named(mod, Name) /\ mod \in DOMAIN Modules
  BY <1>0, AtInstFacts
<1>b. Learn(F) => Learns BY <1>a
<1>c. Learn(WithBound(F, Top.k)) => Learns BY <1>a, WithBoundFacts
<1>d. \A n \in Words : Learn(WithExact(F, Top.k, n)) => Learns BY <1>a, WithExactFacts
<1> SUFFICES Learns BY <1>0, LearnInv
<1> HIDE DEF F, Learns
<1>1. CASE VisitAlloca
  <2>1. CASE Inst.consts[2] \notin {NonConst, 0}
    <3>1. Learn(WithExact(F, Top.k, Wrap(Inst.consts[1] * Inst.consts[2])))
      BY <1>1, <2>1 DEF VisitAlloca, F
    <3>2. Inst.op = "alloca" BY <1>1 DEF VisitAlloca
    <3>3. /\ Inst.consts \in Seq(Words \cup {NonConst}) /\ Len(Inst.consts) = 2
          /\ Inst.consts[1] # NonConst
      BY <1>a, <3>2 DEF Insts, Arity
    <3>4. Inst.consts[1] \in Words \cup {NonConst} /\ Inst.consts[2] \in Words \cup {NonConst}
      <4>1. 1 \in 1 .. Len(Inst.consts) /\ 2 \in 1 .. Len(Inst.consts) BY <3>3
      <4> QED BY <3>3, <4>1, ElementOfSeq
    <3>5. Inst.consts[1] \in Int /\ Inst.consts[2] \in Int BY <2>1, <3>3, <3>4 DEF Words
    <3>6. \A x, y \in Int : x * y \in Int OBVIOUS
    <3> QED BY <1>d, <3>1, <3>5, <3>6, WordFacts
  <2>2. CASE ~(Inst.consts[2] \notin {NonConst, 0})
    BY <1>1, <1>c, <2>2 DEF VisitAlloca, F
  <2> QED BY <2>1, <2>2
<1>2. CASE VisitPhi BY <1>2, <1>b, <1>c DEF VisitPhi, F
<1>3. CASE VisitGep
  <2>1. CASE Inst.isPtr /\ GepKeepsBound(Inst, Top.bound, Top.exact, Top.bounds)
    <3>1. ExactBound(Inst, Top.bounds) \in Words BY <1>0, <1>3, <2>1, ExactBoundType DEF VisitGep
    <3> QED BY <1>3, <1>d, <2>1, <3>1 DEF VisitGep, F
  <2>2. CASE ~(Inst.isPtr /\ GepKeepsBound(Inst, Top.bound, Top.exact, Top.bounds))
    BY <1>3, <1>b, <2>2 DEF VisitGep, F
  <2> QED BY <2>1, <2>2
<1>4. CASE VisitCast
  <2>1. CASE Inst.isPtr /\ CastKeepsBound(Inst, Top.bound, Top.exact, Top.bounds)
    <3>1. ExactBound(Inst, Top.bounds) \in Words BY <1>0, <1>4, <2>1, ExactBoundType DEF VisitCast
    <3> QED BY <1>4, <1>d, <2>1, <3>1 DEF VisitCast, F
  <2>2. CASE ~(Inst.isPtr /\ CastKeepsBound(Inst, Top.bound, Top.exact, Top.bounds))
    BY <1>4, <1>b, <2>2 DEF VisitCast, F
  <2> QED BY <2>1, <2>2
<1>5. CASE VisitAllocator
  <2>1. IntSize(ConstantAllocSize(Inst)) \in Words BY <1>a, AllocSizeType, WordFacts
  <2> QED BY <1>5, <1>c, <1>d, <2>1 DEF VisitAllocator, F
<1>6. CASE VisitReturnsArgument
  <2> DEFINE u == ReturnedArg(Inst)
             b == IF u \in F.bound THEN WithBound(F, Top.k) ELSE F
             e == [b EXCEPT !.exact = @ \cup {Top.k}, !.bounds[Top.k] = F.bounds[u]]
  <2>1. Learn(CASE ~Inst.isPtr -> F [] u \in F.exact -> e [] OTHER -> b)
    BY <1>6 DEF VisitReturnsArgument, F
  <2>2. Learn(b) => Learns BY <1>b, <1>c
  <2>3. CASE u \in F.exact
    <3>1. /\ F.exact \subseteq F.bound /\ F.bounds \in [ValuesOf(mod, Name) -> Words]
          /\ F.exact \subseteq Named(mod, Name)
      BY <1>a DEF Includes, FactsOf
    <3>2. u \in F.bound BY <2>3, <3>1
    <3>3. F.bounds[u] \in Words BY <1>0, <1>a, <2>3, <3>1, AtInstFacts, NamedFacts DEF Bodies
    <3>4. e = WithExact(F, Top.k, F.bounds[u])
      BY <1>a, <3>2 DEF WithBound, WithExact, FactsOf
    <3> QED BY <1>b, <1>d, <2>1, <2>3, <3>3, <3>4
  <2>4. CASE u \notin F.exact
    <3> HIDE DEF b, u
    <3> QED BY <1>b, <2>1, <2>2, <2>4
  <2> QED BY <2>3, <2>4
<1>7. CASE VisitOther BY <1>7, <1>b DEF VisitOther, F
<1>8. CASE ReuseCall
  <2>1. /\ Site \in Sites
    <3>1. Top.k \in PositionsOf(mod, Name) /\ Name \in FunsOf(mod) BY <1>0, AtInstFacts DEF Bodies
    <3> QED BY <1>8, <3>1 DEF Site, Sites, ReuseCall, IsAnalysedCall, Inst
  <2>2. retCall[Site] \in Words BY <2>1 DEF PassInv
  <2> QED BY <1>8, <1>a, <2>2, WithAttributeFacts DEF ReuseCall, F, Learns
<1> QED BY <1>1, <1>2, <1>3, <1>4, <1>5, <1>6, <1>7, <1>8

-----------------------------------------------------------------------------
(* The attributes of a call that is analysed suit the callee.              *)
LEMMA CallArgsType ==
    ASSUME PassInv, AtInst, IsAnalysedCall(Inst)
    PROVE  /\ Inst.callee \in FunsOf(mod) /\ Site \in Sites
           /\ CallArgs \in Attributes(Len(Fun(mod, Inst.callee).params))
<1>1. /\ mod \in DOMAIN Modules /\ Name \in FunsOf(mod) /\ Top.k \in PositionsOf(mod, Name)
      /\ Inst \in Insts(ValuesOf(mod, Name), FunsOf(mod)) /\ Facts(Top) \in FactsOf(mod, Name)
  BY AtInstFacts DEF Bodies
<1>2. /\ Inst.op = "call" /\ Inst.callee \in FunsOf(mod) /\ ~Fun(mod, Inst.callee).varArg
  BY DEF IsAnalysedCall
<1>3. Len(Inst.operands) = Len(Fun(mod, Inst.callee).params)
  <2>1. WellFormed(mod) BY <1>1, ModulesAssumption
  <2>2. \A v \in PositionsOf(mod, Name) :
            LET inst == Fun(mod, Name).insts[v]
            IN  inst.op = "call" /\ inst.callee \in FunsOf(mod) /\ ~Fun(mod, inst.callee).varArg
                       => Len(inst.operands) = Len(Fun(mod, inst.callee).params)
    BY <1>1, <2>1 DEF WellFormed
  <2> QED BY <1>1, <1>2, <2>2 DEF Inst
<1>4. Site \in Sites BY <1>1, <1>2 DEF Site, Sites, Inst
<1>5. ASSUME NEW v PROVE Attribute(Facts(Top), v) \in Words
  <2>1. /\ Facts(Top).exact \subseteq ValuesOf(mod, Name)
        /\ Facts(Top).bounds \in [ValuesOf(mod, Name) -> Words]
    BY <1>1, NamedFacts DEF FactsOf
  <2>2. CASE v \in Facts(Top).exact
    <3>1. Attribute(Facts(Top), v) = Facts(Top).bounds[v] BY <2>2 DEF Attribute
    <3> QED BY <2>1, <2>2, <3>1
  <2>3. CASE v \notin Facts(Top).exact
    <3>1. Attribute(Facts(Top), v) \in {DYNBOUND_ATTR, UNBOUND_ATTR} BY <2>3 DEF Attribute
    <3> QED BY <3>1, WordFacts
  <2> QED BY <2>2, <2>3
<1> QED BY <1>2, <1>3, <1>4, <1>5 DEF CallArgs, Attributes

LEMMA DeclarationInv ==
    ASSUME PassInv, CallDeclaration
    PROVE  mod' = mod /\ StackInv' /\ RestInv'
<1>1. AtInst /\ IsAnalysedCall(Inst) /\ mod' = mod BY DEF CallDeclaration
<1>2. /\ SetTop(Learned(Top, Facts(Top)))
      /\ retCall' = [retCall EXCEPT ![Site] = UNBOUND_ATTR] /\ local' = local
  BY DEF CallDeclaration, SetFacts, Learned
<1>3. StackInv'
  <2>1. /\ Learned(Top, Facts(Top)) \in ActivationsOf(mod, Name)
        /\ Good(mod, Learned(Top, Facts(Top)))
    BY <1>1, AtInstFacts, LearnedGood
  <2> QED BY <1>1, <1>2, <2>1, AtInstFacts, SetTopInv
<1>4. retCall' \in [Sites -> Words] BY <1>2, WordFacts DEF PassInv
<1>5. Sites' = Sites BY <1>1 DEF Sites
<1> QED BY <1>1, <1>2, <1>3, <1>4, <1>5 DEF PassInv, RestInv

LEMMA EnterInv ==
    ASSUME PassInv, EnterCall
    PROVE  mod' = mod /\ StackInv' /\ RestInv'
<1> DEFINE a == Activation(Inst.callee, CallArgs)
           l == Len(stack)
<1>1. AtInst /\ IsAnalysedCall(Inst) /\ mod' = mod BY DEF EnterCall
<1>2. /\ stack' = Append(stack, a)
      /\ retCall' = [retCall EXCEPT ![Site] = DYNBOUND_ATTR] /\ local' = local
      /\ Fun(mod, Inst.callee).blocks # <<>>
  BY DEF EnterCall, UNBOUND
<1>3. a \in Activations(mod) /\ Good(mod, a)
  <2>1. Inst.callee \in Bodies(mod) BY <1>1, <1>2, CallArgsType DEF Bodies
  <2>2. mod \in DOMAIN Modules BY DEF PassInv
  <2> QED BY <1>1, <2>1, <2>2, CallArgsType, ActivationGood DEF Activations
<1>4. /\ stack \in Seq(Activations(mod)) /\ l \in Nat
      /\ \A j \in 1 .. l : Good(mod, stack[j])
      /\ \A j \in 1 .. l - 1 : Calling(mod, stack[j])
  BY LenProperties DEF PassInv, StackInv
<1>5. Calling(mod, stack[l]) BY <1>1, AtInstFacts DEF Top
<1> HIDE DEF a, l
<1>6. /\ stack' \in Seq(Activations(mod)) /\ Len(stack') = l + 1
      /\ \A j \in 1 .. l : stack'[j] = stack[j]
      /\ stack'[l + 1] = a
  BY <1>2, <1>3, <1>4, AppendProperties DEF l
<1>7. StackInv'
  <2>1. \A j \in 1 .. l + 1 : Good(mod, stack'[j])
    <3>1. \A j \in 1 .. l + 1 : j \in 1 .. l \/ j = l + 1 BY <1>4
    <3> QED BY <1>3, <1>4, <1>6, <3>1
  <2>2. \A j \in 1 .. (l + 1) - 1 : Calling(mod, stack'[j])
    <3>1. \A j \in 1 .. (l + 1) - 1 : j \in 1 .. l /\ (j \in 1 .. l - 1 \/ j = l) BY <1>4
    <3> QED BY <1>4, <1>5, <1>6, <3>1
  <2> QED BY <1>1, <1>6, <2>1, <2>2 DEF StackInv
<1>8. retCall' \in [Sites -> Words] BY <1>2, WordFacts DEF PassInv
<1>9. Sites' = Sites BY <1>1 DEF Sites
<1> QED BY <1>1, <1>2, <1>7, <1>8, <1>9 DEF PassInv, RestInv

-----------------------------------------------------------------------------
(* A block is taken off the worklist: what its predecessors know is        *)
(* collected at once.                                                      *)
LEMMA DequeueInv ==
    ASSUME PassInv, NEW n, Dequeue(n)
    PROVE  mod' = mod /\ StackInv' /\ RestInv'
<1> DEFINE bound == IF n = 1 THEN Top.boundArgs \cup GlobalsOf(mod)
                    ELSE UNION {Top.boundOut[p] : p \in Preds(mod, Name, n)}
           exact == IF n = 1 THEN Top.exactArgs \cup GlobalsOf(mod)
                    ELSE UNION {Top.exactOut[p] : p \in Preds(mod, Name, n)}
           a == [Top EXCEPT !.worklist = @ \ {n}, !.visits = @ \cup {n},
                            !.seen = n \in Top.visits, !.node = n,
                            !.k = Block(mod, Name, n).first,
                            !.bound = bound, !.exact = exact]
<1>1. /\ stack # <<>> /\ mod' = mod /\ UNCHANGED <<retCall, local>> /\ SetTop(a)
      /\ Top.node = Idle /\ n \in Top.worklist
  BY DEF Dequeue
<1>2. /\ mod \in DOMAIN Modules /\ Name \in Bodies(mod) /\ Name \in FunsOf(mod)
      /\ Top \in ActivationsOf(mod, Name) /\ Good(mod, Top)
  BY <1>1, TopFacts DEF PassInv, Bodies
<1>3. /\ Top.worklist \subseteq BlocksOf(mod, Name) /\ Top.visits \subseteq BlocksOf(mod, Name)
      /\ Top.boundOut \in [BlocksOf(mod, Name) -> SUBSET Named(mod, Name)]
      /\ Top.exactOut \in [BlocksOf(mod, Name) -> SUBSET Named(mod, Name)]
      /\ Top.boundArgs \subseteq Named(mod, Name) /\ Top.exactArgs \subseteq Named(mod, Name)
      /\ Top.fun = Name
  BY <1>2 DEF ActivationsOf
<1>4. n \in BlocksOf(mod, Name) BY <1>1, <1>3
<1>5. bound \in SUBSET Named(mod, Name) /\ exact \in SUBSET Named(mod, Name)
  <2>1. GlobalsOf(mod) \subseteq Named(mod, Name) BY DEF Named
  <2>2. \A p \in Preds(mod, Name, n) : Top.boundOut[p] \subseteq Named(mod, Name)
                                         /\ Top.exactOut[p] \subseteq Named(mod, Name)
    BY <1>3 DEF Preds
  <2> QED BY <1>3, <2>1, <2>2
<1>6. exact \subseteq bound
  <2>1. CASE n = 1 BY <1>2, <2>1 DEF Good, Nested
  <2>2. CASE n # 1
    <3>1. \A p \in Preds(mod, Name, n) : Top.exactOut[p] \subseteq Top.boundOut[p]
      BY <1>2, <1>3 DEF Good, Nested, Preds
    <3> QED BY <2>2, <3>1
  <2> QED BY <2>1, <2>2
<1>7. n # 1 => \A p \in Preds(mod, Name, n) :
                   Top.boundOut[p] \subseteq bound /\ Top.exactOut[p] \subseteq exact
  OBVIOUS
<1> HIDE DEF bound, exact
<1>8. a \in ActivationsOf(mod, Name)
  <2>1. Block(mod, Name, n).first \in Nat BY <1>2, <1>4, BlockFacts
  <2>2. /\ Top.worklist \ {n} \in SUBSET BlocksOf(mod, Name)
        /\ Top.visits \cup {n} \in SUBSET BlocksOf(mod, Name)
    BY <1>3, <1>4
  <2>3. PICK s \in BOOLEAN : s = (n \in Top.visits)
    <3>1. (n \in Top.visits) \in BOOLEAN OBVIOUS
    <3> QED BY <3>1
  <2>4. a = [Top EXCEPT !.worklist = @ \ {n}, !.visits = @ \cup {n}, !.seen = s, !.node = n,
                        !.k = Block(mod, Name, n).first, !.bound = bound, !.exact = exact]
    BY <2>3
  <2> HIDE DEF a
  <2> QED BY <1>2, <1>4, <1>5, <2>1, <2>2, <2>4 DEF ActivationsOf
<1>9. /\ a.bound = bound /\ a.exact = exact /\ a.k = Block(mod, Name, n).first
      /\ a.fun = Name /\ a.worklist = Top.worklist \ {n} /\ a.visits = Top.visits \cup {n}
      /\ a.boundOut = Top.boundOut /\ a.exactOut = Top.exactOut
      /\ a.boundArgs = Top.boundArgs /\ a.exactArgs = Top.exactArgs
      /\ a.node = n /\ a.seen = (n \in Top.visits)
  BY <1>2, <1>3 DEF ActivationsOf
<1> HIDE DEF a
<1>10. Nested(mod, a) BY <1>2, <1>3, <1>6, <1>9 DEF Good, Nested
<1>11. InBlock(mod, a)
  <2>1. /\ Block(mod, Name, n).first \in Nat /\ Block(mod, Name, n).last \in Nat
        /\ Block(mod, Name, n).first <= Block(mod, Name, n).last + 1
    BY <1>2, <1>4, BlockFacts
  <2> QED BY <1>9, <2>1 DEF InBlock
<1>12. Carried(mod, a)
  <2> SUFFICES ASSUME NEW p \in a.visits, p = a.node => a.seen,
                      NEW q \in Block(mod, a.fun, p).succs \ a.worklist
               PROVE  /\ q \in a.visits
                      /\ a.boundOut[p] \subseteq (IF q = a.node THEN a.bound ELSE a.boundOut[q])
                      /\ a.exactOut[p] \subseteq (IF q = a.node THEN a.exact ELSE a.exactOut[q])
    BY DEF Carried
  <2>1. p \in Top.visits /\ p \in BlocksOf(mod, Name) BY <1>3, <1>9
  <2>2. q \in BlocksOf(mod, Name) \ {1} BY <1>2, <1>9, <2>1, BlockFacts
  <2>3. CASE q = n
    <3>1. p \in Preds(mod, Name, n) /\ n # 1 BY <1>9, <2>1, <2>2, <2>3 DEF Preds
    <3> QED BY <1>7, <1>9, <2>3, <3>1
  <2>4. CASE q # n
    <3>1. q \in Block(mod, Top.fun, p).succs \ Top.worklist BY <1>3, <1>9, <2>4
    <3>2. p # Top.node /\ q # Top.node BY <1>1, <1>2, <2>1, <2>2, BlockFacts
    <3>3. /\ q \in Top.visits /\ Top.boundOut[p] \subseteq Top.boundOut[q]
          /\ Top.exactOut[p] \subseteq Top.exactOut[q]
      BY <1>2, <2>1, <3>1, <3>2 DEF Good, Carried
    <3> QED BY <1>9, <2>4, <3>3
  <2> QED BY <2>3, <2>4
<1> QED BY <1>1, <1>8, <1>10, <1>11, <1>12, SetTopInv, SameRest DEF Good

(* The end of a block. Its successors are queued unless nothing has        *)
(* changed since its last visit, and then they know it all.                *)
LEMMA EndBlockInv ==
    ASSUME PassInv, EndBlock
    PROVE  mod' = mod /\ StackInv' /\ RestInv'
<1> DEFINE node == Top.node
           changed == ~Top.seen \/ Top.exact # Top.exactOut[node] \/ Top.bound # Top.boundOut[node]
           worklist == IF changed THEN Top.worklist \cup Cur.succs ELSE Top.worklist
           a == [Top EXCEPT !.worklist = worklist,
                            !.exactOut = [Top.exactOut EXCEPT ![node] = Top.exact],
                            !.boundOut = [Top.boundOut EXCEPT ![node] = Top.bound],
                            !.node = Idle]
<1>0. stack # <<>> /\ mod' = mod /\ UNCHANGED <<retCall, local>> /\ node # Idle BY DEF EndBlock
<1>2. /\ mod \in DOMAIN Modules /\ Name \in Bodies(mod)
      /\ Top \in ActivationsOf(mod, Name) /\ Good(mod, Top)
  BY <1>0, TopFacts DEF PassInv
<1>3. /\ Top.worklist \subseteq BlocksOf(mod, Name) /\ Top.visits \subseteq BlocksOf(mod, Name)
      /\ Top.boundOut \in [BlocksOf(mod, Name) -> SUBSET Named(mod, Name)]
      /\ Top.exactOut \in [BlocksOf(mod, Name) -> SUBSET Named(mod, Name)]
      /\ Top.bound \in SUBSET Named(mod, Name) /\ Top.exact \in SUBSET Named(mod, Name)
      /\ Top.fun = Name /\ node \in BlocksOf(mod, Name)
  BY <1>0, <1>2 DEF ActivationsOf
<1>1. SetTop(a)
  BY DEF EndBlock
<1>4. worklist \in SUBSET BlocksOf(mod, Name) /\ Top.worklist \subseteq worklist
      /\ (changed => Block(mod, Name, node).succs \subseteq worklist)
  <2>1. Cur.succs \subseteq BlocksOf(mod, Name) BY <1>2, <1>3, BlockFacts DEF Cur
  <2> QED BY <1>3, <2>1 DEF Cur
<1> HIDE DEF worklist, changed
<1>5. a \in ActivationsOf(mod, Name)
  <2>1. /\ [Top.exactOut EXCEPT ![node] = Top.exact] \in [BlocksOf(mod, Name) -> SUBSET Named(mod, Name)]
        /\ [Top.boundOut EXCEPT ![node] = Top.bound] \in [BlocksOf(mod, Name) -> SUBSET Named(mod, Name)]
    BY <1>3
  <2> HIDE DEF node
  <2> QED BY <1>2, <1>4, <2>1 DEF ActivationsOf
<1>6. /\ a.bound = Top.bound /\ a.exact = Top.exact /\ a.node = Idle
      /\ a.fun = Name /\ a.worklist = worklist /\ a.visits = Top.visits
      /\ a.boundOut = [Top.boundOut EXCEPT ![node] = Top.bound]
      /\ a.exactOut = [Top.exactOut EXCEPT ![node] = Top.exact]
      /\ a.boundArgs = Top.boundArgs /\ a.exactArgs = Top.exactArgs
  BY <1>2, <1>3 DEF ActivationsOf
<1> HIDE DEF a
<1>7. \A q \in BlocksOf(mod, Name) :
          /\ a.boundOut[q] = IF q = node THEN Top.bound ELSE Top.boundOut[q]
          /\ a.exactOut[q] = IF q = node THEN Top.exact ELSE Top.exactOut[q]
  BY <1>3, <1>6
<1>8. Nested(mod, a) BY <1>2, <1>3, <1>6, <1>7 DEF Good, Nested
<1>9. InBlock(mod, a) BY <1>6 DEF InBlock
<1>10. Carried(mod, a)
  <2> SUFFICES ASSUME NEW p \in Top.visits, NEW q \in Block(mod, Name, p).succs \ worklist
               PROVE  /\ q \in Top.visits
                      /\ a.boundOut[p] \subseteq a.boundOut[q]
                      /\ a.exactOut[p] \subseteq a.exactOut[q]
    <3>1. \A p \in Top.visits : \A q \in Block(mod, Name, p).succs : q # Idle
      BY <1>2, <1>3, BlockFacts
    <3> QED BY <1>6, <3>1 DEF Carried
  <2>1. p \in BlocksOf(mod, Name) /\ q \in BlocksOf(mod, Name) BY <1>2, <1>3, BlockFacts
  <2>2. q \notin Top.worklist BY <1>4
  <2>3. p = node => ~changed BY <1>4
  <2>4. p = node => /\ Top.seen /\ Top.exact = Top.exactOut[node] /\ Top.bound = Top.boundOut[node]
    BY <2>3 DEF changed
  <2>5. /\ q \in Top.visits
        /\ Top.boundOut[p] \subseteq (IF q = node THEN Top.bound ELSE Top.boundOut[q])
        /\ Top.exactOut[p] \subseteq (IF q = node THEN Top.exact ELSE Top.exactOut[q])
    BY <1>2, <1>3, <2>2, <2>4 DEF Good, Carried
  <2> QED BY <1>7, <2>1, <2>4, <2>5
<1> QED BY <1>0, <1>1, <1>5, <1>8, <1>9, <1>10, SetTopInv, SameRest DEF Good

-----------------------------------------------------------------------------
(* What an activation answers: an attribute, and values of the function.   *)
LEMMA AnswerTypes ==
    ASSUME PassInv, stack # <<>>, NEW joined \in JoinedExits, NEW r \in Results
    PROVE  /\ r \in Words
           /\ \A old : old \subseteq ValuesOf(mod, Name)
                          => JoinWith(old, joined) \subseteq ValuesOf(mod, Name)
<1>1. /\ mod \in DOMAIN Modules /\ Name \in Bodies(mod) /\ Name \in FunsOf(mod)
      /\ Top \in ActivationsOf(mod, Name)
  BY TopFacts DEF PassInv, Bodies
<1>2. /\ Top.boundOut \in [BlocksOf(mod, Name) -> SUBSET Named(mod, Name)]
      /\ Top.exactOut \in [BlocksOf(mod, Name) -> SUBSET Named(mod, Name)]
      /\ Top.bounds \in [ValuesOf(mod, Name) -> Words]
      /\ Named(mod, Name) \subseteq ValuesOf(mod, Name)
  BY <1>1, NamedFacts DEF ActivationsOf
<1>3. r \in Words
  <2> DEFINE Attr(n) == CHOOSE w \in Words : \E v \in RetVals(n) :
                          w = IF v \in Top.exactOut[n] THEN Top.bounds[v] ELSE DYNBOUND_ATTR
             Entry(n) == IF RetVals(n) = {} THEN 0 ELSE Attr(n)
  <2>1. ASSUME NEW n \in Exits(mod, Name), RetVals(n) # {} PROVE Attr(n) \in Words
    <3>1. PICK v \in RetVals(n) : TRUE BY <2>1
    <3> DEFINE w == IF v \in Top.exactOut[n] THEN Top.bounds[v] ELSE DYNBOUND_ATTR
    <3>2. n \in BlocksOf(mod, Name) BY DEF Exits
    <3>3. w \in Words
      <4>1. v \in Top.exactOut[n] => v \in ValuesOf(mod, Name) BY <1>2, <3>2
      <4> QED BY <1>2, <4>1, WordFacts
    <3>4. \E x \in Words : \E y \in RetVals(n) :
              x = IF y \in Top.exactOut[n] THEN Top.bounds[y] ELSE DYNBOUND_ATTR
      BY <3>3
    <3> QED BY <3>4
  <2>2. RetSet = {Entry(n) : n \in Exits(mod, Name)} BY DEF RetSet
  <2> HIDE DEF Attr
  <2>3. RetSet \subseteq Words BY <2>1, <2>2, WordFacts
  <2>4. Results \subseteq Words BY <2>3, WordFacts DEF Results
  <2> QED BY <2>4
<1>4. joined \subseteq BlocksOf(mod, Name)
  <2>1. Exits(mod, Name) \subseteq BlocksOf(mod, Name) /\ UnboundExits \subseteq Exits(mod, Name)
    BY DEF Exits, UnboundExits
  <2> QED BY <2>1 DEF JoinedExits
<1>5. Common(joined) \subseteq ValuesOf(mod, Name)
  <2>1. \A n \in joined : Top.boundOut[n] \subseteq ValuesOf(mod, Name) BY <1>2, <1>4
  <2> QED BY <2>1 DEF Common
<1> QED BY <1>3, <1>5 DEF JoinWith

LEMMA ReturnInv ==
    ASSUME PassInv, Return
    PROVE  mod' = mod /\ StackInv' /\ RestInv'
<1> DEFINE l == Len(stack)
<1>1. stack # <<>> /\ mod' = mod BY DEF Return
<1>2. PICK joined \in JoinedExits, r \in Results :
        /\ local' = [local EXCEPT ![Name] = IF joined = {} THEN @ ELSE JoinWith(@, joined)]
        /\ IF Len(stack) = 1
           THEN stack' = <<>> /\ UNCHANGED retCall
           ELSE LET rest   == SubSeq(stack, 1, Len(stack) - 1)
                    caller == stack[Len(stack) - 1]
                    t      == WithAttribute(Facts(caller), caller.k, r)
                IN  /\ stack' = [rest EXCEPT ![Len(rest)] =
                          [caller EXCEPT !.bound = t.bound, !.exact = t.exact,
                                         !.bounds = t.bounds, !.k = @ + 1]]
                    /\ retCall' = [retCall EXCEPT ![<<caller.fun, caller.k>>] = r]
  BY DEF Return
<1>3. /\ r \in Words
      /\ \A old : old \subseteq ValuesOf(mod, Name)
                     => JoinWith(old, joined) \subseteq ValuesOf(mod, Name)
  BY <1>1, AnswerTypes
<1>4. /\ DOMAIN local' = FunsOf(mod)
      /\ \A f \in FunsOf(mod) : local'[f] \subseteq ValuesOf(mod, f)
  <2>1. DOMAIN local = FunsOf(mod) /\ \A f \in FunsOf(mod) : local[f] \subseteq ValuesOf(mod, f)
    BY DEF PassInv
  <2>2. DOMAIN local' = FunsOf(mod) BY <1>2, <2>1
  <2>3. ASSUME NEW f \in FunsOf(mod) PROVE local'[f] \subseteq ValuesOf(mod, f)
    <3>1. local'[f] = IF f = Name THEN (IF joined = {} THEN local[f] ELSE JoinWith(local[f], joined))
                      ELSE local[f]
      BY <1>2, <2>1
    <3> QED BY <1>3, <2>1, <3>1
  <2> QED BY <2>2, <2>3
<1>5. Sites' = Sites BY <1>1 DEF Sites
<1>6. /\ stack \in Seq(Activations(mod)) /\ l \in Nat /\ l >= 1
      /\ \A j \in 1 .. l : Good(mod, stack[j])
      /\ \A j \in 1 .. l - 1 : Calling(mod, stack[j])
  BY <1>1, TopFacts, LenProperties DEF PassInv, StackInv
<1>7. CASE l = 1
  <2>1. stack' = <<>> /\ retCall' = retCall BY <1>2, <1>7
  <2>2. stack' \in Seq(Activations(mod)) /\ Len(stack') = 0 BY <2>1, EmptySeq
  <2>3. (1 .. 0) = {} /\ (1 .. 0 - 1) = {} OBVIOUS
  <2>4. StackInv' BY <1>1, <2>2, <2>3 DEF StackInv
  <2> QED BY <1>1, <1>4, <1>5, <2>1, <2>4 DEF PassInv, RestInv
<1>8. CASE l # 1
  <2> DEFINE rest   == SubSeq(stack, 1, l - 1)
             caller == stack[l - 1]
             t      == WithAttribute(Facts(caller), caller.k, r)
             f      == caller.fun
  <2> HIDE DEF l
  <2>1. l - 1 \in 1 .. l - 1 /\ l - 1 \in 1 .. l /\ l - 1 \in Nat BY <1>6, <1>8
  <2>2. /\ rest \in Seq(Activations(mod)) /\ Len(rest) = l - 1
        /\ \A j \in 1 .. l - 1 : rest[j] = stack[j]
    <3>1. \A j \in 1 .. l - 1 : stack[j] \in Activations(mod)
      <4>1. \A j \in 1 .. l - 1 : j \in 1 .. Len(stack) BY <1>6 DEF l
      <4> QED BY <1>6, <4>1, ElementOfSeq
    <3> QED BY <1>6, <2>1, <3>1, SubSeqProperties DEF l
  <2>3. f \in Bodies(mod) /\ caller \in ActivationsOf(mod, f) /\ mod \in DOMAIN Modules
    <3>1. caller \in Activations(mod) BY <1>6, <2>1, ElementOfSeq DEF l
    <3>2. PICK g \in Bodies(mod) : caller \in ActivationsOf(mod, g) BY <3>1 DEF Activations
    <3>3. caller.fun = g BY <3>2 DEF ActivationsOf
    <3> QED BY <3>2, <3>3 DEF PassInv
  <2>4. Good(mod, caller) /\ Calling(mod, caller) BY <1>6, <2>1
  <2>5. caller.k \in Named(mod, f)
    <3>1. caller.k \in Nat /\ caller.node \in BlocksOf(mod, f) BY <2>3, <2>4 DEF ActivationsOf, Calling
    <3> DEFINE b == Block(mod, f, caller.node)
    <3>2. caller.k \in b.first .. b.last + 1 /\ caller.k <= b.last
      BY <2>4 DEF Good, InBlock, Calling
    <3>3. /\ b.first \in Nat /\ b.last \in Nat /\ 1 <= b.first /\ b.last <= Len(Fun(mod, f).insts)
          /\ Len(Fun(mod, f).insts) \in Nat /\ PositionsOf(mod, f) = 1 .. Len(Fun(mod, f).insts)
      BY <2>3, <3>1, BlockFacts
    <3>4. caller.k \in PositionsOf(mod, f)
      <4> HIDE DEF b, caller, f
      <4> QED BY <3>1, <3>2, <3>3
    <3> QED BY <2>3, <3>4, NamedFacts DEF Bodies
  <2>6. t \in FactsOf(mod, f) /\ Includes(t, caller)
    <3>1. Facts(caller) \in FactsOf(mod, f) /\ Includes(Facts(caller), caller)
      BY <2>3, <2>4, FactsInclude DEF Good
    <3> HIDE DEF caller, f
    <3> QED BY <1>3, <2>5, <3>1, WithAttributeFacts
  <2>7. Learned(caller, t) \in Activations(mod) /\ Good(mod, Learned(caller, t))
    <3> HIDE DEF caller, f, t
    <3> QED BY <2>3, <2>4, <2>6, LearnedGood DEF Activations
  <2>8. /\ stack' = [rest EXCEPT ![Len(rest)] = Learned(caller, t)]
        /\ retCall' = [retCall EXCEPT ![<<caller.fun, caller.k>>] = r]
    BY <1>2, <1>8 DEF Learned, l
  <2> HIDE DEF rest, caller, t, f
  <2>9. /\ stack' \in Seq(Activations(mod)) /\ Len(stack') = l - 1
        /\ \A j \in 1 .. l - 1 : stack'[j] = IF j = l - 1 THEN Learned(caller, t) ELSE stack[j]
    BY <2>1, <2>2, <2>7, <2>8, ExceptSeq, LenProperties
  <2>10. \A j \in 1 .. l - 1 : Good(mod, stack'[j])
    <3>1. \A j \in 1 .. l - 1 : j \in 1 .. l BY <1>6
    <3> QED BY <1>6, <2>7, <2>9, <3>1
  <2>11. \A j \in 1 .. (l - 1) - 1 : Calling(mod, stack'[j])
    <3>1. \A j \in 1 .. (l - 1) - 1 : j \in 1 .. l - 1 /\ j # l - 1 BY <1>6
    <3> QED BY <1>6, <2>9, <3>1
  <2>12. StackInv' BY <1>1, <2>9, <2>10, <2>11 DEF StackInv
  <2>13. retCall' \in [Sites -> Words] BY <1>3, <2>8 DEF PassInv
  <2> QED BY <1>1, <1>4, <1>5, <2>12, <2>13 DEF RestInv
<1> QED BY <1>7, <1>8

-----------------------------------------------------------------------------
(* The analysis starts in the invariant ...                                *)
LEMMA InitInv == Init => PassInv
<1> SUFFICES ASSUME Init PROVE PassInv OBVIOUS
<1>1. mod \in DOMAIN Modules BY DEF Init
<1>2. StackInv
  <2>1. CASE "main" \in FunsOf(mod)
    <3> DEFINE args == [k \in DOMAIN Fun(mod, "main").params |-> UNBOUND_ATTR]
               a == Activation("main", args)
    <3>1. stack = <<a>> BY <2>1 DEF Init
    <3>2. "main" \in Bodies(mod) /\ Fun(mod, "main").params \in Seq(Words)
      BY <1>1, <2>1, ModulesAssumption DEF WellFormed, Bodies
    <3>3. args \in Attributes(Len(Fun(mod, "main").params))
      <4>1. DOMAIN Fun(mod, "main").params = 1 .. Len(Fun(mod, "main").params)
        BY <3>2, LenProperties
      <4> QED BY <4>1, WordFacts DEF Attributes
    <3> HIDE DEF args
    <3>4. a \in Activations(mod) /\ Good(mod, a)
      BY <1>1, <3>2, <3>3, ActivationGood DEF Activations
    <3> HIDE DEF a
    <3>5. stack \in Seq(Activations(mod)) /\ Len(stack) = 1 /\ stack[1] = a BY <3>1, <3>4
    <3>6. (1 .. 1 - 1) = {} /\ \A j \in 1 .. 1 : j = 1 OBVIOUS
    <3> QED BY <3>4, <3>5, <3>6 DEF StackInv
  <2>2. CASE "main" \notin FunsOf(mod)
    <3>1. stack = <<>> BY <2>2 DEF Init
    <3>2. stack \in Seq(Activations(mod)) /\ Len(stack) = 0 BY <3>1, EmptySeq
    <3>3. (1 .. 0) = {} /\ (1 .. 0 - 1) = {} OBVIOUS
    <3> QED BY <3>2, <3>3 DEF StackInv
  <2> QED BY <2>1, <2>2
<1>3. retCall \in [Sites -> Words] BY WordFacts DEF Init
<1>4. DOMAIN local = FunsOf(mod) /\ \A f \in FunsOf(mod) : local[f] \subseteq ValuesOf(mod, f)
  BY DEF Init, NotSeen, ValuesOf
<1> QED BY <1>1, <1>2, <1>3, <1>4 DEF PassInv

(* ... and no step leaves it.                                              *)
LEMMA NextInv ==
    ASSUME PassInv, [Next]_vars
    PROVE  PassInv'
<1>1. CASE Next
  <2>1. mod' = mod /\ StackInv' /\ RestInv'
    <3>1. CASE stack # <<>> /\ \E n \in Top.worklist : Dequeue(n) BY <3>1, DequeueInv
    <3>2. CASE \/ VisitAlloca \/ VisitPhi \/ VisitGep \/ VisitCast
               \/ VisitAllocator \/ VisitReturnsArgument \/ VisitOther \/ ReuseCall
      BY <3>2, VisitInv
    <3>3. CASE CallDeclaration BY <3>3, DeclarationInv
    <3>4. CASE EnterCall BY <3>4, EnterInv
    <3>5. CASE EndBlock BY <3>5, EndBlockInv
    <3>6. CASE Return BY <3>6, ReturnInv
    <3> QED BY <1>1, <3>1, <3>2, <3>3, <3>4, <3>5, <3>6 DEF Next, VisitInst
  <2> QED BY <2>1 DEF PassInv, RestInv
<1>2. CASE UNCHANGED vars
  <2>1. Sites' = Sites BY <1>2 DEF vars, Sites
  <2> QED BY <1>2, <2>1 DEF vars, PassInv, StackInv
<1> QED BY <1>1, <1>2

(* The inductive invariant holds throughout: activations are nested calls, *)
(* each carries what its blocks have handed on.                            *)
THEOREM PassInvariant == Spec => []PassInv
BY InitInv, NextInv, PTL DEF Spec

(* Every reachable state is well typed: the pass reads only what exists.   *)
THEOREM PassTypeCorrect == Spec => []TypeOK
<1>1. PassInv => TypeOK
  <2> SUFFICES ASSUME PassInv PROVE TypeOK OBVIOUS
  <2>1. mod \in DOMAIN Modules /\ stack \in Seq(Activations(mod)) BY DEF PassInv, StackInv
  <2>2. Len(stack) \in Nat /\ DOMAIN stack = 1 .. Len(stack) BY <2>1, LenProperties
  <2>3. ASSUME NEW j \in DOMAIN stack PROVE ActivationOK(stack[j])
    <3> DEFINE a == stack[j]
    <3>1. PICK f \in Bodies(mod) : a \in ActivationsOf(mod, f)
      BY <2>1, <2>2, ElementOfSeq DEF Activations
    <3>2. Good(mod, a) BY <2>2 DEF PassInv, StackInv
    <3> HIDE DEF a
    <3>3. /\ a.fun = f /\ f \in FunsOf(mod) /\ Fun(mod, f).blocks # <<>>
          /\ a.args \in Attributes(Len(Fun(mod, f).params))
          /\ a.worklist \subseteq BlocksOf(mod, f) /\ a.visits \subseteq BlocksOf(mod, f)
          /\ a.node \in BlocksOf(mod, f) \cup {Idle}
          /\ a.bounds \in [ValuesOf(mod, f) -> Words]
          /\ a.bound \subseteq Named(mod, f)
          /\ \A n \in BlocksOf(mod, f) : a.boundOut[n] \subseteq Named(mod, f)
      BY <3>1 DEF ActivationsOf, Bodies
    <3>4. Named(mod, f) = ValuesOf(mod, f) \ {Outside} BY <2>1, <3>3, NamedFacts
    <3>5. ActivationOK(a) BY <3>2, <3>3, <3>4 DEF ActivationOK, Good, Nested, InBlock
    <3> QED BY <3>5 DEF a
  <2>4. \A j \in 1 .. Len(stack) - 1 : stack[j].node # Idle
    BY DEF PassInv, StackInv, Calling
  <2> QED BY <2>1, <2>3, <2>4 DEF TypeOK, PassInv
<1> QED BY <1>1, PassInvariant, PTL

(* No change is lost, whatever the order of the worklist and whatever the  *)
(* calls answer: what a block knows its successors know, or they wait. An  *)
(* activation that returns has reached a fixpoint.                         *)
THEOREM PassPropagates == Spec => []Propagated
<1>1. PassInv => Propagated
  <2> SUFFICES ASSUME PassInv, NEW j \in DOMAIN stack, NEW p \in stack[j].visits \ {stack[j].node},
                      NEW n \in Block(mod, stack[j].fun, p).succs \ stack[j].worklist
               PROVE  LET a == stack[j] IN
                      /\ n \in a.visits
                      /\ a.boundOut[p] \subseteq (IF n = a.node THEN a.bound ELSE a.boundOut[n])
                      /\ a.exactOut[p] \subseteq (IF n = a.node THEN a.exact ELSE a.exactOut[n])
    BY DEF Propagated
  <2>1. Good(mod, stack[j])
    <3>1. stack \in Seq(Activations(mod)) BY DEF PassInv, StackInv
    <3>2. DOMAIN stack = 1 .. Len(stack) BY <3>1, LenProperties
    <3> QED BY <3>2 DEF PassInv, StackInv
  <2> QED BY <2>1 DEF Good, Carried
<1> QED BY <1>1, PassInvariant, PTL

-----------------------------------------------------------------------------
(***************************************************************************)
(* What the values of a module can be when it runs. A function has its     *)
(* arguments, C, and with them every value v a set of pointers p: the      *)
(* largest set of <<f, C, v, p>> in which each is made from others as the  *)
(* instructions make them (Meanings). Whatever the analysis claims of a    *)
(* value is a claim about this set, which holds once and for all; it does  *)
(* not matter when, and how often, a block or a call was visited.          *)
(***************************************************************************)
RunPointers == [size : Nat, off : Int]
Vectors(m, f) == [DOMAIN Fun(m, f).params -> RunPointers]

(* The value u may be p; what has no name may be anything.                 *)
Has(S, f, C, u, p) == p \in RunPointers /\ (u = Outside \/ <<f, C, u, p>> \in S)

(* The call passes D, and f may return p.                                  *)
Passes(S, f, C, inst, D) == \A k \in DOMAIN D : Has(S, f, C, inst.operands[k], D[k])
Returns(m, S, f, C, p) ==
    \E n \in BlocksOf(m, f) :
        Block(m, f, n).ret # <<>> /\ Has(S, f, C, Block(m, f, n).ret[1], p)

Makes(m, S, f, C, inst, p) ==
    \/ IsAllocation(inst) /\ p \in Allocated(inst)
    \/ inst.op = "phi" /\ \E k \in DOMAIN inst.operands : Has(S, f, C, inst.operands[k], p)
    \/ inst.op = "gep" /\ \E q : Has(S, f, C, inst.operands[1], q) /\ p \in Stepped(inst, q)
    \/ inst.op = "cast" /\ (inst.operands # <<>> => Has(S, f, C, inst.operands[1], p))
    \/ /\ inst.op = "call" /\ inst.callee \in ReturnsArgument
       /\ Has(S, f, C, ReturnedArg(inst), p)
    \/ inst.op \in {"load", "store"}
    \/ inst.op = "call" /\ inst.callee \in {"indirect", "noop"}
    \/ inst.op = "call" /\ inst.callee \in FunsOf(m) \ Bodies(m)
    \/ /\ inst.op = "call" /\ inst.callee \in Bodies(m) /\ Fun(m, inst.callee).retPtr
       /\ \E D \in Vectors(m, inst.callee) :
             Passes(S, f, C, inst, D) /\ Returns(m, S, inst.callee, D, p)

MadeIn(m, S, f, C, v, p) ==
    \/ \E k \in DOMAIN Fun(m, f).params : v = Arg(k) /\ p = C[k]
    \/ \E k \in DOMAIN Modules[m].globals :
          v = Global(k) /\ p = [size |-> Modules[m].globals[k], off |-> 0]
    \/ v \in PositionsOf(m, f) /\ Makes(m, S, f, C, Fun(m, f).insts[v], p)

Universe(m) ==
    UNION {{f} \X Vectors(m, f) \X Named(m, f) \X RunPointers : f \in Bodies(m)}

Meanings(m) ==
    UNION {S \in SUBSET Universe(m) :
              \A f, C, v, p : <<f, C, v, p>> \in S => MadeIn(m, S, f, C, v, p)}

Means(m, f, C, v, p) == <<f, C, v, p>> \in Meanings(m)

(* More meanings make more.                                                *)
LEMMA MadeGrows ==
    ASSUME NEW m, NEW S, NEW T, S \subseteq T, NEW f, NEW C, NEW v, NEW p, MadeIn(m, S, f, C, v, p)
    PROVE  MadeIn(m, T, f, C, v, p)
<1>1. \A g, D, u, q : Has(S, g, D, u, q) => Has(T, g, D, u, q) BY DEF Has
<1>2. ASSUME NEW inst, Makes(m, S, f, C, inst, p) PROVE Makes(m, T, f, C, inst, p)
  <2>1. CASE inst.op = "call" /\ inst.callee \in Bodies(m) /\ Fun(m, inst.callee).retPtr
             /\ \E D \in Vectors(m, inst.callee) :
                   Passes(S, f, C, inst, D) /\ Returns(m, S, inst.callee, D, p)
    <3>1. PICK D \in Vectors(m, inst.callee) :
              Passes(S, f, C, inst, D) /\ Returns(m, S, inst.callee, D, p)
      BY <2>1
    <3>2. Passes(T, f, C, inst, D) BY <1>1, <3>1 DEF Passes
    <3>3. Returns(m, T, inst.callee, D, p) BY <1>1, <3>1 DEF Returns
    <3> QED BY <2>1, <3>2, <3>3 DEF Makes
  <2>2. CASE inst.op = "gep" /\ \E q : Has(S, f, C, inst.operands[1], q) /\ p \in Stepped(inst, q)
    BY <1>1, <2>2 DEF Makes
  <2>3. CASE inst.op = "phi" /\ \E k \in DOMAIN inst.operands : Has(S, f, C, inst.operands[k], p)
    BY <1>1, <2>3 DEF Makes
  <2>4. CASE inst.op = "cast" /\ (inst.operands # <<>> => Has(S, f, C, inst.operands[1], p))
    BY <1>1, <2>4 DEF Makes
  <2>5. CASE inst.op = "call" /\ inst.callee \in ReturnsArgument
             /\ Has(S, f, C, ReturnedArg(inst), p)
    BY <1>1, <2>5 DEF Makes
  <2> QED BY <1>2, <2>1, <2>2, <2>3, <2>4, <2>5 DEF Makes
<1> QED BY <1>2 DEF MadeIn

(* The meanings are made from the meanings, ...                            *)
LEMMA MeaningMade ==
    ASSUME NEW m, NEW f, NEW C, NEW v, NEW p, Means(m, f, C, v, p)
    PROVE  MadeIn(m, Meanings(m), f, C, v, p)
<1>1. PICK S \in SUBSET Universe(m) :
          /\ <<f, C, v, p>> \in S
          /\ \A g, D, u, q : <<g, D, u, q>> \in S => MadeIn(m, S, g, D, u, q)
  BY DEF Means, Meanings
<1>2. S \subseteq Meanings(m) BY <1>1 DEF Meanings
<1>3. MadeIn(m, S, f, C, v, p) BY <1>1
<1> QED BY <1>2, <1>3, MadeGrows

LEMMA MeaningTyped ==
    ASSUME NEW m, NEW f, NEW C, NEW v, NEW p, Means(m, f, C, v, p)
    PROVE  f \in Bodies(m) /\ C \in Vectors(m, f) /\ v \in Named(m, f) /\ p \in RunPointers
<1>1. <<f, C, v, p>> \in Universe(m) BY DEF Means, Meanings
<1>2. PICK g \in Bodies(m) : <<f, C, v, p>> \in {g} \X Vectors(m, g) \X Named(m, g) \X RunPointers
  BY <1>1 DEF Universe
<1> QED BY <1>2

(* ... and what is made from them is one of them.                          *)
LEMMA MadeMeans ==
    ASSUME NEW m, NEW f \in Bodies(m), NEW C \in Vectors(m, f), NEW v \in Named(m, f),
           NEW p \in RunPointers, MadeIn(m, Meanings(m), f, C, v, p)
    PROVE  Means(m, f, C, v, p)
<1> DEFINE x == <<f, C, v, p>>
           S == Meanings(m) \cup {x}
<1>1. x \in Universe(m)
  <2>1. x \in {f} \X Vectors(m, f) \X Named(m, f) \X RunPointers OBVIOUS
  <2> QED BY <2>1 DEF Universe
<1>2. Meanings(m) \subseteq Universe(m) BY DEF Meanings
<1>3. S \in SUBSET Universe(m) BY <1>1, <1>2
<1>4. ASSUME NEW g, NEW D, NEW u, NEW q, <<g, D, u, q>> \in S PROVE MadeIn(m, S, g, D, u, q)
  <2>1. CASE Means(m, g, D, u, q)
    <3>1. MadeIn(m, Meanings(m), g, D, u, q) BY <2>1, MeaningMade
    <3>2. Meanings(m) \subseteq S OBVIOUS
    <3> HIDE DEF S
    <3> QED BY <3>1, <3>2, MadeGrows
  <2>2. CASE ~Means(m, g, D, u, q)
    <3>1. <<g, D, u, q>> = <<f, C, v, p>> BY <1>4, <2>2 DEF Means
    <3>2. g = f /\ D = C /\ u = v /\ q = p BY <3>1
    <3>3. Meanings(m) \subseteq S OBVIOUS
    <3> HIDE DEF S
    <3> QED BY <3>2, <3>3, MadeGrows
  <2> QED BY <2>1, <2>2
<1>5. S \subseteq Meanings(m)
  <2> HIDE DEF S
  <2> QED BY <1>3, <1>4 DEF Meanings
<1> QED BY <1>5 DEF Means

-----------------------------------------------------------------------------
(* A number stands for an argument, a global or an instruction, and for    *)
(* one only.                                                               *)
LEMMA Indices ==
    ASSUME NEW m \in DOMAIN Modules, NEW f \in Bodies(m)
    PROVE  /\ DOMAIN Fun(m, f).params \subseteq Nat \ {0}
           /\ DOMAIN Modules[m].globals \subseteq Nat \ {0}
           /\ PositionsOf(m, f) \subseteq Nat \ {0}
           /\ \A k \in DOMAIN Fun(m, f).params : Fun(m, f).params[k] \in Words
           /\ \A k \in DOMAIN Modules[m].globals : Modules[m].globals[k] \in Words
<1>1. f \in FunsOf(m) BY DEF Bodies
<1>2. /\ Modules[m].globals \in Seq(Words)
      /\ Fun(m, f).params \in Seq(Words)
  BY <1>1, ModulesAssumption DEF WellFormed
<1>3. \A s \in Seq(Words) : DOMAIN s \subseteq Nat \ {0} /\ \A k \in DOMAIN s : s[k] \in Words
  <2> SUFFICES ASSUME NEW s \in Seq(Words)
               PROVE  DOMAIN s \subseteq Nat \ {0} /\ \A k \in DOMAIN s : s[k] \in Words
    OBVIOUS
  <2>1. Len(s) \in Nat /\ DOMAIN s = 1 .. Len(s) BY LenProperties
  <2> QED BY <2>1, ElementOfSeq
<1>4. PositionsOf(m, f) \subseteq Nat \ {0} BY BlockFacts
<1> QED BY <1>2, <1>3, <1>4

LEMMA Kinds ==
    ASSUME NEW m \in DOMAIN Modules, NEW f \in Bodies(m)
    PROVE  /\ \A j, k \in DOMAIN Fun(m, f).params : Arg(j) = Arg(k) => j = k
           /\ \A j, k \in DOMAIN Modules[m].globals : Global(j) = Global(k) => j = k
           /\ \A v \in PositionsOf(m, f) :
                 /\ \A k \in DOMAIN Fun(m, f).params : v # Arg(k)
                 /\ \A k \in DOMAIN Modules[m].globals : v # Global(k)
           /\ \A j \in DOMAIN Fun(m, f).params : \A k \in DOMAIN Modules[m].globals :
                 Arg(j) # Global(k)
<1>1. \A j, k \in Nat \ {0} :
          /\ Arg(j) = Arg(k) => j = k
          /\ Global(j) = Global(k) => j = k
          /\ Arg(j) # Global(k)
          /\ j # Arg(k) /\ j # Global(k)
  BY DEF Arg, Global
<1>2. /\ DOMAIN Fun(m, f).params \subseteq Nat \ {0}
      /\ DOMAIN Modules[m].globals \subseteq Nat \ {0}
      /\ PositionsOf(m, f) \subseteq Nat \ {0}
  BY Indices
<1> QED BY <1>1, <1>2

(* What the values of each kind mean, and the size of their pointee.       *)
LEMMA ArgMeans ==
    ASSUME NEW m \in DOMAIN Modules, NEW f \in Bodies(m), NEW k \in DOMAIN Fun(m, f).params
    PROVE  /\ Arg(k) \in Named(m, f)
           /\ PointeeSize(m, f, Arg(k)) = Fun(m, f).params[k]
           /\ \A C, p : Means(m, f, C, Arg(k), p) => p = C[k]
<1>1. Arg(k) \in ArgsOf(m, f) /\ Arg(k) \notin PositionsOf(m, f) /\ Arg(k) \notin GlobalsOf(m)
  BY Kinds DEF ArgsOf, GlobalsOf
<1>2. (CHOOSE j \in DOMAIN Fun(m, f).params : Arg(j) = Arg(k)) = k BY Kinds
<1>3. PointeeSize(m, f, Arg(k)) = Fun(m, f).params[k] BY <1>1, <1>2 DEF PointeeSize
<1>4. ASSUME NEW C, NEW p, Means(m, f, C, Arg(k), p) PROVE p = C[k]
  <2>1. MadeIn(m, Meanings(m), f, C, Arg(k), p) BY <1>4, MeaningMade
  <2> QED BY <1>1, <2>1, Kinds DEF MadeIn
<1> QED BY <1>1, <1>3, <1>4 DEF Named

LEMMA GlobalMeans ==
    ASSUME NEW m \in DOMAIN Modules, NEW f \in Bodies(m), NEW k \in DOMAIN Modules[m].globals
    PROVE  /\ Global(k) \in Named(m, f)
           /\ PointeeSize(m, f, Global(k)) = Modules[m].globals[k]
           /\ \A C, p : Means(m, f, C, Global(k), p)
                           => p = [size |-> Modules[m].globals[k], off |-> 0]
<1>1. Global(k) \in GlobalsOf(m) /\ Global(k) \notin PositionsOf(m, f) BY Kinds DEF GlobalsOf
<1>2. Global(k) \notin ArgsOf(m, f) BY Kinds DEF ArgsOf
<1>3. (CHOOSE j \in DOMAIN Modules[m].globals : Global(j) = Global(k)) = k BY Kinds
<1>4. PointeeSize(m, f, Global(k)) = Modules[m].globals[k]
  BY <1>1, <1>2, <1>3 DEF PointeeSize
<1>5. ASSUME NEW C, NEW p, Means(m, f, C, Global(k), p)
      PROVE  p = [size |-> Modules[m].globals[k], off |-> 0]
  <2>1. MadeIn(m, Meanings(m), f, C, Global(k), p) BY <1>5, MeaningMade
  <2> QED BY <1>1, <2>1, Kinds DEF MadeIn
<1> QED BY <1>1, <1>4, <1>5 DEF Named

LEMMA InstMeans ==
    ASSUME NEW m \in DOMAIN Modules, NEW f \in Bodies(m), NEW v \in PositionsOf(m, f)
    PROVE  /\ v \in Named(m, f)
           /\ PointeeSize(m, f, v) = Fun(m, f).insts[v].deref
           /\ \A C, p : Means(m, f, C, v, p) => Makes(m, Meanings(m), f, C, Fun(m, f).insts[v], p)
<1>1. PointeeSize(m, f, v) = Fun(m, f).insts[v].deref
  <2>1. v \notin ArgsOf(m, f) /\ v \notin GlobalsOf(m) BY Kinds DEF ArgsOf, GlobalsOf
  <2> QED BY <2>1 DEF PointeeSize
<1>2. ASSUME NEW C, NEW p, Means(m, f, C, v, p)
      PROVE  Makes(m, Meanings(m), f, C, Fun(m, f).insts[v], p)
  <2>1. MadeIn(m, Meanings(m), f, C, v, p) BY <1>2, MeaningMade
  <2> QED BY <2>1, Kinds DEF MadeIn
<1> QED BY <1>1, <1>2 DEF Named

(* Whatever has a meaning points to a pointee of some size.                *)
LEMMA SizeType ==
    ASSUME NEW m \in DOMAIN Modules, NEW f \in Bodies(m), NEW v \in Named(m, f)
    PROVE  PointeeSize(m, f, v) \in Nat
<1>1. CASE v \in PositionsOf(m, f)
  <2>1. Fun(m, f).insts[v] \in Insts(ValuesOf(m, f), FunsOf(m)) BY <1>1, InstFacts
  <2>2. Fun(m, f).insts[v].deref \in Words BY <2>1 DEF Insts
  <2> QED BY <1>1, <2>2, InstMeans DEF Words
<1>2. CASE v \in ArgsOf(m, f)
  <2>1. PICK k \in DOMAIN Fun(m, f).params : v = Arg(k) BY <1>2 DEF ArgsOf
  <2>2. PointeeSize(m, f, v) = Fun(m, f).params[k] BY <2>1, ArgMeans
  <2> QED BY <2>2, Indices DEF Words
<1>3. CASE v \in GlobalsOf(m)
  <2>1. PICK k \in DOMAIN Modules[m].globals : v = Global(k) BY <1>3 DEF GlobalsOf
  <2>2. PointeeSize(m, f, v) = Modules[m].globals[k] BY <2>1, GlobalMeans
  <2> QED BY <2>2, Indices DEF Words
<1> QED BY <1>1, <1>2, <1>3 DEF Named

-----------------------------------------------------------------------------
(***************************************************************************)
(* What the analysis claims. An attribute says something of a pointer to n *)
(* bytes; arguments match the attributes a function is analysed for; and a *)
(* claim about a value of f holds for all arguments that match.            *)
(***************************************************************************)
Granted(attr, p, n) ==
    attr # UNBOUND_ATTR =>
        /\ Addresses(p, n)
        /\ attr # DYNBOUND_ATTR => p.off + attr = p.size

Matches(m, f, args, C) ==
    \A k \in DOMAIN Fun(m, f).params : Granted(args[k], C[k], Fun(m, f).params[k])

InBounds(m, f, args, v) ==
    \A C, p : Matches(m, f, args, C) /\ Means(m, f, C, v, p) => Addresses(p, PointeeSize(m, f, v))

ExactAt(m, f, args, v, n) ==
    \A C, p : Matches(m, f, args, C) /\ Means(m, f, C, v, p) => p.off + n = p.size

Valid(m, f, args, t) ==
    /\ \A v \in t.bound : InBounds(m, f, args, v)
    /\ \A v \in t.exact : ExactAt(m, f, args, v, t.bounds[v])

(* Whatever f returns when it is called like this has the attribute r.     *)
Answers(m, f, args, r) ==
    \A D \in Vectors(m, f) : Matches(m, f, args, D) =>
        \A n \in BlocksOf(m, f) : \A p :
            Block(m, f, n).ret # <<>> /\ Has(Meanings(m), f, D, Block(m, f, n).ret[1], p) =>
                \A size \in Nat :
                    Suits(m, f, Block(m, f, n).ret[1], size) => Granted(r, p, size)

(* The modules the theorem is about.                                       *)
Analysable(m) == WellTyped(m) /\ StepsForward(m) /\ FollowsCalls(m)

LEMMA AddressesLess ==
    ASSUME NEW p \in RunPointers, NEW n \in Nat, NEW k \in Nat, Addresses(p, n), k <= n
    PROVE  Addresses(p, k)
<1>1. p.off \in Int /\ p.size \in Nat BY DEF RunPointers
<1> QED BY <1>1 DEF Addresses

(* A claim is one about smaller pointees, too.                             *)
LEMMA InBoundsSuits ==
    ASSUME NEW m \in DOMAIN Modules, NEW f \in Bodies(m), NEW args, NEW C, NEW u \in Named(m, f),
           NEW p, NEW size \in Nat,
           InBounds(m, f, args, u), Matches(m, f, args, C), Means(m, f, C, u, p), Suits(m, f, u, size)
    PROVE  Addresses(p, size)
<1>1. Addresses(p, PointeeSize(m, f, u)) BY DEF InBounds
<1>2. p \in RunPointers /\ PointeeSize(m, f, u) \in Nat BY MeaningTyped, SizeType
<1>3. u # Outside
  <2>1. f \in FunsOf(m) BY DEF Bodies
  <2> QED BY <2>1, NamedFacts
<1> QED BY <1>1, <1>2, <1>3, AddressesLess DEF Suits

(* An attribute that is looked up is true of the value.                    *)
LEMMA AttributeTrue ==
    ASSUME NEW m \in DOMAIN Modules, NEW f \in Bodies(m), NEW args, NEW t \in FactsOf(m, f),
           t.exact \subseteq t.bound, Valid(m, f, args, t),
           NEW C, Matches(m, f, args, C), NEW u, NEW p, Has(Meanings(m), f, C, u, p),
           NEW size \in Nat, Suits(m, f, u, size)
    PROVE  Granted(Attribute(t, u), p, size)
<1>1. t.bound \subseteq Named(m, f) /\ Outside \notin Named(m, f)
  <2>1. f \in FunsOf(m) BY DEF Bodies
  <2> QED BY <2>1, NamedFacts DEF FactsOf
<1>2. CASE u \in t.exact
  <2>1. u \in t.bound /\ u \in Named(m, f) /\ u # Outside BY <1>1, <1>2
  <2>2. Means(m, f, C, u, p) BY <2>1 DEF Has, Means
  <2>3. Attribute(t, u) = t.bounds[u] BY <1>2 DEF Attribute
  <2>4. Addresses(p, size) BY <2>1, <2>2, InBoundsSuits DEF Valid
  <2>5. p.off + t.bounds[u] = p.size BY <1>2, <2>2 DEF Valid, ExactAt
  <2> QED BY <2>3, <2>4, <2>5 DEF Granted
<1>3. CASE u \in t.bound \ t.exact
  <2>1. u \in Named(m, f) /\ u # Outside BY <1>1, <1>3
  <2>2. Means(m, f, C, u, p) BY <2>1 DEF Has, Means
  <2>3. Attribute(t, u) = DYNBOUND_ATTR BY <1>3 DEF Attribute
  <2>4. Addresses(p, size) BY <1>3, <2>1, <2>2, InBoundsSuits DEF Valid
  <2> QED BY <2>3, <2>4 DEF Granted
<1>4. CASE u \notin t.bound
  <2>1. Attribute(t, u) = UNBOUND_ATTR BY <1>4 DEF Attribute
  <2> QED BY <2>1 DEF Granted
<1> QED BY <1>2, <1>3, <1>4

(* Functions and library functions are told apart by their names.          *)
LEMMA NamesDiffer ==
    ASSUME NEW m \in DOMAIN Modules, NEW g \in FunsOf(m)
    PROVE  /\ g \notin SizedAllocators \cup TableAllocators /\ g \notin ReturnsArgument
           /\ g \notin {"indirect", "noop"}
BY ModulesAssumption DEF WellFormed, Library

(* Of the ways to make a value only that of its instruction is left.       *)
LEMMA OneWay ==
    ASSUME NEW m \in DOMAIN Modules, NEW S, NEW f, NEW C, NEW inst, NEW p,
           Makes(m, S, f, C, inst, p)
    PROVE  /\ IsAllocation(inst) => p \in Allocated(inst)
           /\ inst.op = "phi" => \E k \in DOMAIN inst.operands : Has(S, f, C, inst.operands[k], p)
           /\ inst.op = "gep" =>
                 \E q : Has(S, f, C, inst.operands[1], q) /\ p \in Stepped(inst, q)
           /\ inst.op = "cast" /\ inst.operands # <<>> => Has(S, f, C, inst.operands[1], p)
           /\ inst.op = "call" /\ inst.callee \in ReturnsArgument
                 => Has(S, f, C, ReturnedArg(inst), p)
           /\ inst.op = "call" /\ inst.callee \in Bodies(m) =>
                 /\ Fun(m, inst.callee).retPtr
                 /\ \E D \in Vectors(m, inst.callee) :
                       Passes(S, f, C, inst, D) /\ Returns(m, S, inst.callee, D, p)
<1>1. \A g \in FunsOf(m) : /\ g \notin SizedAllocators \cup TableAllocators
                           /\ g \notin ReturnsArgument /\ g \notin {"indirect", "noop"}
  BY NamesDiffer
<1>2. Bodies(m) \subseteq FunsOf(m) BY DEF Bodies
<1>3. IsAllocation(inst) => \/ inst.op = "alloca"
                            \/ inst.op = "call" /\ inst.callee \in SizedAllocators \cup TableAllocators
  BY DEF IsAllocation
<1>4. /\ (SizedAllocators \cup TableAllocators) \cap ReturnsArgument = {}
      /\ "indirect" \notin SizedAllocators \cup TableAllocators \cup ReturnsArgument
      /\ "noop" \notin SizedAllocators \cup TableAllocators \cup ReturnsArgument
  BY DEF SizedAllocators, TableAllocators, ReturnsArgument
<1>5. CASE IsAllocation(inst) BY <1>1, <1>2, <1>3, <1>4, <1>5 DEF Makes
<1>6. CASE inst.op = "phi" BY <1>3, <1>6 DEF Makes
<1>7. CASE inst.op = "gep" BY <1>3, <1>7 DEF Makes
<1>8. CASE inst.op = "cast" BY <1>3, <1>8 DEF Makes
<1>9. CASE inst.op = "call" /\ inst.callee \in ReturnsArgument
  BY <1>1, <1>2, <1>3, <1>4, <1>9 DEF Makes
<1>10. CASE inst.op = "call" /\ inst.callee \in Bodies(m)
  BY <1>1, <1>2, <1>3, <1>4, <1>10 DEF Makes
<1> QED BY <1>5, <1>6, <1>7, <1>8, <1>9, <1>10

-----------------------------------------------------------------------------
(* A size known at compile time is the product of two numbers.             *)
LEMMA RequestedType ==
    ASSUME NEW Value, NEW Function, NEW inst \in Insts(Value, Function), Arity(inst),
           HasConstSize(inst)
    PROVE  RequestedSize(inst) \in Nat
<1>1. /\ SizeFactors(inst)[1] \in Words \cup {NonConst, 1}
      /\ SizeFactors(inst)[2] \in Words \cup {NonConst, 1}
  <2>1. CASE inst.op = "alloca" BY <2>1 DEF SizeFactors, Insts, Arity
  <2>2. CASE inst.op # "alloca" /\ inst.callee = "calloc"
    BY <2>2 DEF SizeFactors, Insts, Arity, HasConstSize
  <2>3. CASE inst.op # "alloca" /\ inst.callee = "memalign"
    BY <2>3 DEF SizeFactors, Insts, Arity, HasConstSize
  <2>4. CASE inst.op # "alloca" /\ inst.callee \in {"malloc", "valloc"}
    BY <2>4 DEF SizeFactors, Insts, Arity, HasConstSize
  <2> QED BY <2>1, <2>2, <2>3, <2>4 DEF HasConstSize, SizedAllocators
<1>2. SizeFactors(inst)[1] \in Nat /\ SizeFactors(inst)[2] \in Nat
  BY <1>1 DEF HasConstSize, Words
<1>3. \A x, y \in Nat : x * y \in Nat OBVIOUS
<1> QED BY <1>2, <1>3 DEF RequestedSize

LEMMA WrapWord == \A n \in Nat : n < Word => Wrap(n) = n
BY WordAssumption DEF Wrap

(* The instruction at v, and what Analysable says of it.                   *)
LEMMA AnalysableInst ==
    ASSUME NEW m \in DOMAIN Modules, NEW f \in Bodies(m), NEW v \in PositionsOf(m, f), Analysable(m),
           NEW inst, inst = Fun(m, f).insts[v]
    PROVE  /\ inst \in Insts(ValuesOf(m, f), FunsOf(m)) /\ Arity(inst)
           /\ inst.deref \in Nat /\ 2 * inst.deref < Word
           /\ IsAllocation(inst) /\ HasConstSize(inst) => inst.deref <= RequestedSize(inst)
           /\ inst.op = "phi" =>
                 \A k \in DOMAIN inst.operands : Suits(m, f, inst.operands[k], inst.deref)
           /\ inst.op = "call" /\ inst.callee \in ReturnsArgument =>
                 Suits(m, f, ReturnedArg(inst), inst.deref)
           /\ inst.op = "call" /\ inst.callee \in FunsOf(m) =>
                 /\ \A k \in DOMAIN Fun(m, inst.callee).params :
                       Suits(m, f, inst.operands[k], Fun(m, inst.callee).params[k])
                 /\ \A n \in BlocksOf(m, inst.callee) :
                       \A k \in DOMAIN Block(m, inst.callee, n).ret :
                          Suits(m, inst.callee, Block(m, inst.callee, n).ret[k], inst.deref)
           /\ inst.op = "gep" /\ inst.consts[1] # NonConst => 2 * inst.consts[1] < Word
           /\ inst.op = "call" /\ HasConstSize(inst) => 2 * RequestedSize(inst) < IntWord
<1>1. f \in FunsOf(m) /\ WellTyped(m) /\ StepsForward(m) BY DEF Bodies, Analysable
<1>2. inst \in Insts(ValuesOf(m, f), FunsOf(m)) /\ Arity(inst) BY InstFacts
<1>3. inst.deref \in Nat BY <1>2 DEF Insts, Words
<1>4. /\ 2 * inst.deref < Word
      /\ inst.op = "gep" /\ inst.consts[1] # NonConst => 2 * inst.consts[1] < Word
      /\ inst.op = "call" /\ HasConstSize(inst) => 2 * RequestedSize(inst) < IntWord
  BY <1>1 DEF StepsForward
<1>5. /\ IsAllocation(inst) /\ HasConstSize(inst) => inst.deref <= RequestedSize(inst)
      /\ inst.op = "phi" =>
            \A k \in DOMAIN inst.operands : Suits(m, f, inst.operands[k], inst.deref)
      /\ inst.op = "call" /\ inst.callee \in ReturnsArgument =>
            Suits(m, f, ReturnedArg(inst), inst.deref)
      /\ inst.op = "call" /\ inst.callee \in FunsOf(m) =>
            /\ \A k \in DOMAIN Fun(m, inst.callee).params :
                  Suits(m, f, inst.operands[k], Fun(m, inst.callee).params[k])
            /\ \A n \in BlocksOf(m, inst.callee) :
                  \A k \in DOMAIN Block(m, inst.callee, n).ret :
                     Suits(m, inst.callee, Block(m, inst.callee, n).ret[k], inst.deref)
  BY <1>1 DEF WellTyped
<1> QED BY <1>2, <1>3, <1>4, <1>5

(* A claim about the value of an instruction is one about how it is made.  *)
LEMMA InstClaims ==
    ASSUME NEW m \in DOMAIN Modules, NEW f \in Bodies(m), NEW v \in PositionsOf(m, f), NEW args,
           NEW inst, inst = Fun(m, f).insts[v]
    PROVE  /\ (\A C, p : Matches(m, f, args, C) /\ Means(m, f, C, v, p) => Addresses(p, inst.deref))
                 => InBounds(m, f, args, v)
           /\ \A C, p : Means(m, f, C, v, p) =>
                 Makes(m, Meanings(m), f, C, inst, p) /\ p \in RunPointers
BY InstMeans, MeaningTyped DEF InBounds

(* Allocations.                                                            *)
LEMMA AllocationTrue ==
    ASSUME NEW m \in DOMAIN Modules, NEW f \in Bodies(m), NEW v \in PositionsOf(m, f), Analysable(m),
           NEW args, NEW inst, inst = Fun(m, f).insts[v], IsAllocation(inst)
    PROVE  /\ InBounds(m, f, args, v)
           /\ HasConstSize(inst) => /\ ExactAt(m, f, args, v, Wrap(RequestedSize(inst)))
                                    /\ inst.op = "call" =>
                                          ExactAt(m, f, args, v, IntSize(Wrap(RequestedSize(inst))))
<1>1. ASSUME NEW C, NEW p, Means(m, f, C, v, p)
      PROVE  p \in Allocated(inst)
  BY <1>1, InstClaims, OneWay
<1>2. ASSUME NEW p \in Allocated(inst) PROVE Addresses(p, inst.deref)
  <2>1. CASE HasConstSize(inst)
    <3>1. p = [size |-> RequestedSize(inst), off |-> 0] BY <2>1 DEF Allocated
    <3>2. RequestedSize(inst) \in Nat /\ inst.deref \in Nat /\ inst.deref <= RequestedSize(inst)
      BY <2>1, AnalysableInst, RequestedType
    <3> QED BY <3>1, <3>2 DEF Addresses
  <2>2. CASE ~HasConstSize(inst) BY <2>2 DEF Allocated
  <2> QED BY <2>1, <2>2
<1>3. InBounds(m, f, args, v) BY <1>1, <1>2, InstClaims
<1>4. ASSUME HasConstSize(inst), NEW C, NEW p, Means(m, f, C, v, p)
      PROVE  /\ p.off + Wrap(RequestedSize(inst)) = p.size
             /\ inst.op = "call" => IntSize(Wrap(RequestedSize(inst))) = Wrap(RequestedSize(inst))
  <2>1. p = [size |-> RequestedSize(inst), off |-> 0] /\ p.size < Word
    BY <1>1, <1>4 DEF Allocated
  <2>2. RequestedSize(inst) \in Nat BY <1>4, AnalysableInst, RequestedType
  <2>3. Wrap(RequestedSize(inst)) = RequestedSize(inst) BY <2>1, <2>2, WrapWord
  <2>4. p.off + Wrap(RequestedSize(inst)) = p.size BY <2>1, <2>2, <2>3
  <2>5. ASSUME inst.op = "call" PROVE IntSize(RequestedSize(inst)) = RequestedSize(inst)
    <3>1. 2 * RequestedSize(inst) < IntWord BY <1>4, <2>5, AnalysableInst
    <3> DEFINE r == RequestedSize(inst)
    <3>2. r \in Nat /\ 2 * r < IntWord BY <2>2, <3>1
    <3> HIDE DEF r
    <3>3. r % IntWord = r BY <3>2, IntWordAssumption
    <3>4. IntSize(r) = r BY <3>2, <3>3, IntWordAssumption DEF IntSize
    <3> QED BY <3>4 DEF r
  <2> QED BY <2>3, <2>4, <2>5
<1>5. HasConstSize(inst) => ExactAt(m, f, args, v, Wrap(RequestedSize(inst)))
  BY <1>4 DEF ExactAt
<1>6. HasConstSize(inst) /\ inst.op = "call" =>
          ExactAt(m, f, args, v, IntSize(Wrap(RequestedSize(inst))))
  BY <1>4 DEF ExactAt
<1> QED BY <1>3, <1>5, <1>6

LEMMA PhiTrue ==
    ASSUME NEW m \in DOMAIN Modules, NEW f \in Bodies(m), NEW v \in PositionsOf(m, f), Analysable(m),
           NEW args, NEW t \in FactsOf(m, f), Valid(m, f, args, t),
           NEW inst, inst = Fun(m, f).insts[v], inst.op = "phi", AllInbounds(inst, t.bound)
    PROVE  InBounds(m, f, args, v)
<1> SUFFICES ASSUME NEW C, NEW p, Matches(m, f, args, C), Means(m, f, C, v, p)
             PROVE  Addresses(p, inst.deref)
  BY InstClaims
<1>1. Makes(m, Meanings(m), f, C, inst, p) BY InstClaims
<1>2. PICK k \in DOMAIN inst.operands : Has(Meanings(m), f, C, inst.operands[k], p)
  BY <1>1, OneWay
<1>3. inst.operands[k] \in t.bound BY DEF AllInbounds
<1>4. inst.operands[k] \in Named(m, f) /\ inst.operands[k] # Outside
  <2>1. f \in FunsOf(m) BY DEF Bodies
  <2> QED BY <1>3, <2>1, NamedFacts DEF FactsOf
<1>5. Means(m, f, C, inst.operands[k], p) BY <1>2, <1>4 DEF Has, Means
<1>6. Suits(m, f, inst.operands[k], inst.deref) /\ inst.deref \in Nat BY AnalysableInst
<1> QED BY <1>3, <1>4, <1>5, <1>6, InBoundsSuits DEF Valid

(* What is known of the base of a getelementptr, a cast or a library call  *)
(* that returns its argument.                                              *)
LEMMA BaseTrue ==
    ASSUME NEW m \in DOMAIN Modules, NEW f \in Bodies(m), NEW args,
           NEW t \in FactsOf(m, f), t.exact \subseteq t.bound, Valid(m, f, args, t),
           NEW u \in t.exact, NEW C, Matches(m, f, args, C), NEW p, Has(Meanings(m), f, C, u, p)
    PROVE  /\ p \in RunPointers /\ p.off \in Nat /\ p.size \in Nat /\ p.off + t.bounds[u] = p.size
           /\ t.bounds[u] \in Words
<1>1. u \in t.bound /\ u \in Named(m, f) /\ u # Outside /\ t.bounds[u] \in Words
  <2>1. f \in FunsOf(m) BY DEF Bodies
  <2> QED BY <2>1, NamedFacts DEF FactsOf
<1>2. Means(m, f, C, u, p) BY <1>1 DEF Has, Means
<1>3. p.off + t.bounds[u] = p.size BY <1>2 DEF Valid, ExactAt
<1>4. Addresses(p, PointeeSize(m, f, u)) BY <1>1, <1>2 DEF Valid, InBounds
<1>5. p \in RunPointers BY DEF Has
<1> QED BY <1>1, <1>3, <1>4, <1>5 DEF Addresses, RunPointers

LEMMA GepTrue ==
    ASSUME NEW m \in DOMAIN Modules, NEW f \in Bodies(m), NEW v \in PositionsOf(m, f), Analysable(m),
           NEW args, NEW t \in FactsOf(m, f), t.exact \subseteq t.bound, Valid(m, f, args, t),
           NEW inst, inst = Fun(m, f).insts[v], inst.op = "gep",
           GepKeepsBound(inst, t.bound, t.exact, t.bounds)
    PROVE  InBounds(m, f, args, v) /\ ExactAt(m, f, args, v, ExactBound(inst, t.bounds))
<1> DEFINE u == inst.operands[1]
           c == inst.consts[1]
<1>1. ASSUME NEW C, NEW p, Matches(m, f, args, C), Means(m, f, C, v, p)
      PROVE  Addresses(p, inst.deref) /\ p.off + ExactBound(inst, t.bounds) = p.size
  <2>1. PICK q : Has(Meanings(m), f, C, u, q) /\ p \in Stepped(inst, q)
    BY <1>1, InstClaims, OneWay
  <2>2. u \in t.exact /\ c # NonConst /\ Wrap(c + inst.deref) <= t.bounds[u]
    BY DEF GepKeepsBound, GepInRange
  <2>3. /\ q \in RunPointers /\ q.off \in Nat /\ q.size \in Nat /\ q.off + t.bounds[u] = q.size
        /\ t.bounds[u] \in Words
    <3> HIDE DEF u
    <3> QED BY <1>1, <2>1, <2>2, BaseTrue
  <2>4. c \in Nat /\ c < Word
    <3>1. inst \in Insts(ValuesOf(m, f), FunsOf(m)) /\ Arity(inst) BY AnalysableInst
    <3>2. inst.consts \in Seq(Words \cup {NonConst}) /\ Len(inst.consts) = 1
      BY <3>1 DEF Insts, Arity
    <3>3. c \in Words \cup {NonConst} BY <3>2, ElementOfSeq
    <3> QED BY <2>2, <3>3, WordAssumption DEF Words
  <2>5. /\ inst.deref \in Nat /\ 2 * inst.deref < Word /\ 2 * c < Word
    BY <2>2, AnalysableInst
  <2>6. p = [q EXCEPT !.off = @ + Signed(c)] BY <2>1, <2>2 DEF Stepped
  <2>7. Signed(c) = c BY <2>4, <2>5, WordAssumption DEF Signed
  <2>8. p.off = q.off + c /\ p.size = q.size BY <2>3, <2>6, <2>7 DEF RunPointers
  <2>9. Wrap(c + inst.deref) = c + inst.deref
    <3> DEFINE n == c + inst.deref
    <3>1. n \in Nat /\ n < Word BY <2>4, <2>5, WordAssumption
    <3> HIDE DEF n
    <3>2. Wrap(n) = n BY <3>1, WrapWord
    <3> QED BY <3>2 DEF n
  <2>10. ExactBound(inst, t.bounds) = t.bounds[u] - c
    <3>1. ExactBound(inst, t.bounds) = Wrap(t.bounds[u] - c) BY DEF ExactBound
    <3>2. t.bounds[u] - c \in Nat /\ t.bounds[u] - c < Word
      BY <2>2, <2>3, <2>4, <2>5, <2>9, WordAssumption DEF Words
    <3> DEFINE n == t.bounds[u] - c
    <3> HIDE DEF n
    <3>3. n \in Nat /\ n < Word BY <3>2 DEF n
    <3>4. Wrap(n) = n BY <3>3, WrapWord
    <3> QED BY <3>1, <3>4 DEF n
  <2> QED BY <2>2, <2>3, <2>4, <2>5, <2>8, <2>9, <2>10 DEF Addresses, Words
<1> QED BY <1>1, InstClaims DEF ExactAt

LEMMA CastTrue ==
    ASSUME NEW m \in DOMAIN Modules, NEW f \in Bodies(m), NEW v \in PositionsOf(m, f), Analysable(m),
           NEW args, NEW t \in FactsOf(m, f), t.exact \subseteq t.bound, Valid(m, f, args, t),
           NEW inst, inst = Fun(m, f).insts[v], inst.op = "cast",
           CastKeepsBound(inst, t.bound, t.exact, t.bounds)
    PROVE  InBounds(m, f, args, v) /\ ExactAt(m, f, args, v, ExactBound(inst, t.bounds))
<1> DEFINE u == inst.operands[1]
<1>1. ASSUME NEW C, NEW p, Matches(m, f, args, C), Means(m, f, C, v, p)
      PROVE  Addresses(p, inst.deref) /\ p.off + ExactBound(inst, t.bounds) = p.size
  <2>1. inst.operands # <<>> /\ u \in t.exact /\ inst.deref <= t.bounds[u] BY DEF CastKeepsBound
  <2>2. Has(Meanings(m), f, C, u, p) BY <1>1, <2>1, InstClaims, OneWay
  <2>3. /\ p \in RunPointers /\ p.off \in Nat /\ p.size \in Nat /\ p.off + t.bounds[u] = p.size
        /\ t.bounds[u] \in Words
    <3> HIDE DEF u
    <3> QED BY <1>1, <2>1, <2>2, BaseTrue
  <2>4. inst.deref \in Nat BY AnalysableInst
  <2>5. ExactBound(inst, t.bounds) = t.bounds[u] BY DEF ExactBound
  <2> QED BY <2>1, <2>3, <2>4, <2>5 DEF Addresses, Words
<1> QED BY <1>1, InstClaims DEF ExactAt

LEMMA ReturnedArgTrue ==
    ASSUME NEW m \in DOMAIN Modules, NEW f \in Bodies(m), NEW v \in PositionsOf(m, f), Analysable(m),
           NEW args, NEW t \in FactsOf(m, f), t.exact \subseteq t.bound, Valid(m, f, args, t),
           NEW inst, inst = Fun(m, f).insts[v], inst.op = "call", inst.callee \in ReturnsArgument
    PROVE  /\ ReturnedArg(inst) \in t.bound => InBounds(m, f, args, v)
           /\ ReturnedArg(inst) \in t.exact =>
                 ExactAt(m, f, args, v, t.bounds[ReturnedArg(inst)])
<1> DEFINE u == ReturnedArg(inst)
<1>1. \A C, p : Means(m, f, C, v, p) => Has(Meanings(m), f, C, u, p)
  BY InstClaims, OneWay
<1>2. u \in t.bound => u \in Named(m, f) /\ u # Outside
  <2>1. f \in FunsOf(m) BY DEF Bodies
  <2> QED BY <2>1, NamedFacts DEF FactsOf
<1>3. Suits(m, f, u, inst.deref) /\ inst.deref \in Nat BY AnalysableInst
<1> HIDE DEF u
<1>4. ASSUME u \in t.bound PROVE InBounds(m, f, args, v)
  <2> SUFFICES ASSUME NEW C, NEW p, Matches(m, f, args, C), Means(m, f, C, v, p)
               PROVE  Addresses(p, inst.deref)
    BY InstClaims
  <2>1. Means(m, f, C, u, p) BY <1>1, <1>2, <1>4 DEF Has, Means
  <2> QED BY <1>2, <1>3, <1>4, <2>1, InBoundsSuits DEF Valid
<1>5. ASSUME u \in t.exact PROVE ExactAt(m, f, args, v, t.bounds[u])
  BY <1>1, <1>5, BaseTrue DEF ExactAt
<1> QED BY <1>4, <1>5 DEF u

(* The values passed to a callee match the attributes that are looked up,  *)
(* and so its result has the attribute it answers for them.                *)
LEMMA PassedMatch ==
    ASSUME NEW m \in DOMAIN Modules, NEW f \in Bodies(m), NEW v \in PositionsOf(m, f), Analysable(m),
           NEW args, NEW t \in FactsOf(m, f), t.exact \subseteq t.bound, Valid(m, f, args, t),
           NEW inst, inst = Fun(m, f).insts[v], inst.op = "call", inst.callee \in Bodies(m),
           Len(inst.operands) = Len(Fun(m, inst.callee).params),
           NEW C, Matches(m, f, args, C),
           NEW D \in Vectors(m, inst.callee), Passes(Meanings(m), f, C, inst, D)
    PROVE  Matches(m, inst.callee,
                   [j \in 1 .. Len(inst.operands) |-> Attribute(t, inst.operands[j])], D)
<1> SUFFICES ASSUME NEW k \in DOMAIN Fun(m, inst.callee).params
             PROVE  /\ k \in 1 .. Len(inst.operands)
                    /\ Granted(Attribute(t, inst.operands[k]), D[k], Fun(m, inst.callee).params[k])
  BY DEF Matches
<1>1. k \in 1 .. Len(inst.operands)
  <2>1. inst.callee \in FunsOf(m) BY DEF Bodies
  <2>2. Fun(m, inst.callee).params \in Seq(Words) BY <2>1, ModulesAssumption DEF WellFormed
  <2> QED BY <2>2, LenProperties
<1>2. Has(Meanings(m), f, C, inst.operands[k], D[k]) BY DEF Passes, Vectors
<1>3. /\ Fun(m, inst.callee).params[k] \in Nat
      /\ Suits(m, f, inst.operands[k], Fun(m, inst.callee).params[k])
  <2>1. Fun(m, inst.callee).params[k] \in Words BY Indices
  <2>2. inst.callee \in FunsOf(m) BY DEF Bodies
  <2>3. \A j \in DOMAIN Fun(m, inst.callee).params :
            Suits(m, f, inst.operands[j], Fun(m, inst.callee).params[j])
    BY <2>2, AnalysableInst
  <2> QED BY <2>1, <2>3 DEF Words
<1> QED BY <1>1, <1>2, <1>3, AttributeTrue

LEMMA CallTrue ==
    ASSUME NEW m \in DOMAIN Modules, NEW f \in Bodies(m), NEW v \in PositionsOf(m, f), Analysable(m),
           NEW args, NEW t \in FactsOf(m, f), t.exact \subseteq t.bound, Valid(m, f, args, t),
           NEW inst, inst = Fun(m, f).insts[v], inst.op = "call", inst.callee \in Bodies(m),
           Len(inst.operands) = Len(Fun(m, inst.callee).params),
           NEW r, Answers(m, inst.callee,
                          [j \in 1 .. Len(inst.operands) |-> Attribute(t, inst.operands[j])], r)
    PROVE  /\ r # UNBOUND_ATTR => InBounds(m, f, args, v)
           /\ r # UNBOUND_ATTR /\ r # DYNBOUND_ATTR => ExactAt(m, f, args, v, r)
<1> DEFINE given == [j \in 1 .. Len(inst.operands) |-> Attribute(t, inst.operands[j])]
           g == inst.callee
<1>1. ASSUME NEW C, NEW p, Matches(m, f, args, C), Means(m, f, C, v, p)
      PROVE  Granted(r, p, inst.deref)
  <2>1. PICK D \in Vectors(m, g) :
            Passes(Meanings(m), f, C, inst, D) /\ Returns(m, Meanings(m), g, D, p)
    BY <1>1, InstClaims, OneWay
  <2>2. Matches(m, g, given, D) BY <1>1, <2>1, PassedMatch
  <2>3. PICK n \in BlocksOf(m, g) :
            Block(m, g, n).ret # <<>> /\ Has(Meanings(m), g, D, Block(m, g, n).ret[1], p)
    BY <2>1 DEF Returns
  <2>4. inst.deref \in Nat /\ Suits(m, g, Block(m, g, n).ret[1], inst.deref)
    <3>1. g \in FunsOf(m) BY DEF Bodies
    <3>2. 1 \in DOMAIN Block(m, g, n).ret
      <4>1. Block(m, g, n).ret \in Seq(ValuesOf(m, g)) BY BlockFacts
      <4> QED BY <2>3, <4>1, LenProperties, EmptySeq
    <3> QED BY <3>1, <3>2, AnalysableInst
  <2> HIDE DEF given, g
  <2>5. Answers(m, g, given, r) BY DEF given, g
  <2> QED BY <2>2, <2>3, <2>4, <2>5 DEF Answers
<1>2. r # UNBOUND_ATTR => InBounds(m, f, args, v) BY <1>1, InstClaims DEF Granted
<1>3. r # UNBOUND_ATTR /\ r # DYNBOUND_ATTR => ExactAt(m, f, args, v, r)
  BY <1>1 DEF ExactAt, Granted
<1> QED BY <1>2, <1>3

-----------------------------------------------------------------------------
(***************************************************************************)
(* What the analysis leaves behind. A context of a function, its arguments *)
(* C, is covered if the values in local address their pointees in it, and  *)
(* every call the function can reach leads to a context that is covered.   *)
(* The covered contexts are the largest such set, so that it is enough to  *)
(* exhibit one; L is what local holds.                                     *)
(***************************************************************************)
Walkable(m, f) ==
    {n \in BlocksOf(m, f) :
        \A W \in SUBSET BlocksOf(m, f) :
            1 \in W /\ (\A p \in W : Block(m, f, p).succs \subseteq W) => n \in W}

Within(m, f, n) == Block(m, f, n).first .. Block(m, f, n).last

Follows(m, K, f, C, v) ==
    LET inst == Fun(m, f).insts[v]
    IN  inst.op = "call" /\ inst.callee \in Bodies(m) =>
          \A D \in Vectors(m, inst.callee) :
             Passes(Meanings(m), f, C, inst, D) => <<inst.callee, D>> \in K

Honest(m, L, f, C) ==
    /\ L[f] = NotSeen => Exits(m, f) = {}
    /\ \A v \in L[f] \ {Outside} : \A p :
          Means(m, f, C, v, p) => Addresses(p, PointeeSize(m, f, v))

Contexts(m) == UNION {{f} \X Vectors(m, f) : f \in Bodies(m)}

Sound(m, L, K, f, C) ==
    /\ Honest(m, L, f, C)
    /\ \A n \in Walkable(m, f) : \A v \in Within(m, f, n) : Follows(m, K, f, C, v)

Covered(m, L) ==
    UNION {K \in SUBSET Contexts(m) : \A f, C : <<f, C>> \in K => Sound(m, L, K, f, C)}

Analysed(m, L, f, args) ==
    \A C \in Vectors(m, f) : Matches(m, f, args, C) => <<f, C>> \in Covered(m, L)

LEMMA WalkableFacts ==
    ASSUME NEW m \in DOMAIN Modules, NEW f \in Bodies(m)
    PROVE  /\ Walkable(m, f) \subseteq BlocksOf(m, f) /\ 1 \in Walkable(m, f)
           /\ \A p \in Walkable(m, f) : Block(m, f, p).succs \subseteq Walkable(m, f)
           /\ \A W \in SUBSET BlocksOf(m, f) :
                 1 \in W /\ (\A p \in W : Block(m, f, p).succs \subseteq W) => Walkable(m, f) \subseteq W
<1>1. 1 \in Walkable(m, f) BY BlockFacts DEF Walkable
<1>2. ASSUME NEW p \in Walkable(m, f), NEW n \in Block(m, f, p).succs PROVE n \in Walkable(m, f)
  <2>1. p \in BlocksOf(m, f) BY DEF Walkable
  <2>2. n \in BlocksOf(m, f) BY <2>1, BlockFacts
  <2> QED BY <2>2 DEF Walkable
<1> QED BY <1>1, <1>2 DEF Walkable

(* More covered contexts, more calls that lead to one.                     *)
LEMMA SoundGrows ==
    ASSUME NEW m, NEW L, NEW K, NEW J, K \subseteq J, NEW f, NEW C, Sound(m, L, K, f, C)
    PROVE  Sound(m, L, J, f, C)
<1>1. \A v : Follows(m, K, f, C, v) => Follows(m, J, f, C, v) BY DEF Follows
<1> QED BY <1>1 DEF Sound

LEMMA CoveredSound ==
    ASSUME NEW m, NEW L, NEW f, NEW C, <<f, C>> \in Covered(m, L)
    PROVE  f \in Bodies(m) /\ C \in Vectors(m, f) /\ Sound(m, L, Covered(m, L), f, C)
<1>1. PICK K \in SUBSET Contexts(m) :
          <<f, C>> \in K /\ \A g, D : <<g, D>> \in K => Sound(m, L, K, g, D)
  BY DEF Covered
<1>2. K \subseteq Covered(m, L) BY <1>1 DEF Covered
<1>3. Sound(m, L, K, f, C) BY <1>1
<1>4. PICK g \in Bodies(m) : <<f, C>> \in {g} \X Vectors(m, g) BY <1>1 DEF Contexts
<1> QED BY <1>2, <1>3, <1>4, SoundGrows

LEMMA SoundCovered ==
    ASSUME NEW m, NEW L, NEW K \in SUBSET Contexts(m),
           \A f, C : <<f, C>> \in K => Sound(m, L, K \cup Covered(m, L), f, C)
    PROVE  K \subseteq Covered(m, L)
<1> DEFINE J == K \cup Covered(m, L)
<1>1. Covered(m, L) \subseteq Contexts(m) BY DEF Covered
<1>2. J \in SUBSET Contexts(m) BY <1>1
<1>3. ASSUME NEW f, NEW C, <<f, C>> \in J PROVE Sound(m, L, J, f, C)
  <2>1. CASE <<f, C>> \in K BY <2>1
  <2>2. CASE <<f, C>> \in Covered(m, L)
    <3>1. Sound(m, L, Covered(m, L), f, C) BY <2>2, CoveredSound
    <3>2. Covered(m, L) \subseteq J OBVIOUS
    <3> HIDE DEF J
    <3> QED BY <3>1, <3>2, SoundGrows
  <2> QED BY <1>3, <2>1, <2>2
<1>4. J \subseteq Covered(m, L)
  <2> HIDE DEF J
  <2> QED BY <1>2, <1>3 DEF Covered
<1> QED BY <1>4

(* What is covered remains so when local loses values, or when a function  *)
(* gets its first ones that none of the covered contexts needs.            *)
LEMMA CoveredKept ==
    ASSUME NEW m, NEW L, NEW M,
           \A f \in FunsOf(m) : \/ M[f] = L[f]
                                \/ L[f] = NotSeen /\ Exits(m, f) # {}
                                \/ M[f] \subseteq L[f] /\ M[f] # NotSeen
    PROVE  Covered(m, L) \subseteq Covered(m, M)
<1> DEFINE K == Covered(m, L)
<1>1. K \in SUBSET Contexts(m) BY DEF Covered
<1>2. ASSUME NEW f, NEW C, <<f, C>> \in K PROVE Sound(m, M, K, f, C)
  <2>1. f \in Bodies(m) /\ Sound(m, L, K, f, C) BY <1>2, CoveredSound
  <2>2. f \in FunsOf(m) BY <2>1 DEF Bodies
  <2>3. Honest(m, M, f, C) BY <2>1, <2>2 DEF Sound, Honest
  <2> HIDE DEF K
  <2> QED BY <2>1, <2>3 DEF Sound
<1>3. ASSUME NEW f, NEW C, <<f, C>> \in K PROVE Sound(m, M, K \cup Covered(m, M), f, C)
  <2>1. Sound(m, M, K, f, C) BY <1>2, <1>3
  <2>2. K \subseteq K \cup Covered(m, M) OBVIOUS
  <2> HIDE DEF K
  <2> QED BY <2>1, <2>2, SoundGrows
<1> HIDE DEF K
<1>4. K \subseteq Covered(m, M) BY <1>1, <1>3, SoundCovered
<1> QED BY <1>4 DEF K

-----------------------------------------------------------------------------
(***************************************************************************)
(* What an activation of the analysis claims. That the claims hold for all *)
(* meanings once and for all is what makes the bounds sound although they  *)
(* are shared by all blocks and overwritten.                               *)
(***************************************************************************)
Known(m, a) ==
    GlobalsOf(m) \cup a.boundArgs \cup a.bound \cup UNION {a.boundOut[n] : n \in BlocksOf(m, a.fun)}
KnownExact(m, a) ==
    GlobalsOf(m) \cup a.exactArgs \cup a.exact \cup UNION {a.exactOut[n] : n \in BlocksOf(m, a.fun)}

Claims(m, a) ==
    /\ \A v \in Known(m, a) : InBounds(m, a.fun, a.args, v)
    /\ \A v \in KnownExact(m, a) : ExactAt(m, a.fun, a.args, v, a.bounds[v])

(* Is the instruction v of block n still to be visited for the first time? *)
Ahead(a, n, v) == n = a.node /\ ~a.seen /\ v >= a.k

CallsCovered(m, L, a) ==
    \A n \in a.visits : \A v \in Within(m, a.fun, n) : ~Ahead(a, n, v) =>
        \A C \in Vectors(m, a.fun) : Matches(m, a.fun, a.args, C) =>
            Follows(m, Covered(m, L), a.fun, C, v)

Started(a) == 1 \in a.visits \cup a.worklist

(* A fresh activation claims what its arguments are granted.               *)
LEMMA ActivationClaims ==
    ASSUME mod \in DOMAIN Modules, NEW f \in Bodies(mod),
           NEW args \in Attributes(Len(Fun(mod, f).params))
    PROVE  Claims(mod, Activation(f, args))
<1> DEFINE known == {Arg(k) : k \in AttrsOf(args, UNBOUND_ATTR)}
           exact == {Arg(k) : k \in {j \in AttrsOf(args, UNBOUND_ATTR) : args[j] # DYNBOUND_ATTR}}
           Value(v) == CASE v \in exact -> args[CHOOSE k \in DOMAIN args : Arg(k) = v]
                         [] v \in GlobalsOf(mod) ->
                              Modules[mod].globals[CHOOSE k \in DOMAIN Modules[mod].globals :
                                                      Global(k) = v]
                         [] OTHER -> 0
           a == Activation(f, args)
<1>1. DOMAIN args = DOMAIN Fun(mod, f).params
  <2>1. f \in FunsOf(mod) BY DEF Bodies
  <2>2. Fun(mod, f).params \in Seq(Words) BY <2>1, ModulesAssumption DEF WellFormed
  <2> QED BY <2>2, LenProperties DEF Attributes
<1>2. a = [fun |-> f, args |-> args, worklist |-> {1}, visits |-> {},
           boundOut  |-> [n \in BlocksOf(mod, f) |-> {}],
           exactOut  |-> [n \in BlocksOf(mod, f) |-> {}],
           boundArgs |-> known, exactArgs |-> exact,
           node |-> Idle, seen |-> FALSE, k |-> 0, bound |-> {}, exact |-> {},
           bounds |-> [v \in ValuesOf(mod, f) |-> Value(v)]]
  BY DEF Activation
<1> HIDE DEF a, Value
<1>3. /\ a.fun = f /\ a.args = args /\ a.boundArgs = known /\ a.exactArgs = exact
      /\ a.bound = {} /\ a.exact = {}
      /\ \A n \in BlocksOf(mod, f) : a.boundOut[n] = {} /\ a.exactOut[n] = {}
      /\ \A v \in ValuesOf(mod, f) : a.bounds[v] = Value(v)
  <2> HIDE DEF known, exact
  <2> QED BY <1>2
<1>4. Known(mod, a) = GlobalsOf(mod) \cup known /\ KnownExact(mod, a) = GlobalsOf(mod) \cup exact
  <2> HIDE DEF known, exact
  <2> QED BY <1>3 DEF Known, KnownExact
<1>5. ASSUME NEW v \in GlobalsOf(mod)
      PROVE  InBounds(mod, f, args, v) /\ ExactAt(mod, f, args, v, a.bounds[v])
  <2>1. PICK k \in DOMAIN Modules[mod].globals : v = Global(k) BY <1>5 DEF GlobalsOf
  <2>2. v \notin exact
    <3>1. \A j \in DOMAIN Fun(mod, f).params : Arg(j) # v BY <2>1, Kinds
    <3> QED BY <1>1, <3>1 DEF AttrsOf
  <2>3. (CHOOSE j \in DOMAIN Modules[mod].globals : Global(j) = v) = k BY <2>1, Kinds
  <2>4. Value(v) = Modules[mod].globals[k]
    <3> HIDE DEF exact
    <3> QED BY <1>5, <2>2, <2>3 DEF Value
  <2>5. v \in ValuesOf(mod, f) BY <1>5 DEF ValuesOf
  <2>6. Modules[mod].globals[k] \in Nat BY Indices DEF Words
  <2>7. \A C, p : Means(mod, f, C, v, p) => p = [size |-> Modules[mod].globals[k], off |-> 0]
    BY <2>1, GlobalMeans
  <2>8. PointeeSize(mod, f, v) = Modules[mod].globals[k] BY <2>1, GlobalMeans
  <2>9. InBounds(mod, f, args, v) BY <2>6, <2>7, <2>8 DEF InBounds, Addresses
  <2>10. ExactAt(mod, f, args, v, Modules[mod].globals[k]) BY <2>6, <2>7 DEF ExactAt
  <2> QED BY <1>3, <2>4, <2>5, <2>9, <2>10
<1>6. ASSUME NEW v \in known PROVE InBounds(mod, f, args, v)
  <2>1. PICK k \in DOMAIN args : v = Arg(k) /\ args[k] # UNBOUND_ATTR BY <1>6 DEF AttrsOf
  <2>2. k \in DOMAIN Fun(mod, f).params BY <1>1
  <2>3. PointeeSize(mod, f, v) = Fun(mod, f).params[k] /\ \A C, p : Means(mod, f, C, v, p) => p = C[k]
    BY <2>1, <2>2, ArgMeans
  <2> QED BY <2>1, <2>2, <2>3 DEF InBounds, Matches, Granted
<1>7. ASSUME NEW v \in exact PROVE ExactAt(mod, f, args, v, a.bounds[v])
  <2>1. PICK k \in DOMAIN args :
            v = Arg(k) /\ args[k] # UNBOUND_ATTR /\ args[k] # DYNBOUND_ATTR
    BY <1>7 DEF AttrsOf
  <2>2. k \in DOMAIN Fun(mod, f).params BY <1>1
  <2>3. (CHOOSE j \in DOMAIN args : Arg(j) = v) = k BY <1>1, <2>1, <2>2, Kinds
  <2>4. v \notin GlobalsOf(mod) BY <2>1, <2>2, Kinds DEF GlobalsOf
  <2>5. Value(v) = args[k]
    <3>1. v \in exact BY <1>7
    <3> HIDE DEF exact
    <3> QED BY <2>3, <2>4, <3>1 DEF Value
  <2>6. v \in ValuesOf(mod, f) BY <2>1, <2>2 DEF ValuesOf, ArgsOf
  <2>7. \A C, p : Means(mod, f, C, v, p) => p = C[k] BY <2>1, <2>2, ArgMeans
  <2>8. ExactAt(mod, f, args, v, args[k]) BY <2>1, <2>2, <2>7 DEF ExactAt, Matches, Granted
  <2> QED BY <1>3, <2>5, <2>6, <2>8
<1> HIDE DEF known, exact
<1> QED BY <1>3, <1>4, <1>5, <1>6, <1>7 DEF Claims, a

(* The facts an activation visits an instruction with are true.            *)
LEMMA ClaimsValid ==
    ASSUME NEW m, NEW a, Claims(m, a)
    PROVE  Valid(m, a.fun, a.args, Facts(a))
BY DEF Claims, Known, KnownExact, Valid, Facts

-----------------------------------------------------------------------------
(* Facts that are true, for an activation: those it had, and true ones     *)
(* about the instruction it visits.                                        *)
Truthful(m, a, t) ==
    \/ t = Facts(a)
    \/ t = WithBound(Facts(a), a.k) /\ InBounds(m, a.fun, a.args, a.k)
    \/ \E n \in Words : /\ t = WithExact(Facts(a), a.k, n)
                        /\ InBounds(m, a.fun, a.args, a.k) /\ ExactAt(m, a.fun, a.args, a.k, n)

LEMMA LearnedClaims ==
    ASSUME NEW m \in DOMAIN Modules, NEW f \in Bodies(m), NEW a \in ActivationsOf(m, f),
           Claims(m, a), NEW t, Truthful(m, a, t), a.k \in Named(m, f)
    PROVE  Claims(m, Learned(a, t)) /\ t \in FactsOf(m, f)
<1> DEFINE b == Learned(a, t)
<1>1. /\ a.bounds \in [ValuesOf(m, f) -> Words] /\ a.bound \subseteq Named(m, f)
      /\ a.exact \subseteq Named(m, f) /\ a.fun = f /\ a.k \in ValuesOf(m, f)
      /\ a.boundArgs \subseteq Named(m, f) /\ a.exactArgs \subseteq Named(m, f)
      /\ \A n \in BlocksOf(m, f) : a.exactOut[n] \subseteq Named(m, f)
      /\ Named(m, f) \subseteq ValuesOf(m, f) /\ GlobalsOf(m) \subseteq Named(m, f)
  <2>1. f \in FunsOf(m) BY DEF Bodies
  <2> QED BY <2>1, NamedFacts DEF ActivationsOf, Named
<1>2. /\ t \in FactsOf(m, f)
      /\ \A v \in t.bound : v \in a.bound \/ InBounds(m, f, a.args, v)
      /\ \A v \in t.exact : v \in a.exact \/ v = a.k
      /\ \A v \in ValuesOf(m, f) : v # a.k => t.bounds[v] = a.bounds[v]
      /\ a.k \in a.exact \/ a.k \notin t.exact \/ ExactAt(m, f, a.args, a.k, t.bounds[a.k])
      /\ t.bounds[a.k] = a.bounds[a.k] \/ ExactAt(m, f, a.args, a.k, t.bounds[a.k])
  <2>1. CASE t = Facts(a) BY <1>1, <2>1 DEF Facts, FactsOf
  <2>2. CASE t = WithBound(Facts(a), a.k) /\ InBounds(m, a.fun, a.args, a.k)
    <3>1. t.bound = a.bound \cup {a.k} /\ t.exact = a.exact /\ t.bounds = a.bounds
      BY <2>2 DEF Facts, WithBound
    <3>2. t \in [bound : SUBSET Named(m, f), exact : SUBSET Named(m, f),
                 bounds : [ValuesOf(m, f) -> Words]]
      BY <1>1, <2>2 DEF Facts, WithBound
    <3> QED BY <1>1, <2>2, <3>1, <3>2 DEF FactsOf
  <2>3. CASE \E n \in Words : /\ t = WithExact(Facts(a), a.k, n)
                             /\ InBounds(m, a.fun, a.args, a.k) /\ ExactAt(m, a.fun, a.args, a.k, n)
    <3>0. PICK n \in Words : /\ t = WithExact(Facts(a), a.k, n)
                             /\ InBounds(m, a.fun, a.args, a.k) /\ ExactAt(m, a.fun, a.args, a.k, n)
      BY <2>3
    <3>1. /\ t.bound = a.bound \cup {a.k} /\ t.exact = a.exact \cup {a.k}
          /\ t.bounds = [a.bounds EXCEPT ![a.k] = n]
      BY <3>0 DEF Facts, WithExact
    <3>2. [a.bounds EXCEPT ![a.k] = n] \in [ValuesOf(m, f) -> Words] BY <1>1
    <3>3. t \in [bound : SUBSET Named(m, f), exact : SUBSET Named(m, f),
                 bounds : [ValuesOf(m, f) -> Words]]
      <4>1. t = [bound |-> a.bound \cup {a.k}, exact |-> a.exact \cup {a.k},
                 bounds |-> [a.bounds EXCEPT ![a.k] = n]]
        BY <3>0 DEF Facts, WithExact
      <4> QED BY <1>1, <3>2, <4>1
    <3> QED BY <1>1, <3>0, <3>1, <3>3 DEF FactsOf
  <2> QED BY <2>1, <2>2, <2>3 DEF Truthful
<1>3. /\ b.bound = t.bound /\ b.exact = t.exact /\ b.bounds = t.bounds
      /\ b.fun = a.fun /\ b.args = a.args
      /\ b.boundOut = a.boundOut /\ b.exactOut = a.exactOut
      /\ b.boundArgs = a.boundArgs /\ b.exactArgs = a.exactArgs
  BY DEF Learned, ActivationsOf
<1> HIDE DEF b
<1>4. \A v \in Known(m, b) : v \in Known(m, a) \/ v \in t.bound BY <1>3 DEF Known
<1>5. \A v \in KnownExact(m, b) : v \in KnownExact(m, a) \/ v \in t.exact BY <1>3 DEF KnownExact
<1>6. a.bound \subseteq Known(m, a) /\ a.exact \subseteq KnownExact(m, a) BY DEF Known, KnownExact
<1>7. ASSUME NEW v \in Known(m, b) PROVE InBounds(m, f, a.args, v)
  BY <1>1, <1>2, <1>4, <1>6 DEF Claims
<1>8. KnownExact(m, a) \subseteq ValuesOf(m, f) BY <1>1 DEF KnownExact
<1>9. t.exact \subseteq ValuesOf(m, f) BY <1>1, <1>2 DEF FactsOf
<1>10. ASSUME NEW v \in KnownExact(m, b) PROVE ExactAt(m, f, a.args, v, t.bounds[v])
  <2>1. v \in ValuesOf(m, f) BY <1>5, <1>8, <1>9
  <2>2. v \in KnownExact(m, a) => ExactAt(m, f, a.args, v, a.bounds[v]) BY <1>1 DEF Claims
  <2>3. CASE v # a.k BY <1>2, <1>5, <1>6, <2>1, <2>2, <2>3
  <2>4. CASE v = a.k BY <1>2, <1>5, <1>6, <2>1, <2>2, <2>4
  <2> QED BY <2>3, <2>4
<1>11. Claims(m, b) BY <1>1, <1>3, <1>7, <1>10 DEF Claims
<1> QED BY <1>2, <1>11 DEF b

LEMMA LearnedCovered ==
    ASSUME NEW m \in DOMAIN Modules, NEW f \in Bodies(m), NEW a \in ActivationsOf(m, f),
           NEW L, CallsCovered(m, L, a), Started(a), NEW t,
           \A C \in Vectors(m, f) : Matches(m, f, a.args, C) => Follows(m, Covered(m, L), f, C, a.k)
    PROVE  CallsCovered(m, L, Learned(a, t)) /\ Started(Learned(a, t))
<1> DEFINE b == Learned(a, t)
<1>1. /\ b.k = a.k + 1 /\ b.node = a.node /\ b.seen = a.seen /\ b.visits = a.visits
      /\ b.fun = a.fun /\ b.args = a.args /\ b.worklist = a.worklist /\ a.fun = f /\ a.k \in Nat
      /\ a.visits \subseteq BlocksOf(m, f)
  BY DEF Learned, ActivationsOf
<1> HIDE DEF b
<1>2. ASSUME NEW n \in b.visits, NEW v \in Within(m, f, n), ~Ahead(b, n, v),
             NEW C \in Vectors(m, f), Matches(m, f, a.args, C)
      PROVE  Follows(m, Covered(m, L), f, C, v)
  <2>1. CASE v = a.k BY <1>2, <2>1
  <2>2. CASE v # a.k
    <3>1. v \in Int
      <4>1. n \in BlocksOf(m, f) BY <1>1
      <4>2. Block(m, f, n).first \in Nat /\ Block(m, f, n).last \in Nat BY <4>1, BlockFacts
      <4> QED BY <4>2 DEF Within
    <3>2. ~Ahead(a, n, v) BY <1>1, <1>2, <2>2, <3>1 DEF Ahead
    <3> QED BY <1>1, <1>2, <3>2 DEF CallsCovered
  <2> QED BY <2>1, <2>2
<1>3. CallsCovered(m, L, b) BY <1>1, <1>2 DEF CallsCovered
<1>4. Started(b) BY <1>1 DEF Started
<1> QED BY <1>3, <1>4 DEF b

(* More covered contexts.                                                  *)
LEMMA CallsCoveredGrows ==
    ASSUME NEW m, NEW L, NEW M, Covered(m, L) \subseteq Covered(m, M), NEW a, CallsCovered(m, L, a)
    PROVE  CallsCovered(m, M, a)
<1>1. \A f, C, v : Follows(m, Covered(m, L), f, C, v) => Follows(m, Covered(m, M), f, C, v)
  BY DEF Follows
<1> QED BY <1>1 DEF CallsCovered

LEMMA AnalysedGrows ==
    ASSUME NEW m, NEW L, NEW M, Covered(m, L) \subseteq Covered(m, M), NEW f, NEW args,
           Analysed(m, L, f, args)
    PROVE  Analysed(m, M, f, args)
BY DEF Analysed

-----------------------------------------------------------------------------
(***************************************************************************)
(* The invariant of the analysis. The stack is a chain of calls that goes  *)
(* down in the depth of FollowsCalls, so that no function is on it twice   *)
(* and no call is looked up while its callee is still being analysed; and  *)
(* what the memo of a finished call holds is true and covered.             *)
(***************************************************************************)
Deeper(m, depth) ==
    /\ depth \in [FunsOf(m) -> 0 .. Cardinality(FunsOf(m))]
    /\ \A f \in FunsOf(m) : \A g \in Callees(m, f) : depth[g] < depth[f]
Depth(m) == CHOOSE depth : Deeper(m, depth)

SiteOf(a) == <<a.fun, a.k>>
InstOf(m, s) == Fun(m, s[1]).insts[s[2]]
AttributesOf(inst, t) == [j \in 1 .. Len(inst.operands) |-> Attribute(t, inst.operands[j])]

(* The activation a waits for the call it is at, which b analyses.         *)
Waits(m, memo, a, b) ==
    LET inst == InstOf(m, SiteOf(a))
    IN  /\ inst.op = "call" /\ inst.callee = b.fun
        /\ b.args = AttributesOf(inst, Facts(a))
        /\ memo[SiteOf(a)] = b.args

Remembered(m, L, g, args, r) ==
    IF g \in Bodies(m) THEN Analysed(m, L, g, args) /\ Answers(m, g, args, r) ELSE r = UNBOUND_ATTR

Waiting == {SiteOf(stack[j]) : j \in 1 .. Len(stack) - 1}

MemoInv ==
    \A s \in Sites \ Waiting : argsCall[s] # NotCalled =>
        Remembered(mod, local, InstOf(mod, s).callee, argsCall[s], retCall[s])

NothingGranted(m) == [k \in DOMAIN Fun(m, "main").params |-> UNBOUND_ATTR]

FlowInv ==
    /\ \A j \in 1 .. Len(stack) :
          Claims(mod, stack[j]) /\ CallsCovered(mod, local, stack[j]) /\ Started(stack[j])
    /\ \A j \in 1 .. Len(stack) - 1 : Waits(mod, argsCall, stack[j], stack[j + 1])
    /\ \A i, j \in 1 .. Len(stack) : i < j => Depth(mod)[stack[j].fun] < Depth(mod)[stack[i].fun]
    /\ DOMAIN argsCall = Sites /\ MemoInv
    /\ stack # <<>> => stack[1].fun = "main" /\ stack[1].args = NothingGranted(mod)
    /\ stack = <<>> /\ "main" \in FunsOf(mod) =>
          Analysed(mod, local, "main", NothingGranted(mod))
    /\ \A f \in FunsOf(mod) : Exits(mod, f) = {} => local[f] = NotSeen

(* The call that is visited: all values of its operands match what is      *)
(* looked up for them.                                                     *)
LEMMA CalleeMatch ==
    ASSUME NEW m \in DOMAIN Modules, Analysable(m), NEW f \in Bodies(m), NEW a \in ActivationsOf(m, f),
           Nested(m, a), Claims(m, a), a.k \in PositionsOf(m, f),
           NEW inst, inst = Fun(m, f).insts[a.k], inst.op = "call", inst.callee \in Bodies(m)
    PROVE  /\ Len(inst.operands) = Len(Fun(m, inst.callee).params)
           /\ \A C \in Vectors(m, f), D \in Vectors(m, inst.callee) :
                 Matches(m, f, a.args, C) /\ Passes(Meanings(m), f, C, inst, D) =>
                    Matches(m, inst.callee, AttributesOf(inst, Facts(a)), D)
           /\ \A L : Analysed(m, L, inst.callee, AttributesOf(inst, Facts(a))) =>
                 \A C \in Vectors(m, f) : Matches(m, f, a.args, C) =>
                    Follows(m, Covered(m, L), f, C, a.k)
           /\ \A r \in Words : Answers(m, inst.callee, AttributesOf(inst, Facts(a)), r) =>
                 Truthful(m, a, WithAttribute(Facts(a), a.k, r))
<1>1. ~Fun(m, inst.callee).varArg /\ inst.callee \in FunsOf(m) /\ f \in FunsOf(m)
  <2>1. inst.callee \in FunsOf(m) /\ f \in FunsOf(m) /\ Fun(m, inst.callee).blocks # <<>>
    BY DEF Bodies
  <2>2. inst.callee \in Callees(m, f) BY <2>1 DEF Callees
  <2> QED BY <2>1, <2>2 DEF Analysable, FollowsCalls
<1>2. Len(inst.operands) = Len(Fun(m, inst.callee).params)
  <2>1. \A v \in PositionsOf(m, f) :
            LET i == Fun(m, f).insts[v]
            IN  i.op = "call" /\ i.callee \in FunsOf(m) /\ ~Fun(m, i.callee).varArg
                       => Len(i.operands) = Len(Fun(m, i.callee).params)
    <3>1. WellFormed(m) BY ModulesAssumption
    <3> QED BY <1>1, <3>1 DEF WellFormed
  <2> QED BY <1>1, <2>1
<1>3. /\ Facts(a) \in FactsOf(m, f) /\ Facts(a).exact \subseteq Facts(a).bound
      /\ Valid(m, f, a.args, Facts(a)) /\ a.fun = f
  <2>1. a.fun = f BY DEF ActivationsOf
  <2>2. Valid(m, f, a.args, Facts(a)) BY <2>1, ClaimsValid
  <2> QED BY <2>1, <2>2, FactsInclude DEF Includes
<1>4. \A C \in Vectors(m, f), D \in Vectors(m, inst.callee) :
          Matches(m, f, a.args, C) /\ Passes(Meanings(m), f, C, inst, D) =>
             Matches(m, inst.callee, AttributesOf(inst, Facts(a)), D)
  <2> SUFFICES ASSUME NEW C \in Vectors(m, f), NEW D \in Vectors(m, inst.callee),
                      Matches(m, f, a.args, C), Passes(Meanings(m), f, C, inst, D)
               PROVE  Matches(m, inst.callee, AttributesOf(inst, Facts(a)), D)
    OBVIOUS
  <2> DEFINE t == Facts(a)
             args == a.args
             v == a.k
  <2>1. /\ t \in FactsOf(m, f) /\ t.exact \subseteq t.bound /\ Valid(m, f, args, t)
        /\ v \in PositionsOf(m, f) /\ inst = Fun(m, f).insts[v] /\ Matches(m, f, args, C)
    BY <1>3
  <2> HIDE DEF t, args, v
  <2>2. Matches(m, inst.callee,
                [j \in 1 .. Len(inst.operands) |-> Attribute(t, inst.operands[j])], D)
    BY <1>2, <2>1, PassedMatch
  <2> QED BY <2>2 DEF AttributesOf, t
<1>5. ASSUME NEW L, Analysed(m, L, inst.callee, AttributesOf(inst, Facts(a))),
             NEW C \in Vectors(m, f), Matches(m, f, a.args, C)
      PROVE  Follows(m, Covered(m, L), f, C, a.k)
  BY <1>4, <1>5 DEF Follows, Analysed
<1>6. ASSUME NEW r \in Words, Answers(m, inst.callee, AttributesOf(inst, Facts(a)), r)
      PROVE  Truthful(m, a, WithAttribute(Facts(a), a.k, r))
  <2>1. /\ r # UNBOUND_ATTR => InBounds(m, f, a.args, a.k)
        /\ r # UNBOUND_ATTR /\ r # DYNBOUND_ATTR => ExactAt(m, f, a.args, a.k, r)
    <3>1. Answers(m, inst.callee,
                  [j \in 1 .. Len(inst.operands) |-> Attribute(Facts(a), inst.operands[j])], r)
      BY <1>6 DEF AttributesOf
    <3> DEFINE t == Facts(a)
               args == a.args
               v == a.k
    <3>2. /\ t \in FactsOf(m, f) /\ t.exact \subseteq t.bound /\ Valid(m, f, args, t)
          /\ v \in PositionsOf(m, f) /\ inst = Fun(m, f).insts[v]
          /\ Answers(m, inst.callee,
                     [j \in 1 .. Len(inst.operands) |-> Attribute(t, inst.operands[j])], r)
      BY <1>3, <3>1
    <3> HIDE DEF t, args, v
    <3>3. /\ r # UNBOUND_ATTR => InBounds(m, f, args, v)
          /\ r # UNBOUND_ATTR /\ r # DYNBOUND_ATTR => ExactAt(m, f, args, v, r)
      BY <1>2, <3>2, CallTrue
    <3> QED BY <3>3 DEF args, v
  <2>2. \/ WithAttribute(Facts(a), a.k, r) = Facts(a)
        \/ WithAttribute(Facts(a), a.k, r) = WithBound(Facts(a), a.k) /\ r # UNBOUND_ATTR
        \/ WithAttribute(Facts(a), a.k, r) = WithExact(Facts(a), a.k, r)
             /\ r # UNBOUND_ATTR /\ r # DYNBOUND_ATTR
    <3>1. DYNBOUND_ATTR # UNBOUND_ATTR BY WordAssumption DEF DYNBOUND_ATTR, UNBOUND_ATTR
    <3> HIDE DEF DYNBOUND_ATTR, UNBOUND_ATTR
    <3>2. CASE r = DYNBOUND_ATTR BY <3>1, <3>2 DEF WithAttribute
    <3>3. CASE r = UNBOUND_ATTR BY <3>1, <3>3 DEF WithAttribute
    <3>4. CASE r # DYNBOUND_ATTR /\ r # UNBOUND_ATTR BY <3>4 DEF WithAttribute
    <3> QED BY <3>2, <3>3, <3>4
  <2> QED BY <1>3, <2>1, <2>2 DEF Truthful
<1> QED BY <1>2, <1>4, <1>5, <1>6

(* An instruction that calls no function with a body follows no call.      *)
LEMMA NoCall ==
    ASSUME NEW m, NEW f, NEW v,
           ~(Fun(m, f).insts[v].op = "call" /\ Fun(m, f).insts[v].callee \in Bodies(m))
    PROVE  \A K, C : Follows(m, K, f, C, v)
BY DEF Follows

-----------------------------------------------------------------------------
(* The running activation is replaced by another one for the same call.    *)
LEMMA FlowTop ==
    ASSUME PassInv, FlowInv, stack # <<>>, mod' = mod, local' = local,
           NEW a \in ActivationsOf(mod, Name), a.args = Top.args, SetTop(a),
           Claims(mod, a), CallsCovered(mod, local, a), Started(a),
           DOMAIN argsCall' = Sites,
           \A s \in Waiting : argsCall'[s] = argsCall[s],
           \A s \in Sites \ Waiting : argsCall'[s] # NotCalled =>
              Remembered(mod, local, InstOf(mod, s).callee, argsCall'[s], retCall'[s])
    PROVE  FlowInv'
<1> DEFINE l == Len(stack)
<1>1. l \in Nat /\ l >= 1 /\ stack \in Seq(Activations(mod)) /\ Name \in Bodies(mod)
  BY TopFacts DEF PassInv, StackInv
<1>2. a \in Activations(mod) /\ a.fun = Name BY <1>1 DEF Activations, ActivationsOf
<1>3. /\ Len(stack') = l /\ stack' # <<>>
      /\ \A j \in 1 .. l : stack'[j] = IF j = l THEN a ELSE stack[j]
  <2>1. stack' = [stack EXCEPT ![l] = a] BY DEF SetTop
  <2>2. /\ stack' \in Seq(Activations(mod)) /\ Len(stack') = l
        /\ \A j \in 1 .. l : stack'[j] = IF j = l THEN a ELSE stack[j]
    BY <1>1, <1>2, <2>1, ExceptSeq, LenProperties
  <2> QED BY <1>1, <2>2, EmptySeq
<1>4. Top = stack[l] BY DEF Top
<1>5. Sites' = Sites /\ Waiting' = Waiting
  <2>1. \A j \in 1 .. l - 1 : j \in 1 .. l /\ j # l BY <1>1
  <2>2. \A j \in 1 .. l - 1 : SiteOf(stack'[j]) = SiteOf(stack[j]) BY <1>3, <2>1
  <2> QED BY <1>3, <2>2 DEF Sites, Waiting
<1> HIDE DEF l
<1>6. \A j \in 1 .. l :
          Claims(mod, stack'[j]) /\ CallsCovered(mod, local, stack'[j]) /\ Started(stack'[j])
  BY <1>3 DEF FlowInv, l
<1>7. ASSUME NEW j \in 1 .. l - 1 PROVE Waits(mod, argsCall', stack'[j], stack'[j + 1])
  <2>1. j \in 1 .. l /\ j # l /\ j + 1 \in 1 .. l BY <1>1
  <2>2. Waits(mod, argsCall, stack[j], stack[j + 1]) BY <1>7 DEF FlowInv, l
  <2>3. stack'[j + 1].fun = stack[j + 1].fun /\ stack'[j + 1].args = stack[j + 1].args
    BY <1>2, <1>3, <1>4, <2>1 DEF Name
  <2>4. argsCall'[SiteOf(stack[j])] = argsCall[SiteOf(stack[j])]
    <3>1. SiteOf(stack[j]) \in Waiting BY <1>7 DEF Waiting, l
    <3> QED BY <3>1
  <2>5. stack'[j] = stack[j] BY <1>3, <2>1
  <2> QED BY <2>2, <2>3, <2>4, <2>5 DEF Waits
<1>8. \A j \in 1 .. l : stack'[j].fun = stack[j].fun /\ stack'[j].args = stack[j].args
  BY <1>2, <1>3, <1>4 DEF Name
<1>9. \A i, j \in 1 .. l : i < j => Depth(mod)[stack'[j].fun] < Depth(mod)[stack'[i].fun]
  BY <1>8 DEF FlowInv, l
<1>10. stack'[1].fun = "main" /\ stack'[1].args = NothingGranted(mod)
  <2>1. 1 \in 1 .. l BY <1>1
  <2> QED BY <1>8, <2>1 DEF FlowInv
<1>11. MemoInv'
  <2>1. \A s \in Sites \ Waiting : argsCall'[s] # NotCalled =>
            Remembered(mod', local', InstOf(mod', s).callee, argsCall'[s], retCall'[s])
    OBVIOUS
  <2> QED BY <1>5, <2>1 DEF MemoInv
<1>12. \A f \in FunsOf(mod) : Exits(mod, f) = {} => local[f] = NotSeen BY DEF FlowInv
<1> QED BY <1>3, <1>5, <1>6, <1>7, <1>9, <1>10, <1>11, <1>12 DEF FlowInv

(* The memo does not change.                                               *)
LEMMA FlowTopOnly ==
    ASSUME PassInv, FlowInv, stack # <<>>, UNCHANGED <<mod, argsCall, retCall, local>>,
           NEW a \in ActivationsOf(mod, Name), a.args = Top.args, SetTop(a),
           Claims(mod, a), CallsCovered(mod, local, a), Started(a)
    PROVE  FlowInv'
<1>1. /\ DOMAIN argsCall' = Sites /\ \A s \in Waiting : argsCall'[s] = argsCall[s]
      /\ \A s \in Sites \ Waiting : argsCall'[s] # NotCalled =>
            Remembered(mod, local, InstOf(mod, s).callee, argsCall'[s], retCall'[s])
  BY DEF FlowInv, MemoInv
<1> QED BY <1>1, FlowTop

LEMMA DepthFacts ==
    ASSUME NEW m, Analysable(m)
    PROVE  /\ \A f \in FunsOf(m) : Depth(m)[f] \in Nat
           /\ \A f \in FunsOf(m) : \A g \in Callees(m, f) : Depth(m)[g] < Depth(m)[f]
<1>1. \E depth : Deeper(m, depth) BY DEF Analysable, FollowsCalls, Deeper
<1>2. Deeper(m, Depth(m)) BY <1>1 DEF Depth
<1>3. Depth(m) \in [FunsOf(m) -> 0 .. Cardinality(FunsOf(m))] BY <1>2 DEF Deeper
<1>4. \A f \in FunsOf(m) : Depth(m)[f] \in 0 .. Cardinality(FunsOf(m)) BY <1>3
<1>5. \A n : \A d \in 0 .. n : d \in Nat OBVIOUS
<1> QED BY <1>2, <1>4, <1>5 DEF Deeper

(* What holds of the running activation.                                   *)
LEMMA TopFlow ==
    ASSUME PassInv, FlowInv, AtInst, Analysable(mod)
    PROVE  /\ Claims(mod, Top) /\ CallsCovered(mod, local, Top) /\ Started(Top) /\ Top.fun = Name
           /\ Nested(mod, Top) /\ Valid(mod, Name, Top.args, Facts(Top))
           /\ Facts(Top).exact \subseteq Facts(Top).bound
           /\ Facts(Top).bound = Top.bound /\ Facts(Top).exact = Top.exact
           /\ Facts(Top).bounds = Top.bounds
           /\ Site \notin Waiting
           /\ Inst = Fun(mod, Name).insts[Top.k] /\ InstOf(mod, Site) = Inst
<1> DEFINE l == Len(stack)
<1>1. stack # <<>> /\ l \in Nat /\ l >= 1 BY TopFacts DEF AtInst
<1>2. Claims(mod, Top) /\ CallsCovered(mod, local, Top) /\ Started(Top)
  <2>1. l \in 1 .. l BY <1>1
  <2> QED BY <2>1 DEF FlowInv, Top
<1>3. Top.fun = Name /\ Nested(mod, Top) BY AtInstFacts DEF Name, Good
<1>4. Valid(mod, Name, Top.args, Facts(Top)) BY <1>2, <1>3, ClaimsValid
<1>5. Site \notin Waiting
  <2> SUFFICES ASSUME NEW j \in 1 .. l - 1, Site = SiteOf(stack[j]) PROVE FALSE
    BY DEF Waiting
  <2>1. j \in 1 .. l /\ l \in 1 .. l /\ j < l BY <1>1
  <2>2. stack[j].fun = Name BY DEF SiteOf, Site
  <2>3. stack[l].fun = Name BY <1>3 DEF Top
  <2>4. Depth(mod)[Name] < Depth(mod)[Name] BY <2>1, <2>2, <2>3 DEF FlowInv
  <2>5. Depth(mod)[Name] \in Nat
    <3>1. Name \in FunsOf(mod) BY AtInstFacts DEF Bodies
    <3> QED BY <3>1, DepthFacts
  <2> QED BY <2>4, <2>5
<1>6. /\ Facts(Top).bound = Top.bound /\ Facts(Top).exact = Top.exact
      /\ Facts(Top).bounds = Top.bounds /\ Facts(Top).exact \subseteq Facts(Top).bound
  BY <1>3 DEF Facts, Nested
<1>7. Inst = Fun(mod, Name).insts[Top.k] /\ InstOf(mod, Site) = Inst BY DEF Inst, InstOf, Site
<1> QED BY <1>2, <1>3, <1>4, <1>5, <1>6, <1>7

-----------------------------------------------------------------------------
(* A visit that learns only what is true, at an instruction that follows   *)
(* no call or a covered one.                                               *)
LEMMA FlowLearn ==
    ASSUME PassInv, FlowInv, Analysable(mod), AtInst, NEW t, Truthful(mod, Top, t), Learn(t),
           \A C \in Vectors(mod, Name) : Matches(mod, Name, Top.args, C) =>
              Follows(mod, Covered(mod, local), Name, C, Top.k)
    PROVE  FlowInv'
<1>1. /\ mod \in DOMAIN Modules /\ Name \in Bodies(mod) /\ Top \in ActivationsOf(mod, Name)
      /\ Top.k \in Named(mod, Name) /\ Good(mod, Top) /\ Calling(mod, Top) /\ stack # <<>>
      /\ Facts(Top) \in FactsOf(mod, Name) /\ Includes(Facts(Top), Top)
  BY AtInstFacts
<1>2. /\ Claims(mod, Top) /\ CallsCovered(mod, local, Top) /\ Started(Top) BY TopFlow
<1>3. t \in FactsOf(mod, Name) /\ Claims(mod, Learned(Top, t)) BY <1>1, <1>2, LearnedClaims
<1>4. CallsCovered(mod, local, Learned(Top, t)) /\ Started(Learned(Top, t))
  BY <1>1, <1>2, LearnedCovered
<1>5. Includes(t, Top) BY <1>1, WithBoundFacts, WithExactFacts DEF Truthful
<1>6. Learned(Top, t) \in ActivationsOf(mod, Name) BY <1>1, <1>3, <1>5, LearnedGood
<1>7. Learned(Top, t).args = Top.args BY DEF Learned
<1>8. UNCHANGED <<mod, argsCall, retCall, local>> /\ SetTop(Learned(Top, t))
  BY DEF Learn, SetFacts, Learned
<1> QED BY <1>1, <1>3, <1>4, <1>6, <1>7, <1>8, FlowTopOnly

(* The memo of a call that is not waited for is right about it.            *)
LEMMA MemoTrue ==
    ASSUME PassInv, FlowInv, Analysable(mod), AtInst, IsAnalysedCall(Inst),
           argsCall[Site] = CallArgs
    PROVE  /\ Truthful(mod, Top, WithAttribute(Facts(Top), Top.k, retCall[Site]))
           /\ \A C \in Vectors(mod, Name) : Matches(mod, Name, Top.args, C) =>
                 Follows(mod, Covered(mod, local), Name, C, Top.k)
<1>1. /\ Site \in Sites /\ Site \notin Waiting /\ InstOf(mod, Site) = Inst
      /\ Inst = Fun(mod, Name).insts[Top.k] /\ Inst.op = "call"
  BY CallArgsType, TopFlow DEF IsAnalysedCall
<1>2. argsCall[Site] # NotCalled
  <2>1. \A k \in DOMAIN CallArgs : CallArgs[k] \in Words
    BY CallArgsType DEF Attributes
  <2>2. NotCalled[1] \notin Words /\ 1 \in DOMAIN NotCalled BY DEF NotCalled, Words
  <2> QED BY <2>1, <2>2
<1>3. Remembered(mod, local, Inst.callee, CallArgs, retCall[Site])
  BY <1>1, <1>2 DEF FlowInv, MemoInv
<1>4. CASE Inst.callee \in Bodies(mod)
  <2>1. /\ Analysed(mod, local, Inst.callee, AttributesOf(Inst, Facts(Top)))
        /\ Answers(mod, Inst.callee, AttributesOf(Inst, Facts(Top)), retCall[Site])
    BY <1>3, <1>4 DEF Remembered, CallArgs, AttributesOf
  <2>2. retCall[Site] \in Words BY <1>1 DEF PassInv
  <2>3. /\ mod \in DOMAIN Modules /\ Name \in Bodies(mod) /\ Top \in ActivationsOf(mod, Name)
        /\ Top.k \in PositionsOf(mod, Name) /\ Nested(mod, Top) /\ Claims(mod, Top)
    BY AtInstFacts, TopFlow
  <2>4. \A r \in Words : Answers(mod, Inst.callee, AttributesOf(Inst, Facts(Top)), r) =>
            Truthful(mod, Top, WithAttribute(Facts(Top), Top.k, r))
    BY <1>1, <1>4, <2>3, CalleeMatch
  <2>5. \A L : Analysed(mod, L, Inst.callee, AttributesOf(Inst, Facts(Top))) =>
            \A C \in Vectors(mod, Name) : Matches(mod, Name, Top.args, C) =>
               Follows(mod, Covered(mod, L), Name, C, Top.k)
    BY <1>1, <1>4, <2>3, CalleeMatch
  <2> QED BY <2>1, <2>2, <2>4, <2>5
<1>5. CASE Inst.callee \notin Bodies(mod)
  <2>1. retCall[Site] = UNBOUND_ATTR BY <1>3, <1>5 DEF Remembered
  <2>2. WithAttribute(Facts(Top), Top.k, retCall[Site]) = Facts(Top)
    <3>1. DYNBOUND_ATTR # UNBOUND_ATTR BY WordAssumption DEF DYNBOUND_ATTR, UNBOUND_ATTR
    <3> HIDE DEF DYNBOUND_ATTR, UNBOUND_ATTR
    <3> QED BY <2>1, <3>1 DEF WithAttribute
  <2>3. \A K, C : Follows(mod, K, Name, C, Top.k) BY <1>1, <1>5, NoCall
  <2> QED BY <2>2, <2>3 DEF Truthful
<1> QED BY <1>4, <1>5

LEMMA FlowVisit ==
    ASSUME PassInv, FlowInv, Analysable(mod),
           \/ VisitAlloca \/ VisitPhi \/ VisitGep \/ VisitCast
           \/ VisitAllocator \/ VisitReturnsArgument \/ VisitOther \/ ReuseCall
    PROVE  FlowInv'
<1> DEFINE F == Facts(Top)
           v == Top.k
           args == Top.args
           Covers == \A C \in Vectors(mod, Name) : Matches(mod, Name, args, C) =>
                        Follows(mod, Covered(mod, local), Name, C, v)
           Learns == \E t : Truthful(mod, Top, t) /\ Learn(t)
<1>0. AtInst
  BY DEF VisitAlloca, VisitPhi, VisitGep, VisitCast, VisitAllocator, VisitReturnsArgument,
         VisitOther, ReuseCall
<1>1. /\ mod \in DOMAIN Modules /\ Name \in Bodies(mod) /\ Name \in FunsOf(mod)
      /\ v \in PositionsOf(mod, Name) /\ F \in FactsOf(mod, Name)
      /\ Inst \in Insts(ValuesOf(mod, Name), FunsOf(mod)) /\ Arity(Inst)
  BY <1>0, AtInstFacts DEF Bodies
<1>2. /\ Valid(mod, Name, args, F) /\ F.exact \subseteq F.bound /\ Top.fun = Name
      /\ Inst = Fun(mod, Name).insts[v]
      /\ F.bound = Top.bound /\ F.exact = Top.exact /\ F.bounds = Top.bounds
  BY <1>0, TopFlow
<1>a. Learn(F) => Learns BY DEF Truthful
<1>b. InBounds(mod, Name, args, v) /\ Learn(WithBound(F, v)) => Learns BY <1>2 DEF Truthful
<1>c. \A n \in Words :
          InBounds(mod, Name, args, v) /\ ExactAt(mod, Name, args, v, n) /\ Learn(WithExact(F, v, n))
             => Learns
  BY <1>2 DEF Truthful
<1>d. ~(Inst.op = "call" /\ Inst.callee \in Bodies(mod)) => Covers BY <1>2, NoCall
<1>e. \A g \in Bodies(mod) : /\ g \notin SizedAllocators \cup TableAllocators
                             /\ g \notin ReturnsArgument /\ g \notin {"indirect", "noop"}
  BY <1>1, NamesDiffer DEF Bodies
<1> SUFFICES Learns /\ Covers BY <1>0, FlowLearn
<1> HIDE DEF F, v, args, Learns, Covers
<1>3. CASE VisitAlloca
  <2>1. Inst.op = "alloca" /\ IsAllocation(Inst) BY <1>3 DEF VisitAlloca, IsAllocation
  <2>2. /\ InBounds(mod, Name, args, v)
        /\ HasConstSize(Inst) => ExactAt(mod, Name, args, v, Wrap(RequestedSize(Inst)))
    BY <1>1, <1>2, <2>1, AllocationTrue
  <2>3. CASE Inst.consts[2] \notin {NonConst, 0}
    <3>1. Learn(WithExact(F, v, Wrap(Inst.consts[1] * Inst.consts[2])))
      BY <1>3, <2>3 DEF VisitAlloca, F, v
    <3>2. Inst.consts[1] * Inst.consts[2] = RequestedSize(Inst) /\ HasConstSize(Inst)
      <4>1. SizeFactors(Inst) = <<Inst.consts[1], Inst.consts[2]>>
        <5>1. Inst.op = "alloca" /\ Inst.callee = "none" BY <1>1, <2>1 DEF Arity
        <5> QED BY <5>1 DEF SizeFactors
      <4>2. Inst.consts[1] # NonConst BY <1>1, <2>1 DEF Arity
      <4> QED BY <2>1, <2>3, <4>1, <4>2 DEF RequestedSize, HasConstSize
    <3>3. Wrap(RequestedSize(Inst)) \in Words
      <4>1. RequestedSize(Inst) \in Nat BY <1>1, <3>2, RequestedType
      <4> QED BY <4>1, WordFacts
    <3> QED BY <1>c, <1>d, <2>1, <2>2, <3>1, <3>2, <3>3
  <2>4. CASE ~(Inst.consts[2] \notin {NonConst, 0})
    <3>1. Learn(WithBound(F, v)) BY <1>3, <2>4 DEF VisitAlloca, F, v
    <3> QED BY <1>b, <1>d, <2>1, <2>2, <3>1
  <2> QED BY <2>3, <2>4
<1>4. CASE VisitPhi
  <2>1. Inst.op = "phi" BY <1>4 DEF VisitPhi
  <2>2. CASE Inst.isPtr /\ AllInbounds(Inst, Top.bound)
    <3>1. Learn(WithBound(F, v)) BY <1>4, <2>2 DEF VisitPhi, F, v
    <3>2. InBounds(mod, Name, args, v) BY <1>1, <1>2, <2>1, <2>2, PhiTrue
    <3> QED BY <1>b, <1>d, <2>1, <3>1, <3>2
  <2>3. CASE ~(Inst.isPtr /\ AllInbounds(Inst, Top.bound))
    <3>1. Learn(F) BY <1>4, <2>3 DEF VisitPhi, F
    <3> QED BY <1>a, <1>d, <2>1, <3>1
  <2> QED BY <2>2, <2>3
<1>5. CASE VisitGep
  <2>1. Inst.op = "gep" BY <1>5 DEF VisitGep
  <2>2. CASE Inst.isPtr /\ GepKeepsBound(Inst, Top.bound, Top.exact, Top.bounds)
    <3>1. Learn(WithExact(F, v, ExactBound(Inst, Top.bounds))) BY <1>5, <2>2 DEF VisitGep, F, v
    <3>2. ExactBound(Inst, Top.bounds) \in Words BY <1>0, <2>1, <2>2, ExactBoundType
    <3>3. InBounds(mod, Name, args, v) /\ ExactAt(mod, Name, args, v, ExactBound(Inst, Top.bounds))
      <4>1. GepKeepsBound(Inst, F.bound, F.exact, F.bounds) BY <1>2, <2>2
      <4>2. InBounds(mod, Name, args, v) /\ ExactAt(mod, Name, args, v, ExactBound(Inst, F.bounds))
        BY <1>1, <1>2, <2>1, <4>1, GepTrue
      <4> QED BY <1>2, <4>2
    <3> QED BY <1>c, <1>d, <2>1, <3>1, <3>2, <3>3
  <2>3. CASE ~(Inst.isPtr /\ GepKeepsBound(Inst, Top.bound, Top.exact, Top.bounds))
    <3>1. Learn(F) BY <1>5, <2>3 DEF VisitGep, F
    <3> QED BY <1>a, <1>d, <2>1, <3>1
  <2> QED BY <2>2, <2>3
<1>6. CASE VisitCast
  <2>1. Inst.op = "cast" BY <1>6 DEF VisitCast
  <2>2. CASE Inst.isPtr /\ CastKeepsBound(Inst, Top.bound, Top.exact, Top.bounds)
    <3>1. Learn(WithExact(F, v, ExactBound(Inst, Top.bounds))) BY <1>6, <2>2 DEF VisitCast, F, v
    <3>2. ExactBound(Inst, Top.bounds) \in Words BY <1>0, <2>1, <2>2, ExactBoundType
    <3>3. InBounds(mod, Name, args, v) /\ ExactAt(mod, Name, args, v, ExactBound(Inst, Top.bounds))
      <4>1. CastKeepsBound(Inst, F.bound, F.exact, F.bounds) BY <1>2, <2>2
      <4>2. InBounds(mod, Name, args, v) /\ ExactAt(mod, Name, args, v, ExactBound(Inst, F.bounds))
        BY <1>1, <1>2, <2>1, <4>1, CastTrue
      <4> QED BY <1>2, <4>2
    <3> QED BY <1>c, <1>d, <2>1, <3>1, <3>2, <3>3
  <2>3. CASE ~(Inst.isPtr /\ CastKeepsBound(Inst, Top.bound, Top.exact, Top.bounds))
    <3>1. Learn(F) BY <1>6, <2>3 DEF VisitCast, F
    <3> QED BY <1>a, <1>d, <2>1, <3>1
  <2> QED BY <2>2, <2>3
<1>7. CASE VisitAllocator
  <2>1. Inst.op = "call" /\ IsAllocation(Inst) BY <1>7 DEF VisitAllocator
  <2>2. Covers
    <3>1. Inst.callee \in SizedAllocators \cup TableAllocators BY <2>1 DEF IsAllocation
    <3> QED BY <1>d, <1>e, <3>1
  <2>3. /\ InBounds(mod, Name, args, v)
        /\ HasConstSize(Inst) => ExactAt(mod, Name, args, v, IntSize(Wrap(RequestedSize(Inst))))
    BY <1>1, <1>2, <2>1, AllocationTrue
  <2>4. CASE IntSize(ConstantAllocSize(Inst)) # 0
    <3>1. Learn(WithExact(F, v, IntSize(ConstantAllocSize(Inst))))
      BY <1>7, <2>4 DEF VisitAllocator, F, v
    <3>2. HasConstSize(Inst)
      <4> SUFFICES ASSUME ~HasConstSize(Inst) PROVE FALSE OBVIOUS
      <4>1. ConstantAllocSize(Inst) = 0 BY DEF ConstantAllocSize
      <4>2. 0 % IntWord = 0 BY IntWordAssumption
      <4>3. IntSize(0) = 0 BY <4>2, IntWordAssumption DEF IntSize
      <4> QED BY <2>4, <4>1, <4>3
    <3>3. IntSize(ConstantAllocSize(Inst)) \in Words BY <1>1, AllocSizeType, WordFacts
    <3>4. ConstantAllocSize(Inst) = Wrap(RequestedSize(Inst)) BY <3>2 DEF ConstantAllocSize
    <3> QED BY <1>c, <2>2, <2>3, <3>1, <3>2, <3>3, <3>4
  <2>5. CASE ~(IntSize(ConstantAllocSize(Inst)) # 0)
    <3>1. Learn(WithBound(F, v)) BY <1>7, <2>5 DEF VisitAllocator, F, v
    <3> QED BY <1>b, <2>2, <2>3, <3>1
  <2> QED BY <2>4, <2>5
<1>8. CASE VisitReturnsArgument
  <2> DEFINE u == ReturnedArg(Inst)
             b == IF u \in F.bound THEN WithBound(F, v) ELSE F
             e == [b EXCEPT !.exact = @ \cup {v}, !.bounds[v] = F.bounds[u]]
  <2>1. Inst.op = "call" /\ Inst.callee \in ReturnsArgument BY <1>8 DEF VisitReturnsArgument
  <2>2. Learn(CASE ~Inst.isPtr -> F [] u \in F.exact -> e [] OTHER -> b)
    BY <1>8 DEF VisitReturnsArgument, F, v
  <2>3. Covers BY <1>d, <1>e, <2>1
  <2>4. /\ u \in F.bound => InBounds(mod, Name, args, v)
        /\ u \in F.exact => ExactAt(mod, Name, args, v, F.bounds[u])
    BY <1>1, <1>2, <2>1, ReturnedArgTrue
  <2>5. Learn(b) => Learns BY <1>a, <1>b, <2>4
  <2>6. CASE u \in F.exact
    <3>1. F.bounds \in [ValuesOf(mod, Name) -> Words] /\ F.exact \subseteq Named(mod, Name)
      BY <1>1 DEF FactsOf
    <3>2. u \in F.bound BY <1>2, <2>6
    <3>3. F.bounds[u] \in Words BY <1>1, <2>6, <3>1, NamedFacts
    <3>4. e = WithExact(F, v, F.bounds[u])
      BY <1>1, <3>2 DEF WithBound, WithExact, FactsOf
    <3> QED BY <1>a, <1>c, <2>2, <2>3, <2>4, <2>6, <3>2, <3>3, <3>4
  <2>7. CASE u \notin F.exact
    <3> HIDE DEF b, u
    <3> QED BY <1>a, <2>2, <2>3, <2>5, <2>7
  <2> QED BY <2>6, <2>7
<1>9. CASE VisitOther
  <2>1. Learn(F) BY <1>9 DEF VisitOther, F
  <2>2. ~(Inst.op = "call" /\ Inst.callee \in Bodies(mod))
    <3> SUFFICES ASSUME Inst.op = "call", Inst.callee \in Bodies(mod) PROVE FALSE OBVIOUS
    <3>1. Fun(mod, Inst.callee).varArg BY <1>9, <1>e DEF VisitOther
    <3>2. Inst.callee \in FunsOf(mod) /\ Fun(mod, Inst.callee).blocks # <<>> BY DEF Bodies
    <3>3. Inst.callee \in Callees(mod, Name) BY <1>1, <1>2, <3>2 DEF Callees
    <3> QED BY <1>1, <3>1, <3>2, <3>3 DEF Analysable, FollowsCalls
  <2> QED BY <1>a, <1>d, <2>1, <2>2
<1>10. CASE ReuseCall
  <2>1. /\ IsAnalysedCall(Inst) /\ argsCall[Site] = CallArgs
        /\ Learn(WithAttribute(F, v, retCall[Site]))
    BY <1>10 DEF ReuseCall, F, v
  <2>2. Truthful(mod, Top, WithAttribute(F, v, retCall[Site])) /\ Covers
    BY <1>0, <2>1, MemoTrue DEF F, v, Covers, args
  <2> QED BY <2>1, <2>2 DEF Learns
<1> QED BY <1>3, <1>4, <1>5, <1>6, <1>7, <1>8, <1>9, <1>10

-----------------------------------------------------------------------------
(* A declaration answers UNBOUND, and follows nothing.                     *)
LEMMA FlowDeclaration ==
    ASSUME PassInv, FlowInv, Analysable(mod), CallDeclaration
    PROVE  FlowInv'
<1>1. /\ AtInst /\ IsAnalysedCall(Inst) /\ mod' = mod /\ local' = local
      /\ argsCall' = [argsCall EXCEPT ![Site] = CallArgs]
      /\ retCall' = [retCall EXCEPT ![Site] = UNBOUND_ATTR]
      /\ SetTop(Learned(Top, Facts(Top)))
      /\ Inst.callee \notin Bodies(mod)
  BY DEF CallDeclaration, SetFacts, Learned, Bodies
<1>2. /\ mod \in DOMAIN Modules /\ Name \in Bodies(mod) /\ Top \in ActivationsOf(mod, Name)
      /\ Top.k \in Named(mod, Name) /\ Good(mod, Top) /\ Calling(mod, Top) /\ stack # <<>>
      /\ Facts(Top) \in FactsOf(mod, Name) /\ Includes(Facts(Top), Top)
  BY <1>1, AtInstFacts
<1>3. /\ Claims(mod, Top) /\ CallsCovered(mod, local, Top) /\ Started(Top)
      /\ Site \notin Waiting /\ InstOf(mod, Site) = Inst /\ Inst = Fun(mod, Name).insts[Top.k]
  BY <1>1, TopFlow
<1>4. Claims(mod, Learned(Top, Facts(Top)))
  <2>1. Truthful(mod, Top, Facts(Top)) BY DEF Truthful
  <2> QED BY <1>2, <1>3, <2>1, LearnedClaims
<1>5. CallsCovered(mod, local, Learned(Top, Facts(Top))) /\ Started(Learned(Top, Facts(Top)))
  <2>1. \A K, C : Follows(mod, K, Name, C, Top.k) BY <1>1, <1>3, NoCall
  <2> QED BY <1>2, <1>3, <2>1, LearnedCovered
<1>6. Learned(Top, Facts(Top)) \in ActivationsOf(mod, Name) BY <1>2, LearnedGood
<1>7. Learned(Top, Facts(Top)).args = Top.args BY DEF Learned
<1>8. DOMAIN argsCall = Sites /\ DOMAIN retCall = Sites /\ Site \in Sites
  BY <1>1, CallArgsType DEF FlowInv, PassInv
<1>9. DOMAIN argsCall' = Sites /\ \A s \in Waiting : argsCall'[s] = argsCall[s]
  <2>1. \A s \in Waiting : s # Site BY <1>3
  <2>2. \A s : s # Site => argsCall'[s] = argsCall[s]
    <3> SUFFICES ASSUME NEW s, s # Site PROVE argsCall'[s] = argsCall[s] OBVIOUS
    <3>1. CASE s \in Sites BY <1>1, <1>8, <3>1
    <3>2. CASE s \notin Sites
      <4> QED BY <1>1, <1>8, <3>2
    <3> QED BY <3>1, <3>2
  <2> QED BY <1>1, <1>8, <2>1, <2>2
<1>10. ASSUME NEW s \in Sites \ Waiting, argsCall'[s] # NotCalled
       PROVE  Remembered(mod, local, InstOf(mod, s).callee, argsCall'[s], retCall'[s])
  <2>1. CASE s = Site
    <3>1. retCall'[s] = UNBOUND_ATTR BY <1>1, <1>8, <2>1
    <3> QED BY <1>1, <1>3, <2>1, <3>1 DEF Remembered
  <2>2. CASE s # Site
    <3>1. argsCall'[s] = argsCall[s] /\ retCall'[s] = retCall[s] BY <1>1, <1>8, <2>2
    <3> QED BY <1>10, <3>1 DEF FlowInv, MemoInv
  <2> QED BY <2>1, <2>2
<1> QED BY <1>1, <1>2, <1>4, <1>5, <1>6, <1>7, <1>9, <1>10, FlowTop

(* A call of a function with a body: one level further down.               *)
LEMMA FlowEnter ==
    ASSUME PassInv, FlowInv, Analysable(mod), EnterCall
    PROVE  FlowInv'
<1> DEFINE a == Activation(Inst.callee, CallArgs)
           l == Len(stack)
<1>1. /\ AtInst /\ IsAnalysedCall(Inst) /\ mod' = mod /\ local' = local
      /\ argsCall' = [argsCall EXCEPT ![Site] = CallArgs]
      /\ retCall' = [retCall EXCEPT ![Site] = DYNBOUND_ATTR]
      /\ stack' = Append(stack, a) /\ Inst.op = "call"
      /\ Fun(mod, Inst.callee).blocks # <<>>
  BY DEF EnterCall, UNBOUND, IsAnalysedCall
<1>2. /\ mod \in DOMAIN Modules /\ Name \in FunsOf(mod) /\ stack # <<>>
      /\ Top.k \in PositionsOf(mod, Name)
      /\ Inst.callee \in Bodies(mod) /\ Inst.callee \in FunsOf(mod)
      /\ CallArgs \in Attributes(Len(Fun(mod, Inst.callee).params)) /\ Site \in Sites
  BY <1>1, AtInstFacts, CallArgsType DEF Bodies
<1>3. /\ Site \notin Waiting /\ InstOf(mod, Site) = Inst /\ Inst = Fun(mod, Name).insts[Top.k]
      /\ Top.fun = Name
  BY <1>1, TopFlow
<1>4. /\ a \in ActivationsOf(mod, Inst.callee) /\ a \in Activations(mod) /\ Claims(mod, a)
      /\ a.fun = Inst.callee /\ a.args = CallArgs /\ a.visits = {} /\ a.worklist = {1}
  <2>1. a \in ActivationsOf(mod, Inst.callee) BY <1>2, ActivationGood
  <2>2. Claims(mod, a) BY <1>2, ActivationClaims
  <2>3. a.fun = Inst.callee /\ a.args = CallArgs /\ a.visits = {} /\ a.worklist = {1}
    BY DEF Activation
  <2> HIDE DEF a
  <2> QED BY <1>2, <2>1, <2>2, <2>3 DEF Activations
<1> HIDE DEF a
<1>5. CallsCovered(mod, local, a) /\ Started(a) BY <1>4 DEF CallsCovered, Started
<1>6. l \in Nat /\ l >= 1 /\ stack \in Seq(Activations(mod)) BY <1>2, TopFacts DEF PassInv, StackInv
<1>7. Top = stack[l] BY DEF Top
<1> HIDE DEF l
<1>8. /\ Len(stack') = l + 1 /\ stack' # <<>>
      /\ \A j \in 1 .. l : stack'[j] = stack[j]
      /\ stack'[l + 1] = a
  <2>1. /\ stack' \in Seq(Activations(mod)) /\ Len(stack') = l + 1
        /\ \A j \in 1 .. l : stack'[j] = stack[j]
        /\ stack'[l + 1] = a
    BY <1>1, <1>4, <1>6, AppendProperties DEF l
  <2> QED BY <1>6, <2>1, EmptySeq
<1>9. Sites' = Sites /\ Waiting' = Waiting \cup {Site}
  <2>1. Waiting' = {SiteOf(stack'[j]) : j \in 1 .. l}
    <3>1. Len(stack') - 1 = l BY <1>6, <1>8
    <3>2. Waiting' = {SiteOf(stack'[j]) : j \in 1 .. Len(stack') - 1} BY DEF Waiting
    <3> QED BY <3>1, <3>2
  <2>2. \A j \in 1 .. l : SiteOf(stack'[j]) = SiteOf(stack[j]) BY <1>8
  <2>3. SiteOf(stack[l]) = Site BY <1>3, <1>7 DEF SiteOf, Site
  <2>4. \A j \in 1 .. l : j \in 1 .. l - 1 \/ j = l BY <1>6
  <2>5. l \in 1 .. l /\ \A j \in 1 .. l - 1 : j \in 1 .. l BY <1>6
  <2>6. Waiting = {SiteOf(stack[j]) : j \in 1 .. l - 1} BY DEF Waiting, l
  <2>7. \A s \in Waiting' : s \in Waiting \cup {Site}
    <3> SUFFICES ASSUME NEW j \in 1 .. l PROVE SiteOf(stack'[j]) \in Waiting \cup {Site} BY <2>1
    <3> QED BY <2>2, <2>3, <2>4, <2>6
  <2>8. \A s \in Waiting \cup {Site} : s \in Waiting'
    <3>1. Site \in Waiting' BY <2>1, <2>2, <2>3, <2>5
    <3>2. \A j \in 1 .. l - 1 : SiteOf(stack[j]) \in Waiting' BY <2>1, <2>2, <2>5
    <3> QED BY <2>6, <3>1, <3>2
  <2>9. Waiting' = Waiting \cup {Site} BY <2>7, <2>8
  <2>10. Sites' = Sites BY <1>1 DEF Sites
  <2> QED BY <2>9, <2>10
<1>10. DOMAIN argsCall = Sites /\ DOMAIN retCall = Sites BY DEF FlowInv, PassInv
<1>11. /\ DOMAIN argsCall' = Sites
       /\ \A s \in Sites : argsCall'[s] = IF s = Site THEN CallArgs ELSE argsCall[s]
       /\ \A s \in Sites : s # Site => retCall'[s] = retCall[s]
  BY <1>1, <1>10
<1>12. \A j \in 1 .. l + 1 : j \in 1 .. l \/ j = l + 1 BY <1>6
<1>13. \A j \in 1 .. l + 1 :
          Claims(mod, stack'[j]) /\ CallsCovered(mod, local, stack'[j]) /\ Started(stack'[j])
  BY <1>4, <1>5, <1>8, <1>12 DEF FlowInv, l
<1>14. ASSUME NEW j \in 1 .. l PROVE Waits(mod, argsCall', stack'[j], stack'[j + 1])
  <2>1. CASE j = l
    <3>1. /\ SiteOf(stack[l]) = Site /\ InstOf(mod, SiteOf(stack[l])) = Inst
      BY <1>3, <1>7 DEF SiteOf, Site
    <3>2. a.args = AttributesOf(Inst, Facts(stack[l])) BY <1>4, <1>7 DEF CallArgs, AttributesOf
    <3>3. argsCall'[Site] = a.args BY <1>2, <1>4, <1>11
    <3>4. stack'[j] = stack[l] /\ stack'[j + 1] = a BY <1>8, <1>14, <2>1
    <3> QED BY <1>1, <1>4, <3>1, <3>2, <3>3, <3>4 DEF Waits
  <2>2. CASE j # l
    <3>1. j \in 1 .. l - 1 /\ j + 1 \in 1 .. l BY <1>6, <2>2
    <3>2. Waits(mod, argsCall, stack[j], stack[j + 1]) BY <3>1 DEF FlowInv, l
    <3>3. argsCall'[SiteOf(stack[j])] = argsCall[SiteOf(stack[j])]
      <4>1. SiteOf(stack[j]) \in Waiting BY <3>1 DEF Waiting, l
      <4>2. SiteOf(stack[j]) # Site BY <1>3, <4>1
      <4>3. SiteOf(stack[j]) \in Sites \/ SiteOf(stack[j]) \notin Sites OBVIOUS
      <4> QED BY <1>1, <1>10, <4>2
    <3>4. stack'[j] = stack[j] /\ stack'[j + 1] = stack[j + 1] BY <1>8, <3>1
    <3> QED BY <3>2, <3>3, <3>4 DEF Waits
  <2> QED BY <2>1, <2>2
<1>15. ASSUME NEW i \in 1 .. l + 1, NEW j \in 1 .. l + 1, i < j
       PROVE  Depth(mod)[stack'[j].fun] < Depth(mod)[stack'[i].fun]
  <2>1. Depth(mod)[a.fun] < Depth(mod)[Name] /\ Depth(mod)[a.fun] \in Nat /\ Depth(mod)[Name] \in Nat
    <3>1. Inst.callee \in Callees(mod, Name) BY <1>1, <1>2, <1>3 DEF Callees
    <3> QED BY <1>2, <1>4, <3>1, DepthFacts
  <2>2. CASE j \in 1 .. l
    <3>1. i \in 1 .. l BY <1>6, <1>15, <2>2
    <3> QED BY <1>8, <1>15, <2>2, <3>1 DEF FlowInv, l
  <2>3. CASE j = l + 1
    <3>1. i \in 1 .. l /\ l \in 1 .. l BY <1>6, <1>15, <2>3
    <3>2. CASE i = l BY <1>3, <1>7, <1>8, <2>1, <2>3, <3>1, <3>2
    <3>3. CASE i # l
      <4>1. i < l BY <1>6, <3>1, <3>3
      <4>2. Depth(mod)[stack[l].fun] < Depth(mod)[stack[i].fun] BY <3>1, <4>1 DEF FlowInv, l
      <4>3. stack[i].fun \in FunsOf(mod)
        <5>1. stack[i] \in Activations(mod) BY <1>6, <3>1, ElementOfSeq DEF l
        <5> QED BY <5>1 DEF Activations, ActivationsOf, Bodies
      <4>4. Depth(mod)[stack[i].fun] \in Nat BY <4>3, DepthFacts
      <4> QED BY <1>3, <1>7, <1>8, <2>1, <2>3, <3>1, <4>2, <4>4
    <3> QED BY <3>2, <3>3
  <2> QED BY <1>12, <2>2, <2>3
<1>16. MemoInv'
  <2>1. ASSUME NEW s \in Sites \ (Waiting \cup {Site}), argsCall'[s] # NotCalled
        PROVE  Remembered(mod, local, InstOf(mod, s).callee, argsCall'[s], retCall'[s])
    <3>1. argsCall'[s] = argsCall[s] /\ retCall'[s] = retCall[s] BY <1>11
    <3> QED BY <2>1, <3>1 DEF FlowInv, MemoInv
  <2> QED BY <1>1, <1>9, <2>1 DEF MemoInv
<1>17. stack'[1].fun = "main" /\ stack'[1].args = NothingGranted(mod)
  <2>1. 1 \in 1 .. l BY <1>6
  <2> QED BY <1>2, <1>8, <2>1 DEF FlowInv
<1>18. \A f \in FunsOf(mod) : Exits(mod, f) = {} => local[f] = NotSeen BY DEF FlowInv
<1>19. 1 .. Len(stack') = 1 .. l + 1 /\ 1 .. Len(stack') - 1 = 1 .. l BY <1>6, <1>8
<1> HIDE DEF l
<1>20. \A j \in 1 .. Len(stack') - 1 : Waits(mod, argsCall', stack'[j], stack'[j + 1])
  BY <1>14, <1>19
<1>21. \A i, j \in 1 .. Len(stack') :
          i < j => Depth(mod)[stack'[j].fun] < Depth(mod)[stack'[i].fun]
  BY <1>15, <1>19
<1> QED BY <1>1, <1>8, <1>9, <1>11, <1>13, <1>16, <1>17, <1>18, <1>19, <1>20, <1>21 DEF FlowInv

(* What replaces the running activation is one, as PassInv says.           *)
LEMMA SetTopType ==
    ASSUME PassInv, stack # <<>>, mod' = mod, StackInv', NEW a, SetTop(a), a.fun = Name
    PROVE  a \in ActivationsOf(mod, Name)
<1> DEFINE l == Len(stack)
<1>1. l \in Nat /\ l >= 1 /\ stack \in Seq(Activations(mod)) BY TopFacts DEF PassInv, StackInv
<1>2. stack' = [stack EXCEPT ![l] = a] BY DEF SetTop
<1>3. l \in DOMAIN stack /\ DOMAIN stack = 1 .. l BY <1>1, LenProperties
<1>4. stack'[l] = a /\ DOMAIN stack' = DOMAIN stack BY <1>2, <1>3
<1>5. stack' \in Seq(Activations(mod)) BY DEF StackInv
<1>6. l \in 1 .. Len(stack') BY <1>3, <1>4, <1>5, LenProperties
<1>7. a \in Activations(mod) BY <1>4, <1>5, <1>6, ElementOfSeq
<1> QED BY <1>7 DEF Activations, ActivationsOf

(* A block is taken off the worklist.                                      *)
LEMMA FlowDequeue ==
    ASSUME PassInv, FlowInv, NEW n, Dequeue(n)
    PROVE  FlowInv'
<1> DEFINE bound == IF n = 1 THEN Top.boundArgs \cup GlobalsOf(mod)
                    ELSE UNION {Top.boundOut[p] : p \in Preds(mod, Name, n)}
           exact == IF n = 1 THEN Top.exactArgs \cup GlobalsOf(mod)
                    ELSE UNION {Top.exactOut[p] : p \in Preds(mod, Name, n)}
           a == [Top EXCEPT !.worklist = @ \ {n}, !.visits = @ \cup {n},
                            !.seen = n \in Top.visits, !.node = n,
                            !.k = Block(mod, Name, n).first,
                            !.bound = bound, !.exact = exact]
<1>1. /\ stack # <<>> /\ UNCHANGED <<mod, argsCall, retCall, local>> /\ SetTop(a)
      /\ n \in Top.worklist /\ Top.node = Idle
  BY DEF Dequeue
<1>2. /\ mod \in DOMAIN Modules /\ Name \in Bodies(mod)
      /\ Top \in ActivationsOf(mod, Name) /\ Good(mod, Top) /\ Top.fun = Name
  BY <1>1, TopFacts DEF PassInv, Name
<1>3. Claims(mod, Top) /\ CallsCovered(mod, local, Top) /\ Started(Top)
  <2>1. Len(stack) \in 1 .. Len(stack) BY <1>1, TopFacts
  <2> QED BY <2>1 DEF FlowInv, Top
<1>4. a \in ActivationsOf(mod, Name)
  <2>1. StackInv' BY DequeueInv
  <2>2. a.fun = Name BY <1>2
  <2> HIDE DEF a
  <2> QED BY <1>1, <2>1, <2>2, SetTopType
<1>5. bound \subseteq Known(mod, Top) /\ exact \subseteq KnownExact(mod, Top)
  BY <1>2 DEF Known, KnownExact, Preds
<1> HIDE DEF bound, exact
<1>6. /\ a.worklist = Top.worklist \ {n} /\ a.visits = Top.visits \cup {n}
      /\ a.seen = (n \in Top.visits) /\ a.node = n /\ a.k = Block(mod, Name, n).first
      /\ a.bound = bound /\ a.exact = exact /\ a.fun = Name /\ a.args = Top.args
      /\ a.bounds = Top.bounds
      /\ a.boundOut = Top.boundOut /\ a.exactOut = Top.exactOut
      /\ a.boundArgs = Top.boundArgs /\ a.exactArgs = Top.exactArgs
  BY <1>2 DEF ActivationsOf
<1> HIDE DEF a
<1>7. Claims(mod, a)
  <2>1. Known(mod, a) \subseteq Known(mod, Top) /\ KnownExact(mod, a) \subseteq KnownExact(mod, Top)
    BY <1>2, <1>5, <1>6 DEF Known, KnownExact
  <2> QED BY <1>2, <1>3, <1>6, <2>1 DEF Claims
<1>8. CallsCovered(mod, local, a)
  <2> SUFFICES ASSUME NEW p \in a.visits, NEW v \in Within(mod, Name, p), ~Ahead(a, p, v)
               PROVE  p \in Top.visits /\ ~Ahead(Top, p, v)
    BY <1>2, <1>3, <1>6 DEF CallsCovered
  <2>1. p \in BlocksOf(mod, Name)
    BY <1>1, <1>2, <1>6 DEF ActivationsOf
  <2>2. v >= Block(mod, Name, p).first BY <2>1, BlockFacts, <1>2 DEF Within
  <2>3. p \in Top.visits BY <1>6, <2>2 DEF Ahead
  <2>4. p # Idle BY <1>2, <2>1, BlockFacts
  <2> QED BY <1>1, <2>3, <2>4 DEF Ahead
<1>9. Started(a) BY <1>3, <1>6 DEF Started
<1> QED BY <1>1, <1>4, <1>6, <1>7, <1>8, <1>9, FlowTopOnly

(* The end of a block.                                                     *)
LEMMA FlowEndBlock ==
    ASSUME PassInv, FlowInv, EndBlock
    PROVE  FlowInv'
<1> DEFINE changed == \/ ~Top.seen
                      \/ Top.exact # Top.exactOut[Top.node]
                      \/ Top.bound # Top.boundOut[Top.node]
           worklist == IF changed THEN Top.worklist \cup Cur.succs ELSE Top.worklist
           a == [Top EXCEPT !.worklist = worklist,
                            !.exactOut[Top.node] = Top.exact,
                            !.boundOut[Top.node] = Top.bound,
                            !.node = Idle]
<1>1. /\ stack # <<>> /\ UNCHANGED <<mod, argsCall, retCall, local>>
      /\ Top.node # Idle /\ Top.k > Cur.last
  BY DEF EndBlock
<1>2. /\ mod \in DOMAIN Modules /\ Name \in Bodies(mod)
      /\ Top \in ActivationsOf(mod, Name) /\ Good(mod, Top) /\ Top.fun = Name
      /\ Top.node \in BlocksOf(mod, Name) /\ Top.k \in Nat
  BY <1>1, TopFacts DEF PassInv, Name, ActivationsOf
<1>3. SetTop(a)
  <2>1. [Top EXCEPT !.worklist = IF changed THEN @ \cup Cur.succs ELSE @,
                    !.exactOut[Top.node] = Top.exact,
                    !.boundOut[Top.node] = Top.bound,
                    !.node = Idle] = a
    OBVIOUS
  <2> QED BY <2>1 DEF EndBlock
<1>4. Claims(mod, Top) /\ CallsCovered(mod, local, Top) /\ Started(Top)
  <2>1. Len(stack) \in 1 .. Len(stack) BY <1>1, TopFacts
  <2> QED BY <2>1 DEF FlowInv, Top
<1>5. Top.worklist \subseteq worklist OBVIOUS
<1> HIDE DEF worklist, changed
<1>6. a.fun = Name BY <1>2
<1>7. a \in ActivationsOf(mod, Name)
  <2>1. StackInv' BY EndBlockInv
  <2> HIDE DEF a
  <2> QED BY <1>1, <1>3, <1>6, <2>1, SetTopType
<1>8. /\ Top.boundOut \in [BlocksOf(mod, Name) -> SUBSET Named(mod, Name)]
      /\ Top.exactOut \in [BlocksOf(mod, Name) -> SUBSET Named(mod, Name)]
  BY <1>2 DEF ActivationsOf
<1>9. /\ a.worklist = worklist /\ a.visits = Top.visits /\ a.node = Idle
      /\ a.bound = Top.bound /\ a.exact = Top.exact /\ a.args = Top.args /\ a.bounds = Top.bounds
      /\ a.boundOut = [Top.boundOut EXCEPT ![Top.node] = Top.bound]
      /\ a.exactOut = [Top.exactOut EXCEPT ![Top.node] = Top.exact]
      /\ a.boundArgs = Top.boundArgs /\ a.exactArgs = Top.exactArgs
  BY <1>2 DEF ActivationsOf
<1> HIDE DEF a
<1>10. Claims(mod, a)
  <2>1. \A n \in BlocksOf(mod, Name) :
            /\ a.boundOut[n] = Top.bound \/ a.boundOut[n] = Top.boundOut[n]
            /\ a.exactOut[n] = Top.exact \/ a.exactOut[n] = Top.exactOut[n]
    BY <1>8, <1>9
  <2>2. Known(mod, a) \subseteq Known(mod, Top) /\ KnownExact(mod, a) \subseteq KnownExact(mod, Top)
    BY <1>2, <1>6, <1>9, <2>1 DEF Known, KnownExact
  <2> QED BY <1>2, <1>4, <1>6, <1>9, <2>2 DEF Claims
<1>11. CallsCovered(mod, local, a)
  <2> SUFFICES ASSUME NEW p \in Top.visits, NEW v \in Within(mod, Name, p)
               PROVE  ~Ahead(Top, p, v)
    BY <1>2, <1>4, <1>6, <1>9 DEF CallsCovered
  <2> SUFFICES ASSUME p = Top.node PROVE ~(v >= Top.k) BY DEF Ahead
  <2>1. v <= Cur.last /\ v \in Int /\ Cur.last \in Nat
    <3>1. Block(mod, Name, Top.node).first \in Nat /\ Block(mod, Name, Top.node).last \in Nat
      BY <1>2, BlockFacts
    <3> QED BY <3>1 DEF Within, Cur
  <2> QED BY <1>1, <1>2, <2>1
<1>12. Started(a) BY <1>4, <1>5, <1>9 DEF Started
<1> QED BY <1>1, <1>3, <1>7, <1>9, <1>10, <1>11, <1>12, FlowTopOnly

-----------------------------------------------------------------------------
(* Every element of a set that is one element is that element.             *)
LEMMA OneEntry ==
    ASSUME NEW S, Cardinality(S) = 1, IsFiniteSet(S)
    PROVE  \A x, y \in S : x = y
BY FS_Singleton

(* An activation that returns has visited all blocks that can be reached.  *)
LEMMA AllVisited ==
    ASSUME NEW m \in DOMAIN Modules, NEW f \in Bodies(m), NEW a \in ActivationsOf(m, f),
           Carried(m, a), Started(a), a.node = Idle, a.worklist = {}
    PROVE  Walkable(m, f) \subseteq a.visits
<1>1. a.visits \in SUBSET BlocksOf(m, f) /\ a.fun = f BY DEF ActivationsOf
<1>2. 1 \in a.visits BY DEF Started
<1>3. ASSUME NEW p \in a.visits PROVE Block(m, f, p).succs \subseteq a.visits
  <2>1. p # Idle BY <1>1, BlockFacts
  <2> QED BY <1>1, <2>1 DEF Carried
<1> QED BY <1>1, <1>2, <1>3, WalkableFacts

(* The exits are finitely many, and so are the entries of retSet.          *)
LEMMA RetSetFinite ==
    ASSUME PassInv, stack # <<>>
    PROVE  IsFiniteSet(RetSet)
<1> DEFINE Attr(n) == CHOOSE r \in Words : \E v \in RetVals(n) :
                          r = IF v \in Top.exactOut[n] THEN Top.bounds[v] ELSE DYNBOUND_ATTR
           Entry(n) == IF RetVals(n) = {} THEN 0 ELSE Attr(n)
           E == Exits(mod, Name)
           G == [n \in E |-> Entry(n)]
<1>1. mod \in DOMAIN Modules /\ Name \in Bodies(mod) /\ Name \in FunsOf(mod)
  BY TopFacts DEF PassInv, Bodies
<1>2. IsFiniteSet(E)
  <2>1. Fun(mod, Name).blocks \in Seq([first : Nat, last : 0 .. Len(Fun(mod, Name).insts),
                                       succs : SUBSET Nat, ret : Seq(ValuesOf(mod, Name))])
    <3>1. WellFormed(mod) BY <1>1, ModulesAssumption
    <3> QED BY <1>1, <3>1 DEF WellFormed
  <2>2. /\ Len(Fun(mod, Name).blocks) \in Nat
        /\ BlocksOf(mod, Name) = 1 .. Len(Fun(mod, Name).blocks)
    BY <2>1, LenProperties DEF BlocksOf
  <2>3. IsFiniteSet(BlocksOf(mod, Name)) BY <2>2, FS_Interval
  <2>4. E \subseteq BlocksOf(mod, Name) BY DEF Exits
  <2> QED BY <2>3, <2>4, FS_Subset
<1>3. RetSet = {Entry(n) : n \in E} BY DEF RetSet
<1> HIDE DEF Attr, Entry, E
<1>4. G \in Surjection(E, RetSet)
  <2>1. G \in [E -> RetSet] BY <1>3
  <2>2. \A y \in RetSet : \E n \in E : G[n] = y BY <1>3
  <2> QED BY <2>1, <2>2 DEF Surjection
<1> HIDE DEF G
<1> QED BY <1>2, <1>4, FS_Surjection

-----------------------------------------------------------------------------
(* What the running activation knows at the end of its blocks is true.     *)
LEMMA OutsTrue ==
    ASSUME PassInv, FlowInv, stack # <<>>
    PROVE  /\ mod \in DOMAIN Modules /\ Name \in Bodies(mod) /\ Name \in FunsOf(mod)
           /\ Top \in ActivationsOf(mod, Name) /\ Top.fun = Name /\ Good(mod, Top)
           /\ Claims(mod, Top) /\ CallsCovered(mod, local, Top) /\ Started(Top)
           /\ \A n \in BlocksOf(mod, Name) :
                 /\ Top.exactOut[n] \subseteq Top.boundOut[n]
                 /\ Top.boundOut[n] \subseteq Named(mod, Name)
                 /\ \A v \in Top.boundOut[n] : InBounds(mod, Name, Top.args, v)
                 /\ \A v \in Top.exactOut[n] : /\ ExactAt(mod, Name, Top.args, v, Top.bounds[v])
                                               /\ Top.bounds[v] \in Words
<1>1. /\ mod \in DOMAIN Modules /\ Name \in Bodies(mod) /\ Name \in FunsOf(mod)
      /\ Top \in ActivationsOf(mod, Name) /\ Top.fun = Name /\ Good(mod, Top)
  BY TopFacts DEF PassInv, Name, Bodies
<1>2. Claims(mod, Top) /\ CallsCovered(mod, local, Top) /\ Started(Top)
  <2>1. Len(stack) \in 1 .. Len(stack) BY TopFacts
  <2> QED BY <2>1 DEF FlowInv, Top
<1>3. /\ Top.boundOut \in [BlocksOf(mod, Name) -> SUBSET Named(mod, Name)]
      /\ Top.bounds \in [ValuesOf(mod, Name) -> Words]
      /\ Named(mod, Name) \subseteq ValuesOf(mod, Name)
  BY <1>1, NamedFacts DEF ActivationsOf
<1>4. ASSUME NEW n \in BlocksOf(mod, Name)
      PROVE  /\ Top.exactOut[n] \subseteq Top.boundOut[n]
             /\ Top.boundOut[n] \subseteq Named(mod, Name)
             /\ \A v \in Top.boundOut[n] : InBounds(mod, Name, Top.args, v)
             /\ \A v \in Top.exactOut[n] : /\ ExactAt(mod, Name, Top.args, v, Top.bounds[v])
                                           /\ Top.bounds[v] \in Words
  <2>1. /\ Top.exactOut[n] \subseteq Top.boundOut[n] /\ Top.boundOut[n] \subseteq Named(mod, Name)
    BY <1>1, <1>3 DEF Good, Nested
  <2>2. /\ Top.boundOut[n] \subseteq Known(mod, Top) /\ Top.exactOut[n] \subseteq KnownExact(mod, Top)
    BY <1>1 DEF Known, KnownExact
  <2> QED BY <1>1, <1>2, <1>3, <2>1, <2>2 DEF Claims
<1> QED BY <1>1, <1>2, <1>4

(* A block that returns a value is an exit, and returns no other one.      *)
LEMMA ReturningBlocks ==
    ASSUME PassInv, stack # <<>>, NEW n \in BlocksOf(mod, Name), Block(mod, Name, n).ret # <<>>
    PROVE  n \in Exits(mod, Name) /\ RetVals(n) = {Block(mod, Name, n).ret[1]}
<1>1. mod \in DOMAIN Modules /\ Name \in Bodies(mod) /\ Name \in FunsOf(mod)
  BY TopFacts DEF PassInv, Bodies
<1>2. Len(Block(mod, Name, n).ret) <= 1 /\ Block(mod, Name, n).succs = {}
  <2>1. WellFormed(mod) BY <1>1, ModulesAssumption
  <2> QED BY <1>1, <2>1 DEF WellFormed
<1>3. Block(mod, Name, n).ret \in Seq(ValuesOf(mod, Name)) BY <1>1, BlockFacts
<1>4. DOMAIN Block(mod, Name, n).ret = {1}
  <2> DEFINE s == Block(mod, Name, n).ret
  <2> HIDE DEF s
  <2>1. s \in Seq(ValuesOf(mod, Name)) /\ s # <<>> /\ Len(s) <= 1 BY <1>2, <1>3 DEF s
  <2>2. Len(s) \in Nat /\ DOMAIN s = 1 .. Len(s) /\ Len(s) # 0 BY <2>1, LenProperties, EmptySeq
  <2>3. Len(s) = 1 BY <2>1, <2>2
  <2>4. DOMAIN s = {1} BY <2>2, <2>3
  <2> QED BY <2>4 DEF s
<1> QED BY <1>2, <1>4 DEF Exits, RetVals

(* The attribute an activation answers is true of whatever is returned.    *)
LEMMA AnswerTrue ==
    ASSUME PassInv, FlowInv, stack # <<>>, NEW r \in Results
    PROVE  Answers(mod, Name, Top.args, r)
<1> SUFFICES ASSUME NEW D \in Vectors(mod, Name), Matches(mod, Name, Top.args, D),
                    NEW n \in BlocksOf(mod, Name), NEW p,
                    Block(mod, Name, n).ret # <<>>,
                    Has(Meanings(mod), Name, D, Block(mod, Name, n).ret[1], p),
                    NEW size \in Nat, Suits(mod, Name, Block(mod, Name, n).ret[1], size),
                    r # UNBOUND_ATTR
             PROVE  Granted(r, p, size)
  BY DEF Answers, Granted
<1> DEFINE u == Block(mod, Name, n).ret[1]
<1>1. n \in Exits(mod, Name) /\ RetVals(n) = {u} BY ReturningBlocks
<1>2. /\ mod \in DOMAIN Modules /\ Name \in Bodies(mod) /\ Name \in FunsOf(mod)
      /\ Top.exactOut[n] \subseteq Top.boundOut[n] /\ Top.boundOut[n] \subseteq Named(mod, Name)
      /\ \A v \in Top.boundOut[n] : InBounds(mod, Name, Top.args, v)
      /\ \A v \in Top.exactOut[n] : /\ ExactAt(mod, Name, Top.args, v, Top.bounds[v])
                                    /\ Top.bounds[v] \in Words
  BY OutsTrue
<1>3. /\ Fun(mod, Name).retPtr /\ UnboundExits = {} /\ Exits(mod, Name) # {}
      /\ Cardinality(RetSet) = 1 => r \in RetSet
      /\ Cardinality(RetSet) # 1 => r = DYNBOUND_ATTR
  <2>1. Exits(mod, Name) # {} BY <1>1
  <2>2. CASE ~Fun(mod, Name).retPtr \/ UnboundExits # {}
    <3>1. Results = {UNBOUND_ATTR} BY <2>1, <2>2 DEF Results
    <3> QED BY <3>1
  <2>3. CASE ~(~Fun(mod, Name).retPtr \/ UnboundExits # {})
    <3>1. Results = IF Cardinality(RetSet) = 1 THEN RetSet ELSE {DYNBOUND_ATTR}
      BY <2>1, <2>3 DEF Results
    <3> QED BY <2>1, <2>3, <3>1
  <2> QED BY <2>2, <2>3
<1>4. u \in Top.boundOut[n]
  <2>1. u \in Top.exactOut[n] \cup Top.boundOut[n] BY <1>1, <1>3 DEF UnboundExits
  <2> QED BY <1>2, <2>1
<1> HIDE DEF u
<1>5. u \in Named(mod, Name) /\ u # Outside BY <1>2, <1>4, NamedFacts
<1>6. Means(mod, Name, D, u, p) BY <1>5 DEF Has, Means, u
<1>7. Addresses(p, size) BY <1>2, <1>4, <1>5, <1>6, InBoundsSuits DEF u
<1>8. CASE Cardinality(RetSet) # 1 BY <1>3, <1>7, <1>8 DEF Granted
<1>9. CASE Cardinality(RetSet) = 1
  <2> DEFINE e == IF u \in Top.exactOut[n] THEN Top.bounds[u] ELSE DYNBOUND_ATTR
  <2>1. r = e
    <3>1. e \in Words BY <1>2, WordFacts
    <3>2. (CHOOSE w \in Words : \E v \in RetVals(n) :
               w = IF v \in Top.exactOut[n] THEN Top.bounds[v] ELSE DYNBOUND_ATTR) = e
      BY <1>1, <3>1 DEF u
    <3>3. (IF RetVals(n) = {} THEN 0
           ELSE CHOOSE w \in Words : \E v \in RetVals(n) :
                  w = IF v \in Top.exactOut[n] THEN Top.bounds[v] ELSE DYNBOUND_ATTR) = e
      BY <1>1, <3>2
    <3>4. e \in RetSet
      <4> HIDE DEF e
      <4> QED BY <1>1, <3>3 DEF RetSet
    <3> QED BY <1>3, <1>9, <3>4, OneEntry, RetSetFinite
  <2>2. CASE u \in Top.exactOut[n]
    <3>1. p.off + Top.bounds[u] = p.size BY <1>2, <1>6, <2>2 DEF ExactAt
    <3> QED BY <1>7, <2>1, <2>2, <3>1 DEF Granted
  <2>3. CASE u \notin Top.exactOut[n] BY <1>7, <2>1, <2>3 DEF Granted
  <2> QED BY <2>2, <2>3
<1> QED BY <1>8, <1>9

(* What a return leaves in local: contexts that were covered remain so,    *)
(* and those it was analysed for are covered now.                          *)
LEMMA ReturnCovers ==
    ASSUME PassInv, FlowInv, stack # <<>>, Top.node = Idle, Top.worklist = {},
           NEW joined \in JoinedExits, NEW M,
           M = [local EXCEPT ![Name] = IF joined = {} THEN @ ELSE JoinWith(@, joined)]
    PROVE  /\ Covered(mod, local) \subseteq Covered(mod, M)
           /\ Analysed(mod, M, Name, Top.args)
           /\ \A f \in FunsOf(mod) : Exits(mod, f) = {} => M[f] = NotSeen
<1>1. /\ mod \in DOMAIN Modules /\ Name \in Bodies(mod) /\ Name \in FunsOf(mod)
      /\ Top \in ActivationsOf(mod, Name) /\ Top.fun = Name /\ Good(mod, Top)
      /\ CallsCovered(mod, local, Top) /\ Started(Top)
      /\ \A n \in BlocksOf(mod, Name) :
            /\ Top.boundOut[n] \subseteq Named(mod, Name)
            /\ \A v \in Top.boundOut[n] : InBounds(mod, Name, Top.args, v)
  BY OutsTrue
<1>2. DOMAIN local = FunsOf(mod) BY DEF PassInv
<1>3. /\ \A f \in FunsOf(mod) : f # Name => M[f] = local[f]
      /\ M[Name] = IF joined = {} THEN local[Name] ELSE JoinWith(local[Name], joined)
  BY <1>1, <1>2
<1>4. joined \subseteq Exits(mod, Name) /\ (joined = {} => Exits(mod, Name) = {})
  BY DEF JoinedExits, UnboundExits
<1>5. \A v \in Common(joined) : v \in Named(mod, Name) /\ InBounds(mod, Name, Top.args, v)
  <2>1. \A n \in joined : n \in BlocksOf(mod, Name) BY <1>4 DEF Exits
  <2> QED BY <1>1, <2>1 DEF Common
<1>6. Outside \notin Common(joined) BY <1>1, <1>5, NamedFacts
<1>7. joined # {} => M[Name] \subseteq Common(joined) /\ M[Name] # NotSeen
  BY <1>3, <1>6 DEF JoinWith, NotSeen
<1>8. \A f \in FunsOf(mod) : Exits(mod, f) = {} => M[f] = NotSeen
  BY <1>3, <1>4 DEF FlowInv
<1>9. Covered(mod, local) \subseteq Covered(mod, M)
  <2>1. ASSUME NEW f \in FunsOf(mod)
        PROVE  \/ M[f] = local[f]
               \/ local[f] = NotSeen /\ Exits(mod, f) # {}
               \/ M[f] \subseteq local[f] /\ M[f] # NotSeen
    <3>1. CASE f # Name BY <1>3, <3>1
    <3>2. CASE f = Name /\ joined = {} BY <1>3, <3>2
    <3>3. CASE f = Name /\ joined # {} BY <1>3, <1>4, <1>7, <3>3 DEF JoinWith
    <3> QED BY <3>1, <3>2, <3>3
  <2>2. \A L, N :
            (\A f \in FunsOf(mod) : \/ N[f] = L[f]
                                    \/ L[f] = NotSeen /\ Exits(mod, f) # {}
                                    \/ N[f] \subseteq L[f] /\ N[f] # NotSeen)
               => Covered(mod, L) \subseteq Covered(mod, N)
    BY CoveredKept
  <2>3. \A f \in FunsOf(mod) : \/ M[f] = local[f]
                               \/ local[f] = NotSeen /\ Exits(mod, f) # {}
                               \/ M[f] \subseteq local[f] /\ M[f] # NotSeen
    BY <2>1
  <2>4. ASSUME NEW N, N = M PROVE Covered(mod, local) \subseteq Covered(mod, N)
    <3>1. \A f \in FunsOf(mod) : \/ N[f] = local[f]
                                 \/ local[f] = NotSeen /\ Exits(mod, f) # {}
                                 \/ N[f] \subseteq local[f] /\ N[f] # NotSeen
      BY <2>3, <2>4
    <3> QED BY <2>2, <3>1
  <2> QED BY <2>4
<1>10. Analysed(mod, M, Name, Top.args)
  <2> DEFINE K == {Name} \X {C \in Vectors(mod, Name) : Matches(mod, Name, Top.args, C)}
  <2>1. K \in SUBSET Contexts(mod) BY <1>1 DEF Contexts
  <2>2. ASSUME NEW f, NEW C, <<f, C>> \in K PROVE Sound(mod, M, K \cup Covered(mod, M), f, C)
    <3>1. f = Name /\ C \in Vectors(mod, Name) /\ Matches(mod, Name, Top.args, C) BY <2>2
    <3> HIDE DEF K
    <3>2. Honest(mod, M, Name, C)
      <4>1. CASE joined = {}
        <5>1. Exits(mod, Name) = {} /\ M[Name] = NotSeen BY <1>1, <1>4, <1>8, <4>1
        <5> QED BY <5>1 DEF Honest, NotSeen
      <4>2. CASE joined # {} BY <1>5, <1>7, <3>1, <4>2 DEF Honest, InBounds
      <4> QED BY <4>1, <4>2
    <3>3. ASSUME NEW n \in Walkable(mod, Name), NEW v \in Within(mod, Name, n)
          PROVE  Follows(mod, Covered(mod, M), Name, C, v)
      <4>1. n \in Top.visits BY <1>1, AllVisited DEF Good
      <4>2. n # Idle
        <5>1. n \in BlocksOf(mod, Name) BY DEF Walkable
        <5> QED BY <1>1, <5>1, BlockFacts
      <4>3. ~Ahead(Top, n, v) BY <4>2 DEF Ahead
      <4>4. Follows(mod, Covered(mod, local), Name, C, v)
        BY <1>1, <3>1, <4>1, <4>3 DEF CallsCovered
      <4> QED BY <1>9, <4>4 DEF Follows
    <3>4. Sound(mod, M, Covered(mod, M), Name, C) BY <3>2, <3>3 DEF Sound
    <3>5. Covered(mod, M) \subseteq K \cup Covered(mod, M) OBVIOUS
    <3> QED BY <3>1, <3>4, <3>5, SoundGrows
  <2> HIDE DEF K
  <2>3. K \subseteq Covered(mod, M) BY <2>1, <2>2, SoundCovered
  <2> QED BY <2>3 DEF K, Analysed
<1> QED BY <1>8, <1>9, <1>10

-----------------------------------------------------------------------------
(* The activation that waits for the running one.                          *)
LEMMA CallerFacts ==
    ASSUME PassInv, FlowInv, stack # <<>>, Len(stack) # 1,
           NEW c, c = stack[Len(stack) - 1]
    PROVE  /\ Len(stack) - 1 \in 1 .. Len(stack) - 1 /\ Len(stack) - 1 \in 1 .. Len(stack)
           /\ c.fun \in Bodies(mod) /\ c.fun \in FunsOf(mod) /\ c \in ActivationsOf(mod, c.fun)
           /\ Good(mod, c) /\ Calling(mod, c) /\ c.k \in PositionsOf(mod, c.fun)
           /\ Claims(mod, c) /\ CallsCovered(mod, local, c) /\ Started(c)
           /\ Waits(mod, argsCall, c, Top)
<1> DEFINE l == Len(stack)
<1>1. stack \in Seq(Activations(mod)) /\ l \in Nat /\ l >= 1 /\ mod \in DOMAIN Modules
  BY TopFacts DEF PassInv, StackInv
<1>2. l - 1 \in 1 .. l - 1 /\ l - 1 \in 1 .. l /\ (l - 1) + 1 = l
  <2>1. l # 1 OBVIOUS
  <2> HIDE DEF l
  <2> QED BY <1>1, <2>1
<1>3. c.fun \in Bodies(mod) /\ c \in ActivationsOf(mod, c.fun)
  <2>1. c \in Activations(mod) BY <1>1, <1>2, ElementOfSeq
  <2>2. PICK g \in Bodies(mod) : c \in ActivationsOf(mod, g) BY <2>1 DEF Activations
  <2>3. c.fun = g BY <2>2 DEF ActivationsOf
  <2> QED BY <2>2, <2>3
<1>4. Good(mod, c) /\ Calling(mod, c) BY <1>2 DEF PassInv, StackInv
<1>5. c.k \in PositionsOf(mod, c.fun)
  <2> DEFINE b == Block(mod, c.fun, c.node)
  <2>1. c.node \in BlocksOf(mod, c.fun) BY <1>3, <1>4 DEF ActivationsOf, Calling
  <2>2. c.k \in b.first .. b.last + 1 /\ c.k <= b.last BY <1>4 DEF Good, InBlock, Calling
  <2>3. /\ b.first \in Nat /\ b.last \in Nat /\ 1 <= b.first
        /\ b.last <= Len(Fun(mod, c.fun).insts) /\ Len(Fun(mod, c.fun).insts) \in Nat
        /\ PositionsOf(mod, c.fun) = 1 .. Len(Fun(mod, c.fun).insts)
    BY <1>1, <1>3, <2>1, BlockFacts
  <2> DEFINE k == c.k
             n == Len(Fun(mod, c.fun).insts)
  <2>4. k \in b.first .. b.last + 1 /\ k <= b.last /\ n \in Nat /\ b.last <= n
    BY <2>2, <2>3
  <2>5. b.first \in Nat /\ b.last \in Nat /\ 1 <= b.first BY <2>3
  <2> HIDE DEF b, k, n
  <2>6. k \in 1 .. n BY <2>4, <2>5
  <2> QED BY <2>3, <2>6 DEF k, n
<1>6. Claims(mod, c) /\ CallsCovered(mod, local, c) /\ Started(c) BY <1>2 DEF FlowInv
<1>7. Waits(mod, argsCall, c, Top) BY <1>2 DEF FlowInv, Top
<1> QED BY <1>2, <1>3, <1>4, <1>5, <1>6, <1>7 DEF Bodies

(* The answer it gets, and that the call it was at is covered now.         *)
LEMMA CallerLearns ==
    ASSUME PassInv, FlowInv, Analysable(mod), stack # <<>>, Len(stack) # 1,
           NEW c, c = stack[Len(stack) - 1], NEW r \in Results, r \in Words,
           NEW M, Covered(mod, local) \subseteq Covered(mod, M), Analysed(mod, M, Name, Top.args),
           NEW t, t = WithAttribute(Facts(c), c.k, r)
    PROVE  /\ Claims(mod, Learned(c, t)) /\ CallsCovered(mod, M, Learned(c, t))
           /\ Started(Learned(c, t))
           /\ Learned(c, t).fun = c.fun /\ Learned(c, t).args = c.args
           /\ SiteOf(c) \in Sites /\ argsCall[SiteOf(c)] = Top.args
           /\ InstOf(mod, SiteOf(c)).callee = Name
<1> DEFINE inst == Fun(mod, c.fun).insts[c.k]
           f == c.fun
<1>1. /\ f \in Bodies(mod) /\ f \in FunsOf(mod) /\ c \in ActivationsOf(mod, f)
      /\ Good(mod, c) /\ c.k \in PositionsOf(mod, f) /\ c.k \in Named(mod, f)
      /\ Claims(mod, c) /\ CallsCovered(mod, local, c) /\ Started(c)
      /\ mod \in DOMAIN Modules /\ Nested(mod, c)
  BY CallerFacts, NamedFacts DEF PassInv, Good
<1>2. /\ inst.op = "call" /\ inst.callee = Name /\ Name \in Bodies(mod)
      /\ Top.args = AttributesOf(inst, Facts(c)) /\ argsCall[SiteOf(c)] = Top.args
      /\ InstOf(mod, SiteOf(c)).callee = Name
  <2>1. Waits(mod, argsCall, c, Top) /\ Name = Top.fun /\ Name \in Bodies(mod)
    BY CallerFacts, TopFacts DEF Name
  <2> QED BY <2>1 DEF Waits, InstOf, SiteOf
<1>3. SiteOf(c) \in Sites BY <1>1, <1>2 DEF SiteOf, Sites
<1>4. Answers(mod, Name, Top.args, r) BY AnswerTrue
<1>5. \A q \in Words : Answers(mod, inst.callee, AttributesOf(inst, Facts(c)), q) =>
          Truthful(mod, c, WithAttribute(Facts(c), c.k, q))
  BY <1>1, <1>2, CalleeMatch
<1>6. \A L : Analysed(mod, L, inst.callee, AttributesOf(inst, Facts(c))) =>
          \A C \in Vectors(mod, f) : Matches(mod, f, c.args, C) =>
             Follows(mod, Covered(mod, L), f, C, c.k)
  BY <1>1, <1>2, CalleeMatch
<1>7. Truthful(mod, c, t) BY <1>2, <1>4, <1>5
<1>8. \A C \in Vectors(mod, f) : Matches(mod, f, c.args, C) =>
          Follows(mod, Covered(mod, M), f, C, c.k)
  BY <1>2, <1>6
<1>9. Learned(c, t).fun = f /\ Learned(c, t).args = c.args
  BY <1>1 DEF Learned, ActivationsOf
<1>10. CallsCovered(mod, M, c) BY <1>1, CallsCoveredGrows
<1> HIDE DEF inst, f
<1>11. Claims(mod, Learned(c, t)) BY <1>1, <1>7, LearnedClaims
<1>12. CallsCovered(mod, M, Learned(c, t)) /\ Started(Learned(c, t))
  BY <1>1, <1>8, <1>10, LearnedCovered
<1> QED BY <1>2, <1>3, <1>9, <1>11, <1>12 DEF f

LEMMA FlowReturn ==
    ASSUME PassInv, FlowInv, Analysable(mod), Return
    PROVE  FlowInv'
<1> DEFINE l == Len(stack)
<1>1. /\ stack # <<>> /\ mod' = mod /\ argsCall' = argsCall
      /\ Top.node = Idle /\ Top.worklist = {}
  BY DEF Return
<1>2. PICK joined \in JoinedExits, r \in Results :
        /\ local' = [local EXCEPT ![Name] = IF joined = {} THEN @ ELSE JoinWith(@, joined)]
        /\ IF Len(stack) = 1
           THEN stack' = <<>> /\ UNCHANGED retCall
           ELSE LET rest   == SubSeq(stack, 1, Len(stack) - 1)
                    caller == stack[Len(stack) - 1]
                    t      == WithAttribute(Facts(caller), caller.k, r)
                IN  /\ stack' = [rest EXCEPT ![Len(rest)] =
                          [caller EXCEPT !.bound = t.bound, !.exact = t.exact,
                                         !.bounds = t.bounds, !.k = @ + 1]]
                    /\ retCall' = [retCall EXCEPT ![<<caller.fun, caller.k>>] = r]
  BY DEF Return
<1>3. r \in Words BY <1>1, AnswerTypes
<1>4. /\ Covered(mod, local) \subseteq Covered(mod, local')
      /\ Analysed(mod, local', Name, Top.args)
      /\ \A f \in FunsOf(mod) : Exits(mod, f) = {} => local'[f] = NotSeen
  BY <1>1, <1>2, ReturnCovers
<1>5. Sites' = Sites /\ DOMAIN argsCall' = Sites BY <1>1 DEF Sites, FlowInv
<1>6. stack \in Seq(Activations(mod)) /\ l \in Nat /\ l >= 1
  BY <1>1, TopFacts DEF PassInv, StackInv
<1>7. \A s \in Sites : s \notin Waiting /\ argsCall[s] # NotCalled =>
          Remembered(mod, local', InstOf(mod, s).callee, argsCall[s], retCall[s])
  BY <1>4, AnalysedGrows DEF FlowInv, MemoInv, Remembered
<1>8. CASE l = 1
  <2>1. stack' = <<>> /\ retCall' = retCall BY <1>2, <1>8
  <2>2. Len(stack') = 0 /\ 1 .. Len(stack') = {} /\ 1 .. Len(stack') - 1 = {}
    <3>1. Len(stack') = 0 BY <2>1, EmptySeq
    <3>2. (1 .. 0) = {} /\ (1 .. 0 - 1) = {} OBVIOUS
    <3> QED BY <3>1, <3>2
  <2>3. Waiting = {} BY <1>8 DEF Waiting
  <2>4. \A s \in Sites : argsCall'[s] # NotCalled =>
            Remembered(mod', local', InstOf(mod', s).callee, argsCall'[s], retCall'[s])
    BY <1>1, <1>7, <2>1, <2>3
  <2>5. MemoInv' BY <1>5, <2>4 DEF MemoInv
  <2>6. Analysed(mod, local', "main", NothingGranted(mod))
    <3>1. Top = stack[1] BY <1>8 DEF Top
    <3>2. Name = "main" /\ Top.args = NothingGranted(mod) BY <1>1, <3>1 DEF FlowInv, Name
    <3> QED BY <1>4, <3>2
  <2> QED BY <1>1, <1>4, <1>5, <2>1, <2>2, <2>5, <2>6 DEF FlowInv
<1>9. CASE l # 1
  <2> DEFINE rest == SubSeq(stack, 1, l - 1)
             c    == stack[l - 1]
             t    == WithAttribute(Facts(c), c.k, r)
             b    == Learned(c, t)
  <2>1. /\ stack' = [rest EXCEPT ![Len(rest)] = b]
        /\ retCall' = [retCall EXCEPT ![SiteOf(c)] = r]
    BY <1>2, <1>9 DEF Learned, SiteOf
  <2>2. /\ c.fun \in Bodies(mod) /\ c \in ActivationsOf(mod, c.fun) /\ Good(mod, c)
        /\ Calling(mod, c) /\ c.k \in PositionsOf(mod, c.fun)
    BY <1>1, <1>9, CallerFacts
  <2>3. /\ Claims(mod, b) /\ CallsCovered(mod, local', b) /\ Started(b)
        /\ b.fun = c.fun /\ b.args = c.args
        /\ SiteOf(c) \in Sites /\ argsCall[SiteOf(c)] = Top.args
        /\ InstOf(mod, SiteOf(c)).callee = Name
    <3>1. \A d, u : d = stack[Len(stack) - 1] /\ u = WithAttribute(Facts(d), d.k, r) =>
            /\ Claims(mod, Learned(d, u)) /\ CallsCovered(mod, local', Learned(d, u))
            /\ Started(Learned(d, u))
            /\ Learned(d, u).fun = d.fun /\ Learned(d, u).args = d.args
            /\ SiteOf(d) \in Sites /\ argsCall[SiteOf(d)] = Top.args
            /\ InstOf(mod, SiteOf(d)).callee = Name
      <4> SUFFICES ASSUME NEW d, NEW u, d = stack[Len(stack) - 1],
                          u = WithAttribute(Facts(d), d.k, r)
                   PROVE  /\ Claims(mod, Learned(d, u)) /\ CallsCovered(mod, local', Learned(d, u))
                          /\ Started(Learned(d, u))
                          /\ Learned(d, u).fun = d.fun /\ Learned(d, u).args = d.args
                          /\ SiteOf(d) \in Sites /\ argsCall[SiteOf(d)] = Top.args
                          /\ InstOf(mod, SiteOf(d)).callee = Name
        OBVIOUS
      <4>1. Len(stack) # 1 BY <1>9
      <4> HIDE DEF l
      <4> QED BY <1>1, <1>3, <1>4, <4>1, CallerLearns
    <3> QED BY <3>1
  <2>4. b \in Activations(mod)
    <3>1. Facts(c) \in FactsOf(mod, c.fun) /\ Includes(Facts(c), c)
      BY <2>2, FactsInclude DEF Good
    <3>2. mod \in DOMAIN Modules /\ c.k \in Named(mod, c.fun)
      BY <2>2, NamedFacts DEF PassInv, Bodies
    <3> HIDE DEF c, l
    <3>3. t \in FactsOf(mod, c.fun) /\ Includes(t, c)
      BY <1>3, <3>1, <3>2, WithAttributeFacts
    <3> HIDE DEF t
    <3>4. b \in ActivationsOf(mod, c.fun) BY <2>2, <3>2, <3>3, LearnedGood
    <3> QED BY <2>2, <3>4 DEF Activations
  <2> HIDE DEF b, t
  <2>5. /\ l - 1 \in 1 .. l - 1 /\ l - 1 \in Nat /\ l - 1 >= 1
        /\ \A j \in 1 .. l - 1 : j \in 1 .. l
        /\ \A j \in 1 .. (l - 1) - 1 : j \in 1 .. l - 1 /\ j # l - 1 /\ j + 1 \in 1 .. l - 1
    <3> HIDE DEF l
    <3> QED BY <1>6, <1>9
  <2>6. /\ rest \in Seq(Activations(mod)) /\ Len(rest) = l - 1
        /\ \A j \in 1 .. l - 1 : rest[j] = stack[j]
    <3>1. \A j \in 1 .. l - 1 : stack[j] \in Activations(mod) BY <1>6, <2>5, ElementOfSeq
    <3> QED BY <1>6, <2>5, <3>1, SubSeqProperties
  <2> HIDE DEF rest
  <2>7. /\ Len(stack') = l - 1 /\ stack' # <<>>
        /\ \A j \in 1 .. l - 1 : stack'[j] = IF j = l - 1 THEN b ELSE stack[j]
    <3>1. /\ stack' \in Seq(Activations(mod)) /\ Len(stack') = l - 1
          /\ \A j \in 1 .. l - 1 : stack'[j] = IF j = l - 1 THEN b ELSE stack[j]
      <4> HIDE DEF l
      <4> QED BY <2>1, <2>4, <2>5, <2>6, ExceptSeq, LenProperties
    <3> HIDE DEF l
    <3> QED BY <2>5, <3>1, EmptySeq
  <2>8. \A j \in 1 .. l - 1 :
            Claims(mod, stack'[j]) /\ CallsCovered(mod, local', stack'[j]) /\ Started(stack'[j])
    <3>1. \A j \in 1 .. l - 1 :
              Claims(mod, stack[j]) /\ CallsCovered(mod, local', stack[j]) /\ Started(stack[j])
      <4>1. \A a : CallsCovered(mod, local, a) => CallsCovered(mod, local', a)
        BY <1>4, CallsCoveredGrows
      <4> QED BY <2>5, <4>1 DEF FlowInv
    <3> HIDE DEF l
    <3> QED BY <2>3, <2>7, <3>1
  <2>9. \A j \in 1 .. l - 1 : stack'[j].fun = stack[j].fun /\ stack'[j].args = stack[j].args
    <3>1. c = stack[l - 1] OBVIOUS
    <3> HIDE DEF l, c
    <3> QED BY <2>3, <2>7, <3>1
  <2>10. ASSUME NEW j \in 1 .. (l - 1) - 1
         PROVE  Waits(mod, argsCall', stack'[j], stack'[j + 1])
    <3>1. Waits(mod, argsCall, stack[j], stack[j + 1]) BY <2>5, <2>10 DEF FlowInv
    <3>2. stack'[j + 1].fun = stack[j + 1].fun /\ stack'[j + 1].args = stack[j + 1].args
      BY <2>5, <2>9, <2>10
    <3>3. stack'[j] = stack[j]
      <4> HIDE DEF l
      <4> QED BY <2>5, <2>7, <2>10
    <3> HIDE DEF l
    <3> QED BY <1>1, <3>1, <3>2, <3>3 DEF Waits
  <2>11. \A i, j \in 1 .. l - 1 : i < j => Depth(mod)[stack'[j].fun] < Depth(mod)[stack'[i].fun]
    BY <2>5, <2>9 DEF FlowInv
  <2>12. \A s \in Waiting : s \in Waiting' \/ s = SiteOf(c)
    <3> SUFFICES ASSUME NEW j \in 1 .. l - 1
                 PROVE  SiteOf(stack[j]) \in Waiting' \/ SiteOf(stack[j]) = SiteOf(c)
      BY DEF Waiting
    <3>1. CASE j = l - 1 BY <3>1
    <3>2. CASE j # l - 1
      <4>1. j \in 1 .. (l - 1) - 1
        <5> HIDE DEF l
        <5> QED BY <1>6, <3>2
      <4>2. stack'[j] = stack[j]
        <5> HIDE DEF l
        <5> QED BY <2>7, <3>2
      <4>3. SiteOf(stack'[j]) \in Waiting'
        <5>1. j \in 1 .. Len(stack') - 1 BY <2>7, <4>1
        <5>2. Waiting' = {SiteOf(stack'[i]) : i \in 1 .. Len(stack') - 1} BY DEF Waiting
        <5> QED BY <5>1, <5>2
      <4> QED BY <4>2, <4>3
    <3> QED BY <3>1, <3>2
  <2>13. ASSUME NEW s \in Sites \ Waiting', argsCall[s] # NotCalled
         PROVE  Remembered(mod, local', InstOf(mod, s).callee, argsCall[s], retCall'[s])
    <3>1. DOMAIN retCall = Sites BY DEF PassInv
    <3>2. CASE s = SiteOf(c)
      <4>1. retCall'[s] = r BY <2>1, <2>3, <3>1, <3>2
      <4>2. Answers(mod, Name, Top.args, r) BY <1>1, AnswerTrue
      <4>3. Name \in Bodies(mod) BY <1>1, TopFacts
      <4> QED BY <1>4, <2>3, <3>2, <4>1, <4>2, <4>3 DEF Remembered
    <3>3. CASE s # SiteOf(c)
      <4>1. retCall'[s] = retCall[s] BY <2>1, <3>1, <3>3
      <4>2. s \notin Waiting BY <2>12, <2>13, <3>3
      <4> QED BY <1>7, <2>13, <4>1, <4>2
    <3> QED BY <3>2, <3>3
  <2>14. MemoInv' BY <1>1, <1>5, <2>13 DEF MemoInv
  <2>15. stack'[1].fun = "main" /\ stack'[1].args = NothingGranted(mod)
    <3>1. 1 \in 1 .. l - 1
      <4> HIDE DEF l
      <4> QED BY <2>5
    <3> QED BY <1>1, <2>9, <3>1 DEF FlowInv
  <2> HIDE DEF l
  <2>16. 1 .. Len(stack') = 1 .. l - 1 /\ 1 .. Len(stack') - 1 = 1 .. (l - 1) - 1 BY <2>7
  <2>17. \A j \in 1 .. Len(stack') - 1 : Waits(mod, argsCall', stack'[j], stack'[j + 1])
    BY <2>10, <2>16
  <2>18. \A i, j \in 1 .. Len(stack') :
            i < j => Depth(mod)[stack'[j].fun] < Depth(mod)[stack'[i].fun]
    BY <2>11, <2>16
  <2> QED BY <1>1, <1>4, <1>5, <2>7, <2>8, <2>14, <2>15, <2>16, <2>17, <2>18 DEF FlowInv
<1> QED BY <1>8, <1>9

-----------------------------------------------------------------------------
(* The analysis starts in the invariant ...                                *)
LEMMA FlowInit == Init => FlowInv
<1> SUFFICES ASSUME Init PROVE FlowInv OBVIOUS
<1>1. mod \in DOMAIN Modules /\ DOMAIN argsCall = Sites BY DEF Init
<1>2. MemoInv BY DEF Init, MemoInv
<1>3. \A f \in FunsOf(mod) : Exits(mod, f) = {} => local[f] = NotSeen BY DEF Init
<1>4. CASE "main" \in FunsOf(mod)
  <2> DEFINE args == NothingGranted(mod)
             a    == Activation("main", args)
  <2>1. stack = <<a>> BY <1>4 DEF Init, NothingGranted
  <2>2. "main" \in Bodies(mod) /\ Fun(mod, "main").params \in Seq(Words)
    BY <1>1, <1>4, ModulesAssumption DEF WellFormed, Bodies
  <2>3. args \in Attributes(Len(Fun(mod, "main").params))
    <3>1. DOMAIN Fun(mod, "main").params = 1 .. Len(Fun(mod, "main").params)
      BY <2>2, LenProperties
    <3> QED BY <3>1, WordFacts DEF Attributes, NothingGranted
  <2>4. Claims(mod, a)
    <3> HIDE DEF args
    <3> QED BY <1>1, <2>2, <2>3, ActivationClaims
  <2>5. a.fun = "main" /\ a.args = args /\ a.visits = {} /\ a.worklist = {1}
    BY DEF Activation
  <2> HIDE DEF a, args
  <2>6. CallsCovered(mod, local, a) /\ Started(a) BY <2>5 DEF CallsCovered, Started
  <2>7. /\ Len(stack) = 1 /\ stack[1] = a /\ stack # <<>>
        /\ \A j \in 1 .. Len(stack) : j = 1 /\ 1 .. Len(stack) - 1 = {}
    BY <2>1
  <2>8. \A i, j \in 1 .. Len(stack) : ~(i < j) /\ i = 1
    <3>1. Len(stack) = 1 BY <2>7
    <3> QED BY <3>1
  <2>9. 1 .. Len(stack) - 1 = {}
    <3>1. (1 .. 1 - 1) = {} OBVIOUS
    <3> QED BY <2>7, <3>1
  <2> QED BY <1>1, <1>2, <1>3, <2>4, <2>5, <2>6, <2>7, <2>8, <2>9 DEF FlowInv, args
<1>5. CASE "main" \notin FunsOf(mod)
  <2>1. stack = <<>> BY <1>5 DEF Init
  <2>2. 1 .. Len(stack) = {} /\ 1 .. Len(stack) - 1 = {}
    <3>1. Len(stack) = 0 BY <2>1, EmptySeq
    <3>2. (1 .. 0) = {} /\ (1 .. 0 - 1) = {} OBVIOUS
    <3> QED BY <3>1, <3>2
  <2> QED BY <1>1, <1>2, <1>3, <1>5, <2>1, <2>2 DEF FlowInv
<1> QED BY <1>4, <1>5

(* ... and no step leaves it.                                              *)
LEMMA FlowNext ==
    ASSUME PassInv, FlowInv, Analysable(mod), [Next]_vars
    PROVE  FlowInv'
<1>1. CASE stack # <<>> /\ \E n \in Top.worklist : Dequeue(n) BY <1>1, FlowDequeue
<1>2. CASE \/ VisitAlloca \/ VisitPhi \/ VisitGep \/ VisitCast
           \/ VisitAllocator \/ VisitReturnsArgument \/ VisitOther \/ ReuseCall
  BY <1>2, FlowVisit
<1>3. CASE CallDeclaration BY <1>3, FlowDeclaration
<1>4. CASE EnterCall BY <1>4, FlowEnter
<1>5. CASE EndBlock BY <1>5, FlowEndBlock
<1>6. CASE Return BY <1>6, FlowReturn
<1>7. CASE UNCHANGED vars
  <2>1. UNCHANGED <<mod, stack, argsCall, retCall, local>> BY <1>7 DEF vars
  <2>2. Sites' = Sites /\ Waiting' = Waiting BY <2>1 DEF Sites, Waiting
  <2>3. MemoInv' BY <2>1, <2>2 DEF MemoInv, FlowInv
  <2> QED BY <2>1, <2>2, <2>3 DEF FlowInv
<1> QED BY <1>1, <1>2, <1>3, <1>4, <1>5, <1>6, <1>7 DEF Next, VisitInst

-----------------------------------------------------------------------------
(***************************************************************************)
(* The run. Every value is one the function can have with its arguments,   *)
(* a callee has the arguments its caller passes, and once the analysis is  *)
(* over every activation is in a context that is covered.                  *)
(***************************************************************************)
FramesOf(m, f) ==
    [fun : {f}, node : Walkable(m, f), k : Nat, vals : [ValuesOf(m, f) -> RunPointers \cup {NoPointer}]]
Frames(m) == UNION {FramesOf(m, f) : f \in Bodies(m)}

RunContext(m, a) == [j \in DOMAIN Fun(m, a.fun).params |-> a.vals[Arg(j)]]

Sensible(m, a) ==
    /\ a.k \in Block(m, a.fun, a.node).first .. Block(m, a.fun, a.node).last + 1
    /\ a.vals[Outside] = NoPointer
    /\ RunContext(m, a) \in Vectors(m, a.fun)
    /\ \A v \in Named(m, a.fun) :
          a.vals[v] # NoPointer => Means(m, a.fun, RunContext(m, a), v, a.vals[v])

(* The activation a has called b.                                          *)
Linked(m, a, b) ==
    LET inst == Fun(m, a.fun).insts[a.k]
    IN  /\ a.k <= Block(m, a.fun, a.node).last
        /\ inst.op = "call" /\ inst.callee = b.fun
        /\ Passes(Meanings(m), a.fun, RunContext(m, a), inst, RunContext(m, b))

InCoveredContext(m, L, a) == <<a.fun, RunContext(m, a)>> \in Covered(m, L)

RunInv ==
    /\ calls \in Seq(Frames(mod))
    /\ \A j \in 1 .. Len(calls) : Sensible(mod, calls[j])
    /\ \A j \in 1 .. Len(calls) - 1 : Linked(mod, calls[j], calls[j + 1])
    /\ Done => \A j \in 1 .. Len(calls) : InCoveredContext(mod, local, calls[j])
    /\ ~Done => \A j \in 1 .. Len(calls) : calls[j].fun = "main"

LEMMA PointerType == Pointers \subseteq RunPointers
BY PointersAssumption DEF Pointers, RunPointers

(* A value an activation has is one the function can have.                 *)
LEMMA FrameHas ==
    ASSUME NEW m \in DOMAIN Modules, NEW f \in Bodies(m), NEW a \in FramesOf(m, f), Sensible(m, a),
           NEW v \in ValuesOf(m, f),
           NEW p \in (IF v = Outside THEN Pointers ELSE {a.vals[v]} \ {NoPointer})
    PROVE  Has(Meanings(m), f, RunContext(m, a), v, p) /\ p \in RunPointers
<1>1. a.fun = f BY DEF FramesOf
<1>2. CASE v = Outside BY <1>2, PointerType DEF Has
<1>3. CASE v # Outside
  <2>1. f \in FunsOf(m) BY DEF Bodies
  <2>2. v \in Named(m, f) BY <1>3, <2>1, NamedFacts
  <2>3. p = a.vals[v] /\ p # NoPointer BY <1>3
  <2>4. Means(m, f, RunContext(m, a), v, p) BY <1>1, <2>2, <2>3 DEF Sensible
  <2>5. p \in RunPointers BY <2>4, MeaningTyped
  <2> QED BY <2>4, <2>5 DEF Has, Means
<1> QED BY <1>2, <1>3

(* A fresh activation.                                                     *)
LEMMA ActivateFrame ==
    ASSUME mod \in DOMAIN Modules, NEW f \in Bodies(mod), NEW C \in Vectors(mod, f)
    PROVE  /\ Activate(f, C) \in FramesOf(mod, f) /\ Activate(f, C).fun = f
           /\ Sensible(mod, Activate(f, C)) /\ RunContext(mod, Activate(f, C)) = C
<1> DEFINE Value(v) ==
             CASE v \in ArgsOf(mod, f) -> C[CHOOSE j \in DOMAIN C : Arg(j) = v]
               [] v \in GlobalsOf(mod) ->
                    [size |-> Modules[mod].globals[CHOOSE j \in DOMAIN Modules[mod].globals :
                                                      Global(j) = v],
                     off |-> 0]
               [] OTHER -> NoPointer
           a == Activate(f, C)
<1>1. /\ f \in FunsOf(mod) /\ DOMAIN C = DOMAIN Fun(mod, f).params
      /\ \A j \in DOMAIN C : C[j] \in RunPointers
  BY DEF Bodies, Vectors
<1>2. a = [fun |-> f, node |-> 1, k |-> Block(mod, f, 1).first,
           vals |-> [v \in ValuesOf(mod, f) |-> Value(v)]]
  BY DEF Activate
<1> HIDE DEF a, Value
<1>3. ASSUME NEW j \in DOMAIN C PROVE Value(Arg(j)) = C[j]
  <2>1. (CHOOSE i \in DOMAIN C : Arg(i) = Arg(j)) = j BY <1>1, Kinds
  <2>2. Arg(j) \in ArgsOf(mod, f) /\ Arg(j) \notin GlobalsOf(mod)
    BY <1>1, Kinds DEF ArgsOf, GlobalsOf
  <2> QED BY <2>1, <2>2 DEF Value
<1>4. ASSUME NEW j \in DOMAIN Modules[mod].globals
      PROVE  Value(Global(j)) = [size |-> Modules[mod].globals[j], off |-> 0]
  <2>1. (CHOOSE i \in DOMAIN Modules[mod].globals : Global(i) = Global(j)) = j BY Kinds
  <2>2. Global(j) \notin ArgsOf(mod, f) /\ Global(j) \in GlobalsOf(mod)
    BY Kinds DEF ArgsOf, GlobalsOf
  <2> QED BY <2>1, <2>2 DEF Value
<1>5. ASSUME NEW v, v \notin ArgsOf(mod, f), v \notin GlobalsOf(mod) PROVE Value(v) = NoPointer
  BY <1>5 DEF Value
<1>6. ASSUME NEW v PROVE Value(v) \in RunPointers \cup {NoPointer}
  <2>1. CASE v \in ArgsOf(mod, f) BY <1>1, <1>3, <2>1 DEF ArgsOf
  <2>2. CASE v \in GlobalsOf(mod)
    <3>1. PICK j \in DOMAIN Modules[mod].globals : v = Global(j) BY <2>2 DEF GlobalsOf
    <3>2. Modules[mod].globals[j] \in Nat BY Indices DEF Words
    <3>3. [size |-> Modules[mod].globals[j], off |-> 0] \in RunPointers BY <3>2 DEF RunPointers
    <3> QED BY <1>4, <3>1, <3>3
  <2> QED BY <1>5, <2>1, <2>2
<1>7. /\ a.fun = f /\ a.node = 1 /\ a.k = Block(mod, f, 1).first
      /\ \A v \in ValuesOf(mod, f) : a.vals[v] = Value(v)
  BY <1>2
<1>8. a \in FramesOf(mod, f)
  <2>1. 1 \in Walkable(mod, f) /\ Block(mod, f, 1).first \in Nat BY WalkableFacts, BlockFacts
  <2>2. [v \in ValuesOf(mod, f) |-> Value(v)] \in [ValuesOf(mod, f) -> RunPointers \cup {NoPointer}]
    BY <1>6
  <2> QED BY <1>2, <2>1, <2>2 DEF FramesOf
<1>9. RunContext(mod, a) = C
  <2>1. \A j \in DOMAIN C : a.vals[Arg(j)] = C[j]
    <3>1. \A j \in DOMAIN C : Arg(j) \in ValuesOf(mod, f) BY <1>1 DEF ValuesOf, ArgsOf
    <3> QED BY <1>3, <1>7, <3>1
  <2>2. RunContext(mod, a) = [j \in DOMAIN C |-> a.vals[Arg(j)]] BY <1>1, <1>7 DEF RunContext
  <2>3. C = [j \in DOMAIN C |-> C[j]] BY DEF Vectors
  <2> QED BY <2>1, <2>2, <2>3
<1>10. a.vals[Outside] = NoPointer
  <2>1. Outside \in ValuesOf(mod, f) BY DEF ValuesOf
  <2>2. Outside \notin ArgsOf(mod, f) /\ Outside \notin GlobalsOf(mod)
    BY <1>1, NamedFacts DEF Named
  <2> QED BY <1>5, <1>7, <2>1, <2>2
<1>11. ASSUME NEW v \in Named(mod, f), a.vals[v] # NoPointer PROVE Means(mod, f, C, v, a.vals[v])
  <2>1. a.vals[v] = Value(v) BY <1>1, <1>7, NamedFacts
  <2>2. a.vals[v] \in RunPointers BY <1>6, <1>11, <2>1
  <2>3. MadeIn(mod, Meanings(mod), f, C, v, a.vals[v])
    <3>1. CASE v \in ArgsOf(mod, f) BY <1>1, <1>3, <2>1, <3>1 DEF ArgsOf, MadeIn
    <3>2. CASE v \in GlobalsOf(mod) BY <1>4, <2>1, <3>2 DEF GlobalsOf, MadeIn
    <3> QED BY <1>5, <1>11, <2>1, <3>1, <3>2
  <2> QED BY <2>2, <2>3, MadeMeans
<1>12. Block(mod, f, 1).first \in Block(mod, f, 1).first .. Block(mod, f, 1).last + 1
  BY BlockFacts
<1>13. Sensible(mod, a) BY <1>7, <1>9, <1>10, <1>11, <1>12 DEF Sensible
<1> QED BY <1>7, <1>8, <1>9, <1>13 DEF a

(* The instruction an activation is at.                                    *)
LEMMA FramePosition ==
    ASSUME NEW m \in DOMAIN Modules, NEW f \in Bodies(m), NEW a \in FramesOf(m, f), Sensible(m, a),
           a.k <= Block(m, f, a.node).last
    PROVE  /\ a.k \in PositionsOf(m, f) /\ a.node \in BlocksOf(m, f) /\ a.k \in Within(m, f, a.node)
           /\ Fun(m, f).insts[a.k] \in Insts(ValuesOf(m, f), FunsOf(m))
           /\ Arity(Fun(m, f).insts[a.k])
<1>1. a.fun = f /\ a.k \in Nat /\ a.node \in BlocksOf(m, f) BY DEF FramesOf, Walkable
<1> DEFINE b == Block(m, f, a.node)
           k == a.k
           n == Len(Fun(m, f).insts)
<1>2. k \in b.first .. b.last + 1 /\ k <= b.last BY <1>1 DEF Sensible
<1>3. /\ b.first \in Nat /\ b.last \in Nat /\ 1 <= b.first /\ b.last <= n /\ n \in Nat
      /\ PositionsOf(m, f) = 1 .. n
  BY <1>1, BlockFacts
<1> HIDE DEF b, k, n
<1>4. k \in 1 .. n /\ k \in b.first .. b.last BY <1>2, <1>3
<1>5. a.k \in PositionsOf(m, f) /\ a.k \in Within(m, f, a.node)
  BY <1>3, <1>4 DEF Within, b, k
<1> QED BY <1>1, <1>5, InstFacts

(* It moves on, ...                                                        *)
LEMMA SteppedFrame ==
    ASSUME NEW m \in DOMAIN Modules, NEW f \in Bodies(m), NEW a \in FramesOf(m, f), Sensible(m, a),
           a.k <= Block(m, f, a.node).last, NEW b, b = [a EXCEPT !.k = @ + 1]
    PROVE  b \in FramesOf(m, f) /\ Sensible(m, b) /\ RunContext(m, b) = RunContext(m, a)
<1>1. a.fun = f /\ a.k \in Nat /\ a.node \in BlocksOf(m, f) BY DEF FramesOf, Walkable
<1>2. b.fun = f /\ b.node = a.node /\ b.k = a.k + 1 /\ b.vals = a.vals BY <1>1 DEF FramesOf
<1>3. b \in FramesOf(m, f) BY <1>1 DEF FramesOf
<1>4. RunContext(m, b) = RunContext(m, a) BY <1>1, <1>2 DEF RunContext
<1>5. b.k \in Block(m, f, b.node).first .. Block(m, f, b.node).last + 1
  <2>1. Block(m, f, a.node).first \in Nat /\ Block(m, f, a.node).last \in Nat BY <1>1, BlockFacts
  <2>2. a.k \in Block(m, f, a.node).first .. Block(m, f, a.node).last + 1 BY <1>1 DEF Sensible
  <2> QED BY <1>1, <1>2, <2>1, <2>2
<1>6. Sensible(m, b) BY <1>1, <1>2, <1>4, <1>5 DEF Sensible
<1> QED BY <1>3, <1>4, <1>6

(* ... and has a value more.                                               *)
Produced(a, p) == [a EXCEPT !.vals[a.k] = p, !.k = @ + 1]

LEMMA ProducedFrame ==
    ASSUME NEW m \in DOMAIN Modules, NEW f \in Bodies(m), NEW a \in FramesOf(m, f), Sensible(m, a),
           a.k <= Block(m, f, a.node).last, NEW p \in RunPointers,
           Makes(m, Meanings(m), f, RunContext(m, a), Fun(m, f).insts[a.k], p)
    PROVE  /\ Produced(a, p) \in FramesOf(m, f) /\ Sensible(m, Produced(a, p))
           /\ RunContext(m, Produced(a, p)) = RunContext(m, a)
<1> DEFINE b == Produced(a, p)
<1>1. a.fun = f /\ a.k \in Nat /\ a.node \in BlocksOf(m, f) BY DEF FramesOf, Walkable
<1>2. a.k \in PositionsOf(m, f) /\ f \in FunsOf(m) BY FramePosition DEF Bodies
<1>3. a.k \in ValuesOf(m, f) /\ a.k \in Named(m, f) /\ a.k # Outside BY <1>2, NamedFacts
<1> DEFINE vals == [a.vals EXCEPT ![a.k] = p]
<1>4. a.vals \in [ValuesOf(m, f) -> RunPointers \cup {NoPointer}] BY DEF FramesOf
<1>5. /\ vals \in [ValuesOf(m, f) -> RunPointers \cup {NoPointer}]
      /\ \A v \in ValuesOf(m, f) : vals[v] = IF v = a.k THEN p ELSE a.vals[v]
  BY <1>3, <1>4
<1>6. b.fun = f /\ b.node = a.node /\ b.k = a.k + 1 /\ b.vals = vals
  BY <1>1 DEF FramesOf, Produced
<1>7. \A w, i : w = vals /\ i = a.k + 1 => b = [a EXCEPT !.vals = w, !.k = i] BY DEF Produced
<1> HIDE DEF vals, b
<1>8. b \in FramesOf(m, f)
  <2>1. a.k + 1 \in Nat BY <1>1
  <2>2. \A w \in [ValuesOf(m, f) -> RunPointers \cup {NoPointer}], i \in Nat :
            [a EXCEPT !.vals = w, !.k = i] \in FramesOf(m, f)
    BY DEF FramesOf
  <2>3. PICK w \in [ValuesOf(m, f) -> RunPointers \cup {NoPointer}], i \in Nat :
            w = vals /\ i = a.k + 1
    BY <1>5, <2>1
  <2>4. b = [a EXCEPT !.vals = w, !.k = i] BY <1>7, <2>3
  <2>5. [a EXCEPT !.vals = w, !.k = i] \in FramesOf(m, f) BY <2>2
  <2> QED BY <2>4, <2>5
<1>9. \A j \in DOMAIN Fun(m, f).params : b.vals[Arg(j)] = a.vals[Arg(j)]
  <2>1. \A j \in DOMAIN Fun(m, f).params : Arg(j) # a.k BY <1>2, Kinds
  <2>2. \A j \in DOMAIN Fun(m, f).params : Arg(j) \in ValuesOf(m, f) BY DEF ValuesOf, ArgsOf
  <2> QED BY <1>5, <1>6, <2>1, <2>2
<1>10. RunContext(m, b) = RunContext(m, a) BY <1>1, <1>6, <1>9 DEF RunContext
<1>11. b.k \in Block(m, f, b.node).first .. Block(m, f, b.node).last + 1
  <2>1. Block(m, f, a.node).first \in Nat /\ Block(m, f, a.node).last \in Nat BY <1>1, BlockFacts
  <2>2. a.k \in Block(m, f, a.node).first .. Block(m, f, a.node).last + 1 BY <1>1 DEF Sensible
  <2> QED BY <1>1, <1>6, <2>1, <2>2
<1>12. RunContext(m, a) \in Vectors(m, f) /\ a.vals[Outside] = NoPointer BY <1>1 DEF Sensible
<1>13. b.vals[Outside] = NoPointer
  <2>1. Outside \in ValuesOf(m, f) BY DEF ValuesOf
  <2> QED BY <1>3, <1>5, <1>6, <1>12, <2>1
<1>14. ASSUME NEW v \in Named(m, f), b.vals[v] # NoPointer
       PROVE  Means(m, f, RunContext(m, a), v, b.vals[v])
  <2>1. v \in ValuesOf(m, f) BY <1>2, NamedFacts
  <2>2. CASE v = a.k
    <3>1. b.vals[v] = p BY <1>5, <1>6, <2>1, <2>2
    <3>2. MadeIn(m, Meanings(m), f, RunContext(m, a), a.k, p) BY <1>2 DEF MadeIn
    <3>3. Means(m, f, RunContext(m, a), a.k, p) BY <1>3, <1>12, <3>2, MadeMeans
    <3> QED BY <2>2, <3>1, <3>3
  <2>3. CASE v # a.k
    <3>1. b.vals[v] = a.vals[v] BY <1>5, <1>6, <2>1, <2>3
    <3> QED BY <1>1, <1>14, <3>1 DEF Sensible
  <2> QED BY <2>2, <2>3
<1>15. Sensible(m, b) BY <1>6, <1>10, <1>11, <1>12, <1>13, <1>14 DEF Sensible
<1> QED BY <1>8, <1>10, <1>15 DEF b

-----------------------------------------------------------------------------
(* The activation that runs.                                               *)
LEMMA RunningFacts ==
    ASSUME PassInv, RunInv, Done, calls # <<>>
    PROVE  /\ Len(calls) \in Nat /\ Len(calls) >= 1 /\ Len(calls) \in 1 .. Len(calls)
           /\ mod \in DOMAIN Modules /\ RunFun \in Bodies(mod) /\ RunFun \in FunsOf(mod)
           /\ Running \in FramesOf(mod, RunFun) /\ Running.fun = RunFun /\ Sensible(mod, Running)
           /\ InCoveredContext(mod, local, Running)
<1>1. Len(calls) \in Nat /\ Len(calls) >= 1 /\ calls \in Seq(Frames(mod))
  BY LenProperties, EmptySeq DEF RunInv
<1>2. Len(calls) \in 1 .. Len(calls) BY <1>1
<1>3. Running \in Frames(mod) BY <1>1, <1>2, ElementOfSeq DEF Running
<1>4. PICK f \in Bodies(mod) : Running \in FramesOf(mod, f) BY <1>3 DEF Frames
<1>5. Running.fun = f /\ RunFun = f BY <1>4 DEF FramesOf, RunFun
<1>6. Sensible(mod, Running) /\ InCoveredContext(mod, local, Running)
  BY <1>2 DEF RunInv, Running
<1> QED BY <1>1, <1>2, <1>4, <1>5, <1>6 DEF PassInv, Bodies

(* It is replaced by one in the same context.                              *)
LEMMA SetRunningInv ==
    ASSUME PassInv, RunInv, Done, calls # <<>>, UNCHANGED vars,
           NEW a \in FramesOf(mod, RunFun), Sensible(mod, a),
           RunContext(mod, a) = RunContext(mod, Running),
           calls' = [calls EXCEPT ![Len(calls)] = a]
    PROVE  RunInv'
<1> DEFINE l == Len(calls)
<1>1. /\ l \in Nat /\ l >= 1 /\ l \in 1 .. l /\ calls \in Seq(Frames(mod)) /\ RunFun \in Bodies(mod)
      /\ Running.fun = RunFun /\ InCoveredContext(mod, local, Running)
  BY RunningFacts DEF RunInv
<1>2. a \in Frames(mod) /\ a.fun = RunFun BY <1>1 DEF Frames, FramesOf
<1>3. mod' = mod /\ local' = local /\ stack' = stack BY DEF vars
<1>4. Running = calls[l] BY DEF Running
<1>5. calls' = [calls EXCEPT ![l] = a] OBVIOUS
<1>6. Done => \A j \in 1 .. l : InCoveredContext(mod, local, calls[j]) BY DEF RunInv
<1>7. \A j \in 1 .. l : Sensible(mod, calls[j]) BY DEF RunInv
<1>8. \A j \in 1 .. l - 1 : Linked(mod, calls[j], calls[j + 1]) BY DEF RunInv
<1> HIDE DEF l
<1>9. /\ calls' \in Seq(Frames(mod)) /\ Len(calls') = l
      /\ \A j \in 1 .. l : calls'[j] = IF j = l THEN a ELSE calls[j]
  BY <1>1, <1>2, <1>5, ExceptSeq, LenProperties DEF l
<1>10. \A j \in 1 .. l : Sensible(mod, calls'[j]) BY <1>7, <1>9
<1>11. InCoveredContext(mod, local, a) BY <1>1, <1>2 DEF InCoveredContext
<1>12. \A j \in 1 .. l : InCoveredContext(mod, local, calls'[j]) BY <1>6, <1>9, <1>11
<1>13. ASSUME NEW j \in 1 .. l - 1 PROVE Linked(mod, calls'[j], calls'[j + 1])
  <2>1. j \in 1 .. l /\ j # l /\ j + 1 \in 1 .. l BY <1>1
  <2>2. calls'[j] = calls[j] /\ Linked(mod, calls[j], calls[j + 1]) BY <1>8, <1>9, <2>1
  <2>3. /\ calls'[j + 1].fun = calls[j + 1].fun
        /\ RunContext(mod, calls'[j + 1]) = RunContext(mod, calls[j + 1])
    BY <1>1, <1>2, <1>4, <1>9, <2>1
  <2> QED BY <2>2, <2>3 DEF Linked
<1>14. Done' = Done BY <1>3 DEF Done
<1> QED BY <1>3, <1>9, <1>10, <1>12, <1>13, <1>14 DEF RunInv

-----------------------------------------------------------------------------
(* Where the running activation is.                                        *)
LEMMA AtRunFacts ==
    ASSUME PassInv, RunInv, AtRunInst
    PROVE  /\ Done /\ calls # <<>> /\ mod \in DOMAIN Modules
           /\ RunFun \in Bodies(mod) /\ RunFun \in FunsOf(mod)
           /\ Running \in FramesOf(mod, RunFun) /\ Running.fun = RunFun /\ Sensible(mod, Running)
           /\ Running.k <= Block(mod, RunFun, Running.node).last
           /\ Running.k \in PositionsOf(mod, RunFun)
           /\ Running.node \in Walkable(mod, RunFun)
           /\ Running.k \in Within(mod, RunFun, Running.node)
           /\ RunInst = Fun(mod, RunFun).insts[Running.k]
           /\ RunInst \in Insts(ValuesOf(mod, RunFun), FunsOf(mod)) /\ Arity(RunInst)
           /\ InCoveredContext(mod, local, Running)
<1>1. Done /\ calls # <<>> /\ Running.k <= Block(mod, RunFun, Running.node).last
  BY DEF AtRunInst, RunBlock
<1>2. /\ mod \in DOMAIN Modules /\ RunFun \in Bodies(mod) /\ RunFun \in FunsOf(mod)
      /\ Running \in FramesOf(mod, RunFun) /\ Running.fun = RunFun /\ Sensible(mod, Running)
      /\ InCoveredContext(mod, local, Running)
  BY <1>1, RunningFacts
<1>3. /\ Running.k \in PositionsOf(mod, RunFun) /\ Running.k \in Within(mod, RunFun, Running.node)
      /\ Fun(mod, RunFun).insts[Running.k] \in Insts(ValuesOf(mod, RunFun), FunsOf(mod))
      /\ Arity(Fun(mod, RunFun).insts[Running.k])
  BY <1>1, <1>2, FramePosition
<1>4. Running.node \in Walkable(mod, RunFun) BY <1>2 DEF FramesOf
<1> QED BY <1>1, <1>2, <1>3, <1>4 DEF RunInst

(* An instruction yields what instructions of its kind make.               *)
LEMMA ProduceInv ==
    ASSUME PassInv, RunInv, AtRunInst, NEW p \in RunPointers,
           Makes(mod, Meanings(mod), RunFun, RunContext(mod, Running), RunInst, p), Produce(p)
    PROVE  RunInv'
<1>1. calls' = [calls EXCEPT ![Len(calls)] = Produced(Running, p)] /\ UNCHANGED vars
  BY DEF Produce, SetRunning, Produced
<1>2. /\ Done /\ calls # <<>> /\ mod \in DOMAIN Modules /\ RunFun \in Bodies(mod)
      /\ Running \in FramesOf(mod, RunFun) /\ Sensible(mod, Running)
      /\ Running.k <= Block(mod, RunFun, Running.node).last
      /\ RunInst = Fun(mod, RunFun).insts[Running.k]
  BY AtRunFacts
<1>3. \A f, a : f = RunFun /\ a = Running =>
          /\ Produced(a, p) \in FramesOf(mod, f) /\ Sensible(mod, Produced(a, p))
          /\ RunContext(mod, Produced(a, p)) = RunContext(mod, a)
  BY <1>2, ProducedFrame
<1> QED BY <1>1, <1>2, <1>3, SetRunningInv

LEMMA RunOperand ==
    ASSUME PassInv, RunInv, AtRunInst, NEW v \in ValuesOf(mod, RunFun), NEW p \in ValuesAt(v)
    PROVE  Has(Meanings(mod), RunFun, RunContext(mod, Running), v, p) /\ p \in RunPointers
<1>1. /\ mod \in DOMAIN Modules /\ RunFun \in Bodies(mod)
      /\ Running \in FramesOf(mod, RunFun) /\ Sensible(mod, Running)
  BY AtRunFacts
<1>2. p \in (IF v = Outside THEN Pointers ELSE {Running.vals[v]} \ {NoPointer}) BY DEF ValuesAt
<1>3. \A f, a : f = RunFun /\ a = Running =>
          Has(Meanings(mod), f, RunContext(mod, a), v, p) /\ p \in RunPointers
  BY <1>1, <1>2, FrameHas
<1> QED BY <1>3

(* Every instruction but a call of a function with a body.                 *)
LEMMA RunInstInv ==
    ASSUME PassInv, RunInv,
           RunAllocation \/ RunPhi \/ RunGep \/ RunCast \/ RunReturnsArgument \/ RunOther,
           Analysable(mod)
    PROVE  RunInv'
<1> DEFINE S == Meanings(mod)
           C == RunContext(mod, Running)
           inst == RunInst
           ops == RunInst.operands
<1>0. AtRunInst
  BY DEF RunAllocation, RunPhi, RunGep, RunCast, RunReturnsArgument, RunOther
<1>1. /\ mod \in DOMAIN Modules /\ RunFun \in Bodies(mod) /\ RunFun \in FunsOf(mod)
      /\ inst \in Insts(ValuesOf(mod, RunFun), FunsOf(mod)) /\ Arity(inst)
      /\ inst = Fun(mod, RunFun).insts[Running.k] /\ Running.k \in PositionsOf(mod, RunFun)
      /\ calls # <<>> /\ Done
  BY <1>0, AtRunFacts
<1>2. ASSUME NEW p \in RunPointers, Makes(mod, S, RunFun, C, inst, p), Produce(p) PROVE RunInv'
  BY <1>0, <1>2, ProduceInv
<1>3. \A v \in ValuesOf(mod, RunFun) : \A p \in ValuesAt(v) :
          Has(S, RunFun, C, v, p) /\ p \in RunPointers
  BY <1>0, RunOperand
<1>4. \A j \in DOMAIN ops : ops[j] \in ValuesOf(mod, RunFun)
  <2>1. ops \in Seq(ValuesOf(mod, RunFun)) BY <1>1 DEF Insts
  <2> HIDE DEF ops
  <2> QED BY <2>1, LenProperties, ElementOfSeq
<1> HIDE DEF S, C
<1>5. CASE RunAllocation
  <2>1. PICK p \in Allocated(inst) : Produce(p) /\ IsAllocation(inst) BY <1>5 DEF RunAllocation
  <2>2. p \in RunPointers
    <3>1. CASE HasConstSize(inst)
      <4>1. RequestedSize(inst) \in Nat BY <1>1, <2>1, <3>1, RequestedType
      <4>2. p = [size |-> RequestedSize(inst), off |-> 0] BY <2>1, <3>1 DEF Allocated
      <4> QED BY <4>1, <4>2 DEF RunPointers
    <3>2. CASE ~HasConstSize(inst) BY <2>1, <3>2, PointerType DEF Allocated
    <3> QED BY <3>1, <3>2
  <2>3. Makes(mod, S, RunFun, C, inst, p) BY <2>1 DEF Makes
  <2> QED BY <1>2, <2>1, <2>2, <2>3
<1>6. CASE RunPhi
  <2>1. inst.op = "phi" BY <1>6 DEF RunPhi
  <2>2. PICK j \in DOMAIN ops : \E p \in ValuesAt(ops[j]) : Produce(p) BY <1>6 DEF RunPhi
  <2>3. PICK p \in ValuesAt(ops[j]) : Produce(p) BY <2>2
  <2>4. Has(S, RunFun, C, ops[j], p) /\ p \in RunPointers BY <1>3, <1>4
  <2>5. Makes(mod, S, RunFun, C, inst, p) BY <2>1, <2>4 DEF Makes
  <2> QED BY <1>2, <2>3, <2>4, <2>5
<1>7. CASE RunGep
  <2>1. inst.op = "gep" BY <1>7 DEF RunGep
  <2>2. PICK p \in ValuesAt(ops[1]) : \E q \in Stepped(inst, p) : Produce(q) BY <1>7 DEF RunGep
  <2>3. PICK q \in Stepped(inst, p) : Produce(q) BY <2>2
  <2>4. 1 \in DOMAIN ops
    <3>1. ops \in Seq(ValuesOf(mod, RunFun)) /\ Len(ops) = 1 BY <1>1, <2>1 DEF Insts, Arity
    <3> HIDE DEF ops
    <3> QED BY <3>1, LenProperties
  <2>5. Has(S, RunFun, C, ops[1], p) /\ p \in RunPointers BY <1>3, <1>4, <2>4
  <2>6. q \in RunPointers
    <3>1. p.off \in Int /\ p.size \in Nat /\ p \in [size : Nat, off : Int] BY <2>5 DEF RunPointers
    <3>2. CASE inst.consts[1] # NonConst
      <4>1. inst.consts \in Seq(Words \cup {NonConst}) /\ Len(inst.consts) = 1
        BY <1>1, <2>1 DEF Insts, Arity
      <4>2. inst.consts[1] \in Words \cup {NonConst}
        <5>1. 1 \in 1 .. Len(inst.consts) BY <4>1
        <5> QED BY <4>1, <5>1, ElementOfSeq
      <4>3. Signed(inst.consts[1]) \in Int BY <3>2, <4>2, WordAssumption DEF Signed, Words
      <4>4. q = [p EXCEPT !.off = p.off + Signed(inst.consts[1])] BY <2>3, <3>2 DEF Stepped
      <4>5. p.off + Signed(inst.consts[1]) \in Int BY <3>1, <4>3
      <4>6. \A o \in Int : [p EXCEPT !.off = o] \in RunPointers BY <3>1 DEF RunPointers
      <4> QED BY <4>4, <4>5, <4>6
    <3>3. CASE inst.consts[1] = NonConst
      <4>1. PICK o \in Offsets : q = [p EXCEPT !.off = o] BY <2>3, <3>3 DEF Stepped
      <4>2. o \in Int BY PointersAssumption
      <4> QED BY <3>1, <4>1, <4>2 DEF RunPointers
    <3> QED BY <3>2, <3>3
  <2>7. Makes(mod, S, RunFun, C, inst, q) BY <2>1, <2>3, <2>5 DEF Makes
  <2> QED BY <1>2, <2>3, <2>6, <2>7
<1>8. CASE RunCast
  <2>1. inst.op = "cast" BY <1>8 DEF RunCast
  <2>2. PICK p \in (IF ops = <<>> THEN Pointers ELSE ValuesAt(ops[1])) : Produce(p)
    BY <1>8 DEF RunCast
  <2>3. p \in RunPointers /\ (ops # <<>> => Has(S, RunFun, C, ops[1], p))
    <3>1. CASE ops = <<>> BY <2>2, <3>1, PointerType
    <3>2. CASE ops # <<>>
      <4>1. 1 \in DOMAIN ops
        <5>1. ops \in Seq(ValuesOf(mod, RunFun)) BY <1>1 DEF Insts
        <5> HIDE DEF ops
        <5>2. Len(ops) \in Nat /\ Len(ops) # 0 BY <3>2, <5>1, LenProperties, EmptySeq
        <5>3. 1 \in 1 .. Len(ops) BY <5>2
        <5> QED BY <5>1, <5>3, LenProperties
      <4> QED BY <1>3, <1>4, <2>2, <3>2, <4>1
    <3> QED BY <3>1, <3>2
  <2>4. Makes(mod, S, RunFun, C, inst, p) BY <2>1, <2>3 DEF Makes
  <2> QED BY <1>2, <2>2, <2>3, <2>4
<1>9. CASE RunReturnsArgument
  <2>1. inst.op = "call" /\ inst.callee \in ReturnsArgument BY <1>9 DEF RunReturnsArgument
  <2>2. PICK p \in ValuesAt(ReturnedArg(inst)) : Produce(p) BY <1>9 DEF RunReturnsArgument
  <2>3. ReturnedArg(inst) \in ValuesOf(mod, RunFun)
    BY <1>1, <2>1 DEF Analysable, WellTyped
  <2>4. Has(S, RunFun, C, ReturnedArg(inst), p) /\ p \in RunPointers BY <1>3, <2>3
  <2>5. Makes(mod, S, RunFun, C, inst, p) BY <2>1, <2>4 DEF Makes
  <2> QED BY <1>2, <2>2, <2>4, <2>5
<1>10. CASE RunOther
  <2>1. CASE inst.isPtr
    <3>1. PICK p \in Pointers : Produce(p) BY <1>10, <2>1 DEF RunOther
    <3>2. p \in RunPointers BY PointerType
    <3>3. Makes(mod, S, RunFun, C, inst, p)
      <4>1. \/ inst.op \in {"load", "store"}
            \/ inst.op = "call" /\ inst.callee \in {"indirect", "noop"}
            \/ inst.op = "call" /\ inst.callee \in FunsOf(mod) \ Bodies(mod)
        BY <1>10 DEF RunOther, Opaque, Bodies
      <4> QED BY <4>1 DEF Makes
    <3> QED BY <1>2, <3>1, <3>2, <3>3
  <2>2. CASE ~inst.isPtr
    <3> DEFINE b == [Running EXCEPT !.k = @ + 1]
    <3>1. calls' = [calls EXCEPT ![Len(calls)] = b] /\ UNCHANGED vars
      BY <1>10, <2>2 DEF RunOther, SetRunning
    <3>2. \A f, a, c : f = RunFun /\ a = Running /\ c = [a EXCEPT !.k = @ + 1] =>
              c \in FramesOf(mod, f) /\ Sensible(mod, c) /\ RunContext(mod, c) = RunContext(mod, a)
      BY <1>0, AtRunFacts, SteppedFrame
    <3>3. b \in FramesOf(mod, RunFun) /\ Sensible(mod, b)
          /\ RunContext(mod, b) = RunContext(mod, Running)
      BY <3>2
    <3> HIDE DEF b
    <3> QED BY <1>1, <3>1, <3>3, SetRunningInv
  <2> QED BY <2>1, <2>2
<1> QED BY <1>5, <1>6, <1>7, <1>8, <1>9, <1>10

-----------------------------------------------------------------------------
(* A call leads to a covered context.                                      *)
LEMMA RunCallInv ==
    ASSUME PassInv, RunInv, RunCall, Analysable(mod)
    PROVE  RunInv'
<1> DEFINE l == Len(calls)
           C == RunContext(mod, Running)
           inst == RunInst
           ops == RunInst.operands
           g == RunInst.callee
<1>1. AtRunInst /\ inst.op = "call" /\ g \in FunsOf(mod) /\ Fun(mod, g).blocks # <<>> /\ UNCHANGED vars
  BY DEF RunCall
<1>2. PICK args \in [DOMAIN ops -> UNION {ValuesAt(ops[j]) : j \in DOMAIN ops}] :
          /\ \A j \in DOMAIN ops : args[j] \in ValuesAt(ops[j])
          /\ calls' = Append(calls, Activate(g, args))
  BY DEF RunCall
<1>3. /\ Done /\ calls # <<>> /\ mod \in DOMAIN Modules /\ RunFun \in Bodies(mod)
      /\ RunFun \in FunsOf(mod) /\ Running.fun = RunFun
      /\ Running.k <= Block(mod, RunFun, Running.node).last
      /\ Running.k \in PositionsOf(mod, RunFun) /\ Running.node \in Walkable(mod, RunFun)
      /\ Running.k \in Within(mod, RunFun, Running.node)
      /\ inst = Fun(mod, RunFun).insts[Running.k]
      /\ inst \in Insts(ValuesOf(mod, RunFun), FunsOf(mod))
      /\ InCoveredContext(mod, local, Running) /\ g \in Bodies(mod)
  BY <1>1, AtRunFacts DEF Bodies
<1>4. DOMAIN ops = DOMAIN Fun(mod, g).params
  <2>1. ~Fun(mod, g).varArg
    <3>1. g \in Callees(mod, RunFun) BY <1>1, <1>3 DEF Callees
    <3> QED BY <1>1, <1>3, <3>1 DEF Analysable, FollowsCalls
  <2>2. WellFormed(mod) BY <1>3, ModulesAssumption
  <2>3. \A v \in PositionsOf(mod, RunFun) :
            LET i == Fun(mod, RunFun).insts[v]
            IN  i.op = "call" /\ i.callee \in FunsOf(mod) /\ ~Fun(mod, i.callee).varArg
                       => Len(i.operands) = Len(Fun(mod, i.callee).params)
    BY <1>3, <2>2 DEF WellFormed
  <2>4. Len(ops) = Len(Fun(mod, g).params) BY <1>1, <1>3, <2>1, <2>3
  <2>5. ops \in Seq(ValuesOf(mod, RunFun)) BY <1>3 DEF Insts
  <2>6. Fun(mod, g).params \in Seq(Words) BY <1>1, <2>2 DEF WellFormed
  <2> QED BY <2>4, <2>5, <2>6, LenProperties
<1>5. \A j \in DOMAIN ops : ops[j] \in ValuesOf(mod, RunFun)
  <2>1. ops \in Seq(ValuesOf(mod, RunFun)) BY <1>3 DEF Insts
  <2> HIDE DEF ops
  <2> QED BY <2>1, LenProperties, ElementOfSeq
<1>6. \A j \in DOMAIN ops : /\ Has(Meanings(mod), RunFun, C, ops[j], args[j])
                            /\ args[j] \in RunPointers
  BY <1>1, <1>2, <1>5, RunOperand
<1>7. args \in Vectors(mod, g) BY <1>4, <1>6 DEF Vectors
<1>8. Passes(Meanings(mod), RunFun, C, inst, args) BY <1>6 DEF Passes
<1>9. <<g, args>> \in Covered(mod, local)
  <2>1. <<RunFun, C>> \in Covered(mod, local) BY <1>3 DEF InCoveredContext
  <2>2. Sound(mod, local, Covered(mod, local), RunFun, C) BY <2>1, CoveredSound
  <2>3. Follows(mod, Covered(mod, local), RunFun, C, Running.k) BY <1>3, <2>2 DEF Sound
  <2> QED BY <1>1, <1>3, <1>7, <1>8, <2>3 DEF Follows
<1> DEFINE b == Activate(g, args)
<1>10. b \in Frames(mod) /\ b.fun = g /\ Sensible(mod, b) /\ RunContext(mod, b) = args
  <2> HIDE DEF g
  <2>1. b \in FramesOf(mod, g) /\ b.fun = g /\ Sensible(mod, b) /\ RunContext(mod, b) = args
    BY <1>3, <1>7, ActivateFrame
  <2> HIDE DEF b
  <2> QED BY <1>3, <2>1 DEF Frames
<1>11. Linked(mod, Running, b) BY <1>1, <1>3, <1>8, <1>10 DEF Linked
<1>12. InCoveredContext(mod, local, b) BY <1>9, <1>10 DEF InCoveredContext
<1>13. calls' = Append(calls, b) BY <1>2
<1> HIDE DEF b, g, ops, inst, C
<1>14. l \in Nat /\ l >= 1 /\ calls \in Seq(Frames(mod)) BY <1>3, RunningFacts DEF RunInv
<1>15. /\ calls' \in Seq(Frames(mod)) /\ Len(calls') = l + 1
       /\ \A j \in 1 .. l : calls'[j] = calls[j]
       /\ calls'[l + 1] = b
  BY <1>10, <1>13, <1>14, AppendProperties
<1>16. /\ \A j \in 1 .. l : Sensible(mod, calls[j]) /\ InCoveredContext(mod, local, calls[j])
       /\ \A j \in 1 .. l - 1 : Linked(mod, calls[j], calls[j + 1])
       /\ Running = calls[l]
  BY <1>3 DEF RunInv, Running
<1> HIDE DEF l
<1>17. \A j \in 1 .. l + 1 : j \in 1 .. l \/ j = l + 1 BY <1>14
<1>18. \A j \in 1 .. l + 1 : Sensible(mod, calls'[j]) /\ InCoveredContext(mod, local, calls'[j])
  BY <1>10, <1>12, <1>15, <1>16, <1>17
<1>19. ASSUME NEW j \in 1 .. l PROVE Linked(mod, calls'[j], calls'[j + 1])
  <2>1. CASE j = l BY <1>11, <1>15, <1>16, <2>1
  <2>2. CASE j # l
    <3>1. j \in 1 .. l - 1 /\ j + 1 \in 1 .. l BY <1>14, <2>2
    <3> QED BY <1>15, <1>16, <3>1
  <2> QED BY <2>1, <2>2
<1>20. 1 .. Len(calls') = 1 .. l + 1 /\ 1 .. Len(calls') - 1 = 1 .. l BY <1>14, <1>15
<1>21. mod' = mod /\ local' = local /\ Done' /\ Done
  BY <1>1, <1>3 DEF vars, Done
<1>22. \A j \in 1 .. Len(calls') - 1 : Linked(mod, calls'[j], calls'[j + 1]) BY <1>19, <1>20
<1> QED BY <1>15, <1>18, <1>20, <1>21, <1>22 DEF RunInv

LEMMA RunBranchInv ==
    ASSUME PassInv, RunInv, RunBranch
    PROVE  RunInv'
<1>1. Done /\ calls # <<>> BY DEF RunBranch
<1>2. PICK n \in RunBlock.succs :
          SetRunning([Running EXCEPT !.node = n, !.k = Block(mod, RunFun, n).first])
  BY DEF RunBranch
<1> DEFINE b == [Running EXCEPT !.node = n, !.k = Block(mod, RunFun, n).first]
<1>3. calls' = [calls EXCEPT ![Len(calls)] = b] /\ UNCHANGED vars BY <1>2 DEF SetRunning
<1>4. /\ mod \in DOMAIN Modules /\ RunFun \in Bodies(mod)
      /\ Running \in FramesOf(mod, RunFun) /\ Running.fun = RunFun /\ Sensible(mod, Running)
  BY <1>1, RunningFacts
<1>5. n \in Walkable(mod, RunFun) /\ n \in BlocksOf(mod, RunFun)
  <2>1. Running.node \in Walkable(mod, RunFun) BY <1>4 DEF FramesOf
  <2>2. n \in Block(mod, RunFun, Running.node).succs BY <1>2 DEF RunBlock
  <2> QED BY <1>4, <2>1, <2>2, WalkableFacts
<1>6. Block(mod, RunFun, n).first \in Block(mod, RunFun, n).first .. Block(mod, RunFun, n).last + 1
      /\ Block(mod, RunFun, n).first \in Nat
  BY <1>4, <1>5, BlockFacts
<1>7. b \in FramesOf(mod, RunFun)
  <2>1. \A w \in Walkable(mod, RunFun), i \in Nat :
            [Running EXCEPT !.node = w, !.k = i] \in FramesOf(mod, RunFun)
    BY <1>4 DEF FramesOf
  <2> QED BY <1>5, <1>6, <2>1
<1>8. b.fun = RunFun /\ b.node = n /\ b.k = Block(mod, RunFun, n).first /\ b.vals = Running.vals
  BY <1>4 DEF FramesOf
<1> HIDE DEF b
<1>9. RunContext(mod, b) = RunContext(mod, Running) BY <1>4, <1>8 DEF RunContext
<1>10. Sensible(mod, b) BY <1>4, <1>6, <1>8, <1>9 DEF Sensible
<1> QED BY <1>1, <1>3, <1>7, <1>9, <1>10, SetRunningInv

-----------------------------------------------------------------------------
(* The caller goes on after the return of the running activation.          *)
LEMMA ResumedFrame ==
    ASSUME PassInv, RunInv, Done, calls # <<>>, Len(calls) # 1,
           NEW c, c = calls[Len(calls) - 1]
    PROVE  /\ c.fun \in Bodies(mod) /\ c \in FramesOf(mod, c.fun) /\ Sensible(mod, c)
           /\ c.k <= Block(mod, c.fun, c.node).last
           /\ Linked(mod, c, Running) /\ mod \in DOMAIN Modules
           /\ InCoveredContext(mod, local, c)
<1> DEFINE l == Len(calls)
<1>1. l \in Nat /\ l >= 1 /\ calls \in Seq(Frames(mod)) /\ mod \in DOMAIN Modules
  BY RunningFacts DEF RunInv
<1>2. l - 1 \in 1 .. l - 1 /\ l - 1 \in 1 .. l /\ (l - 1) + 1 = l
  <2>1. l # 1 OBVIOUS
  <2> HIDE DEF l
  <2> QED BY <1>1, <2>1
<1>3. c.fun \in Bodies(mod) /\ c \in FramesOf(mod, c.fun)
  <2>1. c \in Frames(mod) BY <1>1, <1>2, ElementOfSeq
  <2>2. PICK g \in Bodies(mod) : c \in FramesOf(mod, g) BY <2>1 DEF Frames
  <2>3. c.fun = g BY <2>2 DEF FramesOf
  <2> QED BY <2>2, <2>3
<1>4. Sensible(mod, c) /\ InCoveredContext(mod, local, c) BY <1>2 DEF RunInv
<1>5. Linked(mod, c, Running) BY <1>2 DEF RunInv, Running
<1> QED BY <1>1, <1>3, <1>4, <1>5 DEF Linked

(* With the pointer that was returned, if any.                             *)
LEMMA ReturnedMakes ==
    ASSUME PassInv, RunInv, RunReturn, Len(calls) # 1, Fun(mod, RunFun).retPtr,
           NEW c, c = calls[Len(calls) - 1], NEW p \in ValuesAt(RunBlock.ret[1])
    PROVE  /\ Makes(mod, Meanings(mod), c.fun, RunContext(mod, c), Fun(mod, c.fun).insts[c.k], p)
           /\ p \in RunPointers
<1> DEFINE S == Meanings(mod)
           D == RunContext(mod, Running)
           inst == Fun(mod, c.fun).insts[c.k]
<1>1. Done /\ calls # <<>> /\ RunBlock.ret # <<>> BY DEF RunReturn
<1>2. /\ mod \in DOMAIN Modules /\ RunFun \in Bodies(mod) /\ RunFun \in FunsOf(mod)
      /\ Running \in FramesOf(mod, RunFun) /\ Running.fun = RunFun /\ Sensible(mod, Running)
  BY <1>1, RunningFacts
<1>3. inst.op = "call" /\ inst.callee = RunFun /\ Passes(S, c.fun, RunContext(mod, c), inst, D)
  BY <1>1, <1>2, ResumedFrame DEF Linked
<1>4. Running.node \in BlocksOf(mod, RunFun) /\ RunBlock = Block(mod, RunFun, Running.node)
  BY <1>2 DEF FramesOf, Walkable, RunBlock
<1>5. RunBlock.ret[1] \in ValuesOf(mod, RunFun)
  <2>1. RunBlock.ret \in Seq(ValuesOf(mod, RunFun)) BY <1>2, <1>4, BlockFacts
  <2>2. Len(RunBlock.ret) \in Nat /\ Len(RunBlock.ret) # 0 BY <1>1, <2>1, LenProperties, EmptySeq
  <2>3. 1 \in 1 .. Len(RunBlock.ret) BY <2>2
  <2> QED BY <2>1, <2>3, ElementOfSeq
<1>6. p \in (IF RunBlock.ret[1] = Outside THEN Pointers
             ELSE {Running.vals[RunBlock.ret[1]]} \ {NoPointer})
  BY DEF ValuesAt
<1>7. Has(S, RunFun, D, RunBlock.ret[1], p) /\ p \in RunPointers
  <2>1. \A f, a, v : f = RunFun /\ a = Running /\ v = RunBlock.ret[1] =>
            Has(Meanings(mod), f, RunContext(mod, a), v, p) /\ p \in RunPointers
    BY <1>2, <1>5, <1>6, FrameHas
  <2> QED BY <2>1
<1>8. Returns(mod, S, RunFun, D, p) BY <1>1, <1>4, <1>7 DEF Returns
<1>9. D \in Vectors(mod, RunFun) BY <1>2 DEF Sensible
<1> HIDE DEF S, D, inst
<1>10. Makes(mod, S, c.fun, RunContext(mod, c), inst, p)
  BY <1>2, <1>3, <1>8, <1>9 DEF Makes
<1> QED BY <1>7, <1>10 DEF S, inst

LEMMA RunReturnInv ==
    ASSUME PassInv, RunInv, RunReturn
    PROVE  RunInv'
<1> DEFINE l == Len(calls)
<1>1. Done /\ calls # <<>> /\ UNCHANGED vars BY DEF RunReturn
<1>2. l \in Nat /\ l >= 1 /\ calls \in Seq(Frames(mod)) /\ mod \in DOMAIN Modules
  BY <1>1, RunningFacts DEF RunInv
<1>3. mod' = mod /\ local' = local /\ Done' BY <1>1 DEF vars, Done
<1>4. CASE l = 1
  <2>1. calls' = <<>> BY <1>4 DEF RunReturn
  <2>2. Len(calls') = 0 /\ 1 .. Len(calls') = {} /\ 1 .. Len(calls') - 1 = {}
    <3>1. Len(calls') = 0 BY <2>1, EmptySeq
    <3>2. (1 .. 0) = {} /\ (1 .. 0 - 1) = {} OBVIOUS
    <3> QED BY <3>1, <3>2
  <2>3. calls' \in Seq(Frames(mod)) BY <2>1
  <2> QED BY <1>3, <2>2, <2>3 DEF RunInv
<1>5. CASE l # 1
  <2> DEFINE rest == SubSeq(calls, 1, l - 1)
             c    == calls[l - 1]
  <2>1. /\ l - 1 \in 1 .. l - 1 /\ l - 1 \in Nat /\ l - 1 >= 1
        /\ \A j \in 1 .. l - 1 : j \in 1 .. l
        /\ \A j \in 1 .. (l - 1) - 1 : /\ j \in 1 .. l - 1 /\ j # l - 1 /\ j + 1 \in 1 .. l - 1
                                       /\ j \in 1 .. l - 1
    <3> HIDE DEF l
    <3> QED BY <1>2, <1>5
  <2>2. /\ c.fun \in Bodies(mod) /\ c \in FramesOf(mod, c.fun) /\ Sensible(mod, c)
        /\ c.k <= Block(mod, c.fun, c.node).last /\ InCoveredContext(mod, local, c)
    BY <1>1, <1>5, ResumedFrame
  <2>3. /\ rest \in Seq(Frames(mod)) /\ Len(rest) = l - 1
        /\ \A j \in 1 .. l - 1 : rest[j] = calls[j]
    <3>1. \A j \in 1 .. l - 1 : calls[j] \in Frames(mod) BY <1>2, <2>1, ElementOfSeq
    <3> QED BY <1>2, <2>1, <3>1, SubSeqProperties
  <2>4. \E b \in FramesOf(mod, c.fun) :
            /\ Sensible(mod, b) /\ RunContext(mod, b) = RunContext(mod, c)
            /\ calls' = [rest EXCEPT ![Len(rest)] = b]
    <3>1. rest[Len(rest)] = c BY <2>1, <2>3
    <3>2. CASE Fun(mod, RunFun).retPtr
      <4>1. PICK p \in ValuesAt(RunBlock.ret[1]) :
                calls' = [rest EXCEPT ![Len(rest)] =
                            [[rest[Len(rest)] EXCEPT !.k = @ + 1]
                                EXCEPT !.vals[rest[Len(rest)].k] = p]]
        BY <1>5, <3>2 DEF RunReturn
      <4>2. /\ Makes(mod, Meanings(mod), c.fun, RunContext(mod, c), Fun(mod, c.fun).insts[c.k], p)
            /\ p \in RunPointers
        BY <1>5, <3>2, ReturnedMakes
      <4>3. /\ Produced(c, p) \in FramesOf(mod, c.fun) /\ Sensible(mod, Produced(c, p))
            /\ RunContext(mod, Produced(c, p)) = RunContext(mod, c)
        BY <1>2, <2>2, <4>2, ProducedFrame
      <4>4. [[c EXCEPT !.k = @ + 1] EXCEPT !.vals[c.k] = p] = Produced(c, p)
        <5> HIDE DEF c
        <5> QED BY <2>2 DEF Produced, FramesOf
      <4> QED BY <3>1, <4>1, <4>3, <4>4
    <3>3. CASE ~Fun(mod, RunFun).retPtr
      <4>1. calls' = [rest EXCEPT ![Len(rest)] = [rest[Len(rest)] EXCEPT !.k = @ + 1]]
        BY <1>5, <3>3 DEF RunReturn
      <4>2. \A f, d, b : f = c.fun /\ d = c /\ b = [d EXCEPT !.k = @ + 1] =>
                /\ b \in FramesOf(mod, f) /\ Sensible(mod, b)
                /\ RunContext(mod, b) = RunContext(mod, d)
        BY <1>2, <2>2, SteppedFrame
      <4> QED BY <3>1, <4>1, <4>2
    <3> QED BY <3>2, <3>3
  <2>5. PICK b \in FramesOf(mod, c.fun) :
            /\ Sensible(mod, b) /\ RunContext(mod, b) = RunContext(mod, c)
            /\ calls' = [rest EXCEPT ![Len(rest)] = b]
    BY <2>4
  <2>6. b \in Frames(mod) /\ b.fun = c.fun /\ InCoveredContext(mod, local, b)
    BY <2>2, <2>5 DEF Frames, FramesOf, InCoveredContext
  <2> HIDE DEF rest
  <2>7. /\ calls' \in Seq(Frames(mod)) /\ Len(calls') = l - 1
        /\ \A j \in 1 .. l - 1 : calls'[j] = IF j = l - 1 THEN b ELSE calls[j]
    <3> HIDE DEF l
    <3> QED BY <2>1, <2>3, <2>5, <2>6, ExceptSeq, LenProperties
  <2>8. /\ \A j \in 1 .. l : Sensible(mod, calls[j]) /\ InCoveredContext(mod, local, calls[j])
        /\ \A j \in 1 .. l - 1 : Linked(mod, calls[j], calls[j + 1])
    BY <1>1 DEF RunInv
  <2>9. \A j \in 1 .. l - 1 : Sensible(mod, calls'[j]) /\ InCoveredContext(mod, local, calls'[j])
    <3> HIDE DEF l
    <3> QED BY <2>1, <2>5, <2>6, <2>7, <2>8
  <2>10. ASSUME NEW j \in 1 .. (l - 1) - 1 PROVE Linked(mod, calls'[j], calls'[j + 1])
    <3>0. c = calls[l - 1] OBVIOUS
    <3> HIDE DEF l, c
    <3>1. calls'[j] = calls[j] /\ Linked(mod, calls[j], calls[j + 1]) BY <2>1, <2>7, <2>8
    <3>2. /\ calls'[j + 1].fun = calls[j + 1].fun
          /\ RunContext(mod, calls'[j + 1]) = RunContext(mod, calls[j + 1])
      BY <2>1, <2>5, <2>6, <2>7, <3>0
    <3> QED BY <3>1, <3>2 DEF Linked
  <2>11. 1 .. Len(calls') = 1 .. l - 1 /\ 1 .. Len(calls') - 1 = 1 .. (l - 1) - 1 BY <2>7
  <2> HIDE DEF l
  <2>12. \A j \in 1 .. Len(calls') - 1 : Linked(mod, calls'[j], calls'[j + 1])
    BY <2>10, <2>11
  <2> QED BY <1>3, <2>7, <2>9, <2>11, <2>12 DEF RunInv
<1> QED BY <1>4, <1>5

-----------------------------------------------------------------------------
(* The run starts in the invariant ...                                     *)
LEMMA RunInitInv == RunInit => PassInv /\ FlowInv /\ RunInv
<1> SUFFICES ASSUME RunInit PROVE PassInv /\ FlowInv /\ RunInv OBVIOUS
<1>1. Init BY DEF RunInit
<1>2. PassInv /\ FlowInv BY <1>1, InitInv, FlowInit
<1>3. mod \in DOMAIN Modules BY <1>1 DEF Init
<1>4. CASE "main" \in FunsOf(mod)
  <2>1. PICK args \in [DOMAIN Fun(mod, "main").params -> Pointers] :
            calls = <<Activate("main", args)>>
    BY <1>4 DEF RunInit
  <2> DEFINE b == Activate("main", args)
  <2>2. "main" \in Bodies(mod)
    BY <1>3, <1>4, ModulesAssumption DEF WellFormed, Bodies
  <2>3. args \in Vectors(mod, "main") BY PointerType DEF Vectors
  <2>4. b \in FramesOf(mod, "main") /\ b.fun = "main" /\ Sensible(mod, b)
    BY <1>3, <2>2, <2>3, ActivateFrame
  <2>5. calls = <<b>> BY <2>1
  <2> HIDE DEF b
  <2>6. b \in Frames(mod) BY <2>2, <2>4 DEF Frames
  <2>7. calls \in Seq(Frames(mod)) /\ Len(calls) = 1 /\ calls[1] = b BY <2>5, <2>6
  <2>8. (1 .. Len(calls)) = {1} /\ (1 .. Len(calls) - 1) = {} BY <2>7
  <2>9. ~Done
    <3> DEFINE a == Activation("main", [k \in DOMAIN Fun(mod, "main").params |-> UNBOUND_ATTR])
    <3>1. stack = <<a>> BY <1>1, <1>4 DEF Init
    <3> HIDE DEF a
    <3> QED BY <3>1 DEF Done
  <2> QED BY <1>2, <2>4, <2>7, <2>8, <2>9 DEF RunInv
<1>5. CASE "main" \notin FunsOf(mod)
  <2>1. calls = <<>> BY <1>5 DEF RunInit
  <2>2. calls \in Seq(Frames(mod)) BY <2>1
  <2>3. 1 .. Len(calls) = {} /\ 1 .. Len(calls) - 1 = {}
    <3>1. Len(calls) = 0 BY <2>1, EmptySeq
    <3>2. (1 .. 0) = {} /\ (1 .. 0 - 1) = {} OBVIOUS
    <3> QED BY <3>1, <3>2
  <2> QED BY <1>2, <2>2, <2>3 DEF RunInv
<1> QED BY <1>4, <1>5

(* ... in which it stays while the analysis works on, even by its end, ... *)
LEMMA RunAnalysisInv ==
    ASSUME PassInv, FlowInv, RunInv, Analysable(mod), Next, UNCHANGED calls
    PROVE  RunInv'
<1>1. PassInv' /\ FlowInv' BY NextInv, FlowNext
<1>2. mod' = mod /\ ~Done
  <2>1. CASE stack # <<>> /\ \E n \in Top.worklist : Dequeue(n) BY <2>1, DequeueInv DEF Done
  <2>2. CASE VisitInst
    <3>1. mod' = mod
      <4>1. CASE CallDeclaration BY <4>1, DeclarationInv
      <4>2. CASE EnterCall BY <4>2, EnterInv
      <4> QED BY <2>2, <4>1, <4>2, VisitInv DEF VisitInst
    <3>2. AtInst
      BY <2>2 DEF VisitInst, VisitAlloca, VisitPhi, VisitGep, VisitCast, VisitAllocator,
                  VisitReturnsArgument, VisitOther, ReuseCall, CallDeclaration, EnterCall
    <3> QED BY <3>1, <3>2 DEF Done, AtInst
  <2>3. CASE EndBlock BY <2>3, EndBlockInv DEF Done, EndBlock
  <2>4. CASE Return BY <2>4, ReturnInv DEF Done, Return
  <2> QED BY <2>1, <2>2, <2>3, <2>4 DEF Next
<1>3. calls' = calls OBVIOUS
<1>4. \A j \in 1 .. Len(calls) : calls[j].fun = "main" BY <1>2 DEF RunInv
<1>5. ASSUME Done', NEW j \in 1 .. Len(calls) PROVE InCoveredContext(mod, local', calls[j])
  <2> DEFINE C == RunContext(mod, calls[j])
  <2>1. calls[j].fun = "main" /\ Sensible(mod, calls[j]) BY <1>4 DEF RunInv
  <2>2. C \in Vectors(mod, "main") BY <2>1 DEF Sensible
  <2>3. "main" \in FunsOf(mod)
    <3>1. calls[j] \in Frames(mod) BY ElementOfSeq DEF RunInv
    <3> QED BY <2>1, <3>1 DEF Frames, FramesOf, Bodies
  <2>4. Analysed(mod, local', "main", NothingGranted(mod))
    BY <1>1, <1>2, <1>5, <2>3 DEF FlowInv, Done
  <2>5. Matches(mod, "main", NothingGranted(mod), C)
    BY DEF Matches, Granted, NothingGranted
  <2> QED BY <2>1, <2>2, <2>4, <2>5 DEF Analysed, InCoveredContext
<1> QED BY <1>2, <1>3, <1>4, <1>5 DEF RunInv

(* ... and while the module runs.                                          *)
LEMMA RunNextInv ==
    ASSUME PassInv, FlowInv, RunInv, Analysable(mod), [RunNext]_runVars
    PROVE  PassInv' /\ FlowInv' /\ RunInv'
<1>1. CASE Next /\ UNCHANGED calls BY <1>1, NextInv, FlowNext, RunAnalysisInv
<1>2. CASE RunStep
  <2>1. UNCHANGED vars
    BY <1>2 DEF RunStep, RunAllocation, RunPhi, RunGep, RunCast, RunReturnsArgument, RunOther,
                RunCall, RunBranch, RunReturn, Produce, SetRunning
  <2>2. PassInv' /\ FlowInv' BY <2>1, NextInv, FlowNext
  <2>3. RunInv'
    BY <1>2, RunInstInv, RunCallInv, RunBranchInv, RunReturnInv DEF RunStep
  <2> QED BY <2>2, <2>3
<1>3. CASE UNCHANGED runVars
  <2>1. UNCHANGED vars /\ calls' = calls BY <1>3 DEF runVars
  <2>2. PassInv' /\ FlowInv' BY <2>1, NextInv, FlowNext
  <2>3. mod' = mod /\ local' = local /\ stack' = stack BY <2>1 DEF vars
  <2> QED BY <2>1, <2>2, <2>3 DEF RunInv, Done
<1> QED BY <1>1, <1>2, <1>3 DEF RunNext

(* What a covered activation has, is as the set of its function says.      *)
LEMMA CoveredAddresses ==
    ASSUME NEW a, InCoveredContext(mod, local, a), mod \in DOMAIN Modules, Sensible(mod, a),
           local[a.fun] \subseteq ValuesOf(mod, a.fun),
           NEW v \in local[a.fun], a.vals[v] # NoPointer
    PROVE  Addresses(a.vals[v], PointeeSize(mod, a.fun, v))
<1>1. /\ a.fun \in FunsOf(mod) /\ Honest(mod, local, a.fun, RunContext(mod, a))
  BY CoveredSound DEF InCoveredContext, Sound, Bodies
<1>2. v # Outside BY DEF Sensible
<1>3. v \in Named(mod, a.fun) BY <1>1, <1>2, NamedFacts
<1>4. Means(mod, a.fun, RunContext(mod, a), v, a.vals[v]) BY <1>3 DEF Sensible
<1> QED BY <1>1, <1>2, <1>4 DEF Honest

LEMMA RunSafe ==
    ASSUME PassInv, RunInv
    PROVE  LocalSound /\ AccessesInBounds
<1>1. ASSUME Done, NEW j \in DOMAIN calls, NEW v \in local[calls[j].fun],
             calls[j].vals[v] # NoPointer
      PROVE  Addresses(calls[j].vals[v], PointeeSize(mod, calls[j].fun, v))
  <2>1. j \in 1 .. Len(calls) BY LenProperties DEF RunInv
  <2>2. Sensible(mod, calls[j]) /\ InCoveredContext(mod, local, calls[j])
    BY <1>1, <2>1 DEF RunInv
  <2>3. mod \in DOMAIN Modules /\ local[calls[j].fun] \subseteq ValuesOf(mod, calls[j].fun)
    BY <2>2, CoveredSound DEF InCoveredContext, Bodies, PassInv
  <2> QED BY <1>1, <2>2, <2>3, CoveredAddresses
<1>2. LocalSound BY <1>1 DEF LocalSound
<1>3. ASSUME AtRunInst, InBound(RunFun, RunInst), NEW p, p = RunInst.operands[1],
             Running.vals[p] # NoPointer
      PROVE  Addresses(Running.vals[p], PointeeSize(mod, RunFun, p))
  <2>1. /\ Sensible(mod, Running) /\ InCoveredContext(mod, local, Running) /\ Running.fun = RunFun
        /\ mod \in DOMAIN Modules /\ local[RunFun] \subseteq ValuesOf(mod, RunFun)
    BY <1>3, AtRunFacts DEF PassInv
  <2>2. p \in local[Running.fun] BY <1>3, <2>1 DEF InBound
  <2> QED BY <1>3, <2>1, <2>2, CoveredAddresses
<1>4. AccessesInBounds BY <1>3 DEF AccessesInBounds
<1> QED BY <1>2, <1>4

(* For modules the analysis can follow, a value of local addresses a whole *)
(* pointee in every activation of its function, whatever main is given,    *)
(* whichever way the branches go and whatever unknown code returns: what   *)
(* objectPass remembers of each call site and joins over the exits is not  *)
(* too much for any context in which the function is ever called.          *)
THEOREM LocalIsSound ==
    ASSUME \A m \in DOMAIN Modules : Analysable(m)
    PROVE  RunSpec => []LocalSound
<1>1. RunInit => PassInv /\ FlowInv /\ RunInv BY RunInitInv
<1>2. (PassInv /\ FlowInv /\ RunInv) /\ [RunNext]_runVars => (PassInv /\ FlowInv /\ RunInv)'
  BY RunNextInv DEF PassInv
<1>3. PassInv /\ FlowInv /\ RunInv => LocalSound BY RunSafe
<1> QED BY <1>1, <1>2, <1>3, PTL DEF RunSpec

(* For these modules, no access whose check annotateValue leaves out       *)
(* because of local leaves its object when it executes.                    *)
THEOREM AccessesStayInBounds ==
    ASSUME \A m \in DOMAIN Modules : Analysable(m)
    PROVE  RunSpec => []AccessesInBounds
<1>1. RunInit => PassInv /\ FlowInv /\ RunInv BY RunInitInv
<1>2. (PassInv /\ FlowInv /\ RunInv) /\ [RunNext]_runVars => (PassInv /\ FlowInv /\ RunInv)'
  BY RunNextInv DEF PassInv
<1>3. PassInv /\ FlowInv /\ RunInv => AccessesInBounds BY RunSafe
<1> QED BY <1>1, <1>2, <1>3, PTL DEF RunSpec
=============================================================================
