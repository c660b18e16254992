------------------------- MODULE FunctionClone_proofs -------------------------
(***************************************************************************)
(* Proofs about FunctionClone, for modules of every size.                  *)
(***************************************************************************)
EXTENDS FunctionClone, SequenceTheorems, FiniteSetTheorems, TLAPS

(* Functions as the pass keeps them.                                       *)
CloneNames == [base : {Fun(mod, v).name.base : v \in Originals}, pieces : Seq(Nat \cup {Empty})]
FunRecords ==
    [name : CloneNames, kind : Kinds, body : Seq(Nat \cup {External, Load, Plain}),
     of : Nat, context : Seq(Nat)]

FunsTyped ==
    /\ mod \in Modules
    /\ funs \in Seq(FunRecords)
    /\ V <= Len(funs)
    /\ \A v \in Numbers(funs) :
          /\ Fun(funs, v).of \in Originals
          /\ \A k \in 1 .. Len(Fun(funs, v).body) :
                Fun(funs, v).body[k] \in Numbers(funs) \cup {External, Load, Plain}

(* Each call adds two numbers to a context.                                *)
Contextual == {c \in Seq(Nat) : Len(c) % 2 = 0}
Pieces == Seq(Nat \cup {Empty})

(* A clone has the name that its function and its context give it.         *)
NamedAfter ==
    /\ \A v \in Originals : Fun(funs, v).of = v /\ Fun(funs, v).name = Fun(mod, v).name
    /\ \A c \in Clones :
          /\ Fun(funs, c).context \in Contextual
          /\ Fun(funs, c).name = CloneName(Fun(mod, Fun(funs, c).of).name, Fun(funs, c).context)

(* The bodies of the originals, save that of main, are left alone.         *)
OriginalsKept ==
    \A v \in Originals :
        pc = "scc" \/ v \notin MainOf(mod) => Fun(funs, v).body = Fun(mod, v).body

(* The first walk is that of main, the others are those of clones.         *)
WalksTyped ==
    /\ walks \in Seq([fun : Nat, k : Nat, ic : Nat])
    /\ \A n \in DOMAIN walks :
          /\ walks[n].fun \in Numbers(funs)
          /\ walks[n].k \in 1 .. Len(Fun(funs, walks[n].fun).body) + 1
          /\ walks[n].ic \in 0 .. walks[n].k - 1
          /\ n = 1 => walks[n].fun \in MainOf(mod)
          /\ n # 1 => walks[n].fun \in Clones
    /\ \A m, n \in DOMAIN walks : walks[m].fun = walks[n].fun => m = n

(* A walk waits at a call of the function that is being copied above it.   *)
WalksWait ==
    \A n \in 1 .. Len(walks) - 1 :
        LET of == Fun(funs, walks[n].fun).of
        IN  /\ walks[n].k <= Len(Fun(funs, walks[n].fun).body)
            /\ Fun(mod, of).body[walks[n].k] = Fun(funs, walks[n + 1].fun).of

(* In front of a walk the body is that of the program.                     *)
Ahead ==
    \A n \in DOMAIN walks :
        n = 1 \/ ~MainIsCalled(mod) =>
            \A k \in walks[n].k .. Len(Fun(funs, walks[n].fun).body) :
                Fun(funs, walks[n].fun).body[k] = Fun(mod, Fun(funs, walks[n].fun).of).body[k]

(* Behind the walks every call of a function with a body leads to a clone. *)
Pending(v, k) == \E n \in DOMAIN walks : walks[n].fun = v /\ walks[n].k <= k
RedirectedAt(v, k) ==
    LET inst == Fun(funs, v).body[k]
    IN  IsCall(inst) /\ IsDefined(funs, inst) => inst \in Clones \/ Pending(v, k)
Redirected ==
    pc # "scc" /\ fullClone =>
        \A v \in MainOf(mod) \cup Clones : \A k \in 1 .. Len(Fun(funs, v).body) : RedirectedAt(v, k)

Phases ==
    /\ pc \in {"scc", "clone", "done", "undefined"}
    /\ pc = "scc" => walks = <<>> /\ Len(funs) = V
    /\ pc = "done" => walks = <<>>

FunsInv == FunsTyped /\ NamedAfter /\ SameProgram
CloneInv ==
    /\ FunsInv /\ OriginalsKept
    /\ WalksTyped /\ WalksWait /\ Ahead /\ Redirected
    /\ Phases /\ LookupsKnown

-----------------------------------------------------------------------------
LEMMA SeqInto ==
    ASSUME NEW S, NEW T, NEW s \in Seq(S), \A i \in 1 .. Len(s) : s[i] \in T
    PROVE  s \in Seq(T)
<1>1. Len(s) \in Nat /\ s \in [1 .. Len(s) -> T] BY LenProperties
<1> QED BY <1>1, SeqDef

(* What the assumptions say of a module.                                   *)
LEMMA ModuleFacts ==
    ASSUME NEW m \in Modules
    PROVE  /\ Len(m) \in Nat
           /\ DOMAIN m = 1 .. Len(m)
           /\ \A v \in Numbers(m) :
                 /\ v \in Nat /\ v + 1 \in DOMAIN m
                 /\ Fun(m, v) = [name |-> Fun(m, v).name, kind |-> Fun(m, v).kind,
                                 body |-> Fun(m, v).body]
                 /\ Fun(m, v).name = [base   |-> Fun(m, v).name.base,
                                      pieces |-> Fun(m, v).name.pieces]
                 /\ Fun(m, v).name.pieces \in Pieces
                 /\ Fun(m, v).kind \in Kinds
                 /\ Fun(m, v).body \in Seq(Numbers(m) \cup {External, Load, Plain})
           /\ \A u, v \in Numbers(m) : Fun(m, u).name = Fun(m, v).name => u = v
<1>1. WellFormedModule(m) BY ModulesAssumption
<1>2. m \in Seq([name : Names(m), kind : Kinds, body : Seq(Insts(m))])
  BY <1>1 DEF WellFormedModule
<1>3. /\ Len(m) \in Nat
      /\ DOMAIN m = 1 .. Len(m)
      /\ \A n \in 1 .. Len(m) : m[n] \in [name : Names(m), kind : Kinds, body : Seq(Insts(m))]
  BY <1>2, LenProperties, ElementOfSeq
<1>4. \A v \in Numbers(m) : v \in Nat /\ v + 1 \in 1 .. Len(m)
  BY <1>3 DEF Numbers
<1>5. \A v \in Numbers(m) : Fun(m, v) \in [name : Names(m), kind : Kinds, body : Seq(Insts(m))]
  BY <1>3, <1>4 DEF Fun
<1> QED BY <1>1, <1>3, <1>4, <1>5 DEF WellFormedModule, Insts, Pieces

(***************************************************************************)
(* The name of a clone says which function it is a clone of.               *)
(***************************************************************************)
LEMMA PiecesOfClone ==
    ASSUME NEW p \in Pieces, NEW c \in Contextual
    PROVE  LET q == p \o c \o <<Empty>>
           IN  /\ q \in Pieces
               /\ Len(q) = Len(p) + Len(c) + 1
               /\ q[Len(q)] = Empty
               /\ \A i \in 1 .. Len(p) : q[i] = p[i]
<1>1. c \in Pieces /\ Len(c) \in Nat
  <2>1. c \in Seq(Nat) BY DEF Contextual
  <2>2. \A i \in 1 .. Len(c) : c[i] \in Nat \cup {Empty} BY <2>1, ElementOfSeq
  <2> QED BY <2>1, <2>2, SeqInto, LenProperties DEF Pieces
<1>2. p \o c \in Pieces /\ Len(p \o c) = Len(p) + Len(c) BY <1>1 DEF Pieces
<1>3. \A i \in 1 .. Len(p) : (p \o c)[i] = p[i] BY <1>1 DEF Pieces
<1>4. <<Empty>> \in Pieces /\ Len(<<Empty>>) = 1 BY DEF Pieces
<1>5. p \o c \o <<Empty>> \in Pieces BY <1>2, <1>4 DEF Pieces
<1>6. Len(p \o c \o <<Empty>>) = Len(p) + Len(c) + 1 BY <1>2, <1>4 DEF Pieces
<1>7. \A i \in 1 .. Len(p) : (p \o c \o <<Empty>>)[i] = p[i] BY <1>1, <1>2, <1>3, <1>4 DEF Pieces
<1>8. (p \o c \o <<Empty>>)[Len(p) + Len(c) + 1] = Empty BY <1>1, <1>2, <1>4 DEF Pieces
<1> QED BY <1>5, <1>6, <1>7, <1>8

LEMMA CloneNameIs ==
    ASSUME NEW name, NEW c, name = [base |-> name.base, pieces |-> name.pieces]
    PROVE  CloneName(name, c) = [base |-> name.base, pieces |-> name.pieces \o c \o <<Empty>>]
<1> DEFINE q == name.pieces \o c \o <<Empty>>
<1>1. CloneName(name, c) = [name EXCEPT !.pieces = q] BY DEF CloneName
<1> HIDE DEF q
<1>2. [[base |-> name.base, pieces |-> name.pieces] EXCEPT !.pieces = q] = [base |-> name.base, pieces |-> q]
  OBVIOUS
<1> QED BY <1>1, <1>2 DEF q

LEMMA CloneNamesApart ==
    ASSUME NEW m \in Modules, NEW u \in Numbers(m), NEW v \in Numbers(m),
           NEW c \in Contextual, NEW d \in Contextual,
           CloneName(Fun(m, u).name, c) = CloneName(Fun(m, v).name, d)
    PROVE  u = v
<1> DEFINE a == Fun(m, u).name
           b == Fun(m, v).name
           p == a.pieces
           q == b.pieces
<1>1. /\ a = [base |-> a.base, pieces |-> p] /\ p \in Pieces
      /\ b = [base |-> b.base, pieces |-> q] /\ q \in Pieces
  BY ModuleFacts
<1>2. a.base = b.base /\ p \o c \o <<Empty>> = q \o d \o <<Empty>>
  <2>1. CloneName(a, c) = [base |-> a.base, pieces |-> p \o c \o <<Empty>>]
    BY <1>1, CloneNameIs
  <2>2. CloneName(b, d) = [base |-> b.base, pieces |-> q \o d \o <<Empty>>]
    BY <1>1, CloneNameIs
  <2> HIDE DEF a, b, p, q
  <2>3. [base |-> a.base, pieces |-> p \o c \o <<Empty>>] = [base |-> b.base, pieces |-> q \o d \o <<Empty>>]
    BY <2>1, <2>2 DEF a, b
  <2> QED BY <2>3
<1>3. Len(p) + Len(c) = Len(q) + Len(d)
  <2> HIDE DEF p, q
  <2>1. Len(p \o c \o <<Empty>>) = Len(p) + Len(c) + 1 BY <1>1, PiecesOfClone
  <2>2. Len(q \o d \o <<Empty>>) = Len(q) + Len(d) + 1 BY <1>1, PiecesOfClone
  <2>3. Len(p \o c \o <<Empty>>) = Len(q \o d \o <<Empty>>) BY <1>2
  <2>4. Len(p) \in Nat /\ Len(q) \in Nat BY <1>1 DEF Pieces
  <2>5. Len(c) \in Nat /\ Len(d) \in Nat BY DEF Contextual
  <2> QED BY <2>1, <2>2, <2>3, <2>4, <2>5
<1>4. Len(p) = Len(q)
  <2>1. /\ Len(p) < Len(q) => (Len(q) - Len(p)) % 2 = 1
        /\ Len(q) < Len(p) => (Len(p) - Len(q)) % 2 = 1
    <3>1. NamesApart(m) BY NamesAssumption
    <3> QED BY <3>1, <1>2 DEF NamesApart
  <2> HIDE DEF p, q
  <2>2. Len(p) \in Nat /\ Len(q) \in Nat BY <1>1 DEF Pieces
  <2>3. Len(c) \in Nat /\ Len(d) \in Nat /\ Len(c) % 2 = 0 /\ Len(d) % 2 = 0 BY DEF Contextual
  <2> QED BY <2>1, <2>2, <2>3, <1>3
<1>5. p = q
  <2> HIDE DEF p, q
  <2>1. \A i \in 1 .. Len(p) : p[i] = q[i] BY <1>1, <1>2, <1>4, PiecesOfClone
  <2> QED BY <2>1, <1>1, <1>4 DEF Pieces
<1>6. a = b BY <1>1, <1>2, <1>5
<1> QED BY <1>6, ModuleFacts

(* No function of the program has the name of a clone.                     *)
LEMMA CloneNameNew ==
    ASSUME NEW m \in Modules, NEW u \in Numbers(m), NEW v \in Numbers(m), NEW c \in Contextual
    PROVE  CloneName(Fun(m, u).name, c) # Fun(m, v).name
<1> DEFINE a == Fun(m, u).name
           b == Fun(m, v).name
           q == a.pieces \o c \o <<Empty>>
<1>1. /\ a = [base |-> a.base, pieces |-> a.pieces] /\ a.pieces \in Pieces
  BY ModuleFacts
<1>2. CloneName(a, c) = [base |-> a.base, pieces |-> q]
  BY <1>1, CloneNameIs
<1>3. q \in Pieces /\ q # <<>> /\ q[Len(q)] = Empty
  <2>1. q \in Pieces /\ q[Len(q)] = Empty /\ Len(q) = Len(a.pieces) + Len(c) + 1 BY <1>1, PiecesOfClone
  <2>2. Len(a.pieces) \in Nat /\ Len(c) \in Nat BY <1>1 DEF Pieces, Contextual
  <2> HIDE DEF q
  <2>3. Len(q) # 0 BY <2>1, <2>2
  <2> QED BY <2>1, <2>3 DEF Pieces
<1>4. b.pieces # <<>> => b.pieces[Len(b.pieces)] # Empty
  BY NamesAssumption DEF NamesApart
<1> HIDE DEF a, b, q
<1>5. b = CloneName(a, c) => b.pieces = q BY <1>2
<1> QED BY <1>3, <1>4, <1>5 DEF a, b

-----------------------------------------------------------------------------
(* What FunsInv says of one function.                                      *)
LEMMA FunFacts ==
    ASSUME FunsInv
    PROVE  /\ mod \in Modules
           /\ V \in Nat /\ Len(funs) \in Nat /\ V <= Len(funs)
           /\ Originals = 0 .. V - 1
           /\ Numbers(funs) = 0 .. Len(funs) - 1
           /\ Clones = V .. Len(funs) - 1
           /\ MainOf(mod) \subseteq Originals
           /\ \A v \in Numbers(funs) :
                 /\ v \in Nat /\ v + 1 \in 1 .. Len(funs)
                 /\ Fun(funs, v) \in FunRecords
                 /\ Fun(funs, v).of \in Originals
                 /\ Len(Fun(funs, v).body) \in Nat
                 /\ DOMAIN Fun(funs, v).body = 1 .. Len(Fun(funs, v).body)
                 /\ Len(Fun(mod, Fun(funs, v).of).body) = Len(Fun(funs, v).body)
                 /\ \A k \in 1 .. Len(Fun(funs, v).body) :
                       /\ Fun(funs, v).body[k] \in Numbers(funs) \cup {External, Load, Plain}
                       /\ Original(funs, Fun(funs, v).body[k]) = Fun(mod, Fun(funs, v).of).body[k]
                       /\ Fun(mod, Fun(funs, v).of).body[k] \in Originals \cup {External, Load, Plain}
<1> USE DEF FunsInv
<1>1. mod \in Modules BY DEF FunsTyped
<1>2. V \in Nat /\ Len(funs) \in Nat /\ V <= Len(funs)
  BY <1>1, ModuleFacts, LenProperties DEF FunsTyped, V
<1>3. /\ Originals = 0 .. V - 1 /\ Numbers(funs) = 0 .. Len(funs) - 1
  BY DEF Originals, Numbers, V
<1>4. Clones = V .. Len(funs) - 1 BY <1>2, <1>3 DEF Clones
<1>5. MainOf(mod) \subseteq Originals BY DEF MainOf, Named, Originals
<1>6. ASSUME NEW v \in Numbers(funs)
      PROVE  /\ v \in Nat /\ v + 1 \in 1 .. Len(funs)
             /\ Fun(funs, v) \in FunRecords
             /\ Fun(funs, v).of \in Originals
             /\ Len(Fun(funs, v).body) \in Nat
             /\ DOMAIN Fun(funs, v).body = 1 .. Len(Fun(funs, v).body)
             /\ Len(Fun(mod, Fun(funs, v).of).body) = Len(Fun(funs, v).body)
             /\ \A k \in 1 .. Len(Fun(funs, v).body) :
                   /\ Fun(funs, v).body[k] \in Numbers(funs) \cup {External, Load, Plain}
                   /\ Original(funs, Fun(funs, v).body[k]) = Fun(mod, Fun(funs, v).of).body[k]
                   /\ Fun(mod, Fun(funs, v).of).body[k] \in Originals \cup {External, Load, Plain}
  <2>1. v \in Nat /\ v + 1 \in 1 .. Len(funs) BY <1>2, <1>3
  <2>2. Fun(funs, v) \in FunRecords BY <2>1, ElementOfSeq DEF FunsTyped, Fun
  <2>3. Fun(funs, v).of \in Originals BY DEF FunsTyped
  <2>4. /\ Len(Fun(funs, v).body) \in Nat
        /\ DOMAIN Fun(funs, v).body = 1 .. Len(Fun(funs, v).body)
    BY <2>2, LenProperties DEF FunRecords
  <2>5. Fun(mod, Fun(funs, v).of).body \in Seq(Originals \cup {External, Load, Plain})
    BY <1>1, <2>3, ModuleFacts DEF Originals
  <2>6. /\ Len(Fun(mod, Fun(funs, v).of).body) = Len(Fun(funs, v).body)
        /\ \A k \in DOMAIN Fun(mod, Fun(funs, v).of).body :
              Original(funs, Fun(funs, v).body[k]) = Fun(mod, Fun(funs, v).of).body[k]
    BY DEF SameProgram
  <2>7. DOMAIN Fun(mod, Fun(funs, v).of).body = 1 .. Len(Fun(funs, v).body)
    BY <2>5, <2>6, LenProperties
  <2>8. \A k \in 1 .. Len(Fun(funs, v).body) :
            Fun(mod, Fun(funs, v).of).body[k] \in Originals \cup {External, Load, Plain}
    BY <2>5, <2>6, ElementOfSeq
  <2>9. \A k \in 1 .. Len(Fun(funs, v).body) :
            Fun(funs, v).body[k] \in Numbers(funs) \cup {External, Load, Plain}
    BY DEF FunsTyped
  <2> QED BY <2>1, <2>2, <2>3, <2>4, <2>6, <2>7, <2>8, <2>9
<1> QED BY <1>1, <1>2, <1>3, <1>4, <1>5, <1>6

(***************************************************************************)
(* Nothing is added or redirected.                                         *)
(***************************************************************************)
LEMMA FunsUnchanged ==
    ASSUME FunsInv, mod' = mod, funs' = funs
    PROVE  FunsInv'
<1>1. V' = V /\ Originals' = Originals /\ Clones' = Clones /\ FunRecords' = FunRecords
  BY DEF V, Originals, Clones, FunRecords, CloneNames
<1>2. FunsTyped' BY <1>1 DEF FunsInv, FunsTyped
<1>3. NamedAfter' BY <1>1 DEF FunsInv, NamedAfter
<1>4. SameProgram' BY DEF FunsInv, SameProgram
<1> QED BY <1>2, <1>3, <1>4 DEF FunsInv

(***************************************************************************)
(* A call that is redirected to a clone of its callee.                     *)
(***************************************************************************)
LEMMA Redirecting ==
    ASSUME FunsInv, NEW fun \in Numbers(funs), NEW k \in 1 .. Len(Fun(funs, fun).body),
           NEW clone \in Clones,
           Fun(mod, Fun(funs, fun).of).body[k] = Fun(funs, clone).of,
           funs' = SetCalledFunction(funs, fun, k, clone), mod' = mod
    PROVE  /\ FunsInv'
           /\ Len(funs') = Len(funs)
           /\ \A v \in Numbers(funs) :
                 /\ Fun(funs', v).of = Fun(funs, v).of
                 /\ Fun(funs', v).kind = Fun(funs, v).kind
                 /\ Fun(funs', v).context = Fun(funs, v).context
                 /\ v # fun => Fun(funs', v) = Fun(funs, v)
                 /\ Len(Fun(funs', v).body) = Len(Fun(funs, v).body)
           /\ \A j \in 1 .. Len(Fun(funs, fun).body) :
                 Fun(funs', fun).body[j] = IF j = k THEN clone ELSE Fun(funs, fun).body[j]
<1> DEFINE old  == Fun(funs, fun)
           body == [old.body EXCEPT ![k] = clone]
           new  == [old EXCEPT !.body = body]
<1>1. funs' = [funs EXCEPT ![fun + 1] = new] BY DEF SetCalledFunction, Fun
<1>2. /\ old \in FunRecords /\ fun + 1 \in 1 .. Len(funs)
      /\ clone \in Nat /\ clone \in Numbers(funs) /\ funs \in Seq(FunRecords)
  <2>1. clone \in Numbers(funs) BY DEF Clones
  <2>2. old \in FunRecords /\ fun + 1 \in 1 .. Len(funs) /\ clone \in Nat BY <2>1, FunFacts
  <2>3. funs \in Seq(FunRecords) BY DEF FunsInv, FunsTyped
  <2> QED BY <2>1, <2>2, <2>3
<1>3. old.body \in Seq(Nat \cup {External, Load, Plain}) BY <1>2 DEF FunRecords
<1>4. /\ body \in Seq(Nat \cup {External, Load, Plain})
      /\ Len(body) = Len(old.body)
      /\ \A j \in 1 .. Len(old.body) : body[j] = IF j = k THEN clone ELSE old.body[j]
  <2> HIDE DEF old
  <2> QED BY <1>2, <1>3, ExceptSeq DEF old
<1>5. /\ new \in FunRecords
      /\ new.of = old.of /\ new.kind = old.kind /\ new.name = old.name
      /\ new.context = old.context /\ new.body = body
  <2> HIDE DEF old, body
  <2> QED BY <1>2, <1>4 DEF FunRecords
<1> HIDE DEF new
<1>6. /\ funs' \in Seq(FunRecords)
      /\ Len(funs') = Len(funs)
      /\ \A i \in 1 .. Len(funs) : funs'[i] = IF i = fun + 1 THEN new ELSE funs[i]
  BY <1>1, <1>2, <1>5, ExceptSeq
<1>7. \A v \in Numbers(funs) : Fun(funs', v) = IF v = fun THEN new ELSE Fun(funs, v)
  <2>1. \A v \in Numbers(funs) : v \in Nat /\ v + 1 \in 1 .. Len(funs) BY FunFacts
  <2> QED BY <1>6, <2>1 DEF Fun
<1>8. /\ Numbers(funs') = Numbers(funs) /\ Numbers(funs)' = Numbers(funs)
      /\ Originals' = Originals /\ V' = V /\ Clones' = Clones
  BY <1>6 DEF Numbers, Originals, V, Clones
<1>9. \A v \in Numbers(funs) :
          /\ Fun(funs', v).of = Fun(funs, v).of
          /\ Fun(funs', v).kind = Fun(funs, v).kind
          /\ Fun(funs', v).name = Fun(funs, v).name
          /\ Fun(funs', v).context = Fun(funs, v).context
          /\ Len(Fun(funs', v).body) = Len(Fun(funs, v).body)
          /\ \A j \in 1 .. Len(Fun(funs, v).body) :
                Fun(funs', v).body[j] = IF v = fun /\ j = k THEN clone ELSE Fun(funs, v).body[j]
  BY <1>4, <1>5, <1>7
<1>10. FunsTyped'
  <2>1. FunRecords' = FunRecords BY <1>8 DEF FunRecords, CloneNames
  <2>2. \A v \in Numbers(funs) : Fun(funs, v)'.of \in Originals'
    BY <1>8, <1>9, FunFacts
  <2>3. \A v \in Numbers(funs) : \A j \in 1 .. Len(Fun(funs, v).body) :
            Fun(funs, v).body[j] \in Numbers(funs) \cup {External, Load, Plain}
    BY FunFacts
  <2>4. \A v \in Numbers(funs) : \A j \in 1 .. Len(Fun(funs', v).body) :
            Fun(funs', v).body[j] \in Numbers(funs) \cup {External, Load, Plain}
    BY <1>2, <1>9, <2>3
  <2> QED BY <1>6, <1>8, <2>1, <2>2, <2>4 DEF FunsTyped, FunsInv
<1>11. NamedAfter'
  <2>1. Originals \subseteq Numbers(funs) /\ Clones \subseteq Numbers(funs)
    BY FunFacts
  <2> HIDE DEF old, body
  <2>2. NamedAfter BY DEF FunsInv
  <2>3. \A v \in Originals : Fun(funs', v).of = v /\ Fun(funs', v).name = Fun(mod, v).name
    BY <1>9, <2>1, <2>2 DEF NamedAfter
  <2>4. \A c \in Clones :
          /\ Fun(funs', c).context \in Contextual
          /\ Fun(funs', c).name = CloneName(Fun(mod, Fun(funs', c).of).name, Fun(funs', c).context)
    BY <1>9, <2>1, <2>2 DEF NamedAfter
  <2> QED BY <1>8, <2>3, <2>4 DEF NamedAfter
<1>12. SameProgram'
  <2>1. \A inst \in Numbers(funs) \cup {External, Load, Plain} :
            Original(funs', inst) = Original(funs, inst)
    BY <1>9 DEF Original, IsCall
  <2>2. Original(funs, clone) = Fun(funs, clone).of
    BY <1>2, InstsAssumption DEF Original, IsCall
  <2>3. ASSUME NEW v \in Numbers(funs), NEW j \in 1 .. Len(Fun(funs, v).body)
        PROVE  Original(funs', Fun(funs', v).body[j]) = Fun(mod, Fun(funs, v).of).body[j]
    <3>1. CASE v = fun /\ j = k
      <4>1. Fun(funs', v).body[j] = clone BY <1>9, <3>1
      <4> QED BY <1>2, <2>1, <2>2, <3>1, <4>1
    <3>2. CASE ~(v = fun /\ j = k)
      <4>1. Fun(funs', v).body[j] = Fun(funs, v).body[j] BY <1>9, <3>2
      <4>2. Original(funs, Fun(funs, v).body[j]) = Fun(mod, Fun(funs, v).of).body[j]
            /\ Fun(funs, v).body[j] \in Numbers(funs) \cup {External, Load, Plain}
        BY FunFacts
      <4> QED BY <2>1, <4>1, <4>2
    <3> QED BY <3>1, <3>2
  <2>4. \A v \in Numbers(funs) :
            /\ Len(Fun(mod, Fun(funs, v).of).body) = Len(Fun(funs, v).body)
            /\ DOMAIN Fun(mod, Fun(funs, v).of).body = 1 .. Len(Fun(funs, v).body)
    <3>1. \A v \in Numbers(funs) :
             Fun(mod, Fun(funs, v).of).body \in Seq(Originals \cup {External, Load, Plain})
      BY FunFacts, ModuleFacts DEF Originals
    <3> QED BY <3>1, FunFacts, LenProperties
  <2>5. ASSUME NEW v \in Numbers(funs)
        PROVE  LET target == Fun(mod, Fun(funs', v).of).body
               IN  /\ Len(Fun(funs', v).body) = Len(target)
                   /\ \A j \in DOMAIN target : Original(funs', Fun(funs', v).body[j]) = target[j]
    <3>1. /\ Fun(funs', v).of = Fun(funs, v).of
          /\ Len(Fun(funs', v).body) = Len(Fun(funs, v).body)
      BY <1>9
    <3> QED BY <2>3, <2>4, <3>1
  <2> QED BY <1>8, <2>5 DEF SameProgram
<1>13. \A v \in Numbers(funs) : v # fun => Fun(funs', v) = Fun(funs, v) BY <1>7
<1> HIDE DEF old, body
<1> QED BY <1>6, <1>9, <1>10, <1>11, <1>12, <1>13 DEF FunsInv

(***************************************************************************)
(* A clone that is appended to the module.                                 *)
(***************************************************************************)
LEMMA Appending ==
    ASSUME FunsInv, NEW callee \in Originals, NEW context \in Contextual,
           funs' = Append(funs, [Fun(funs, callee) EXCEPT
                       !.name = CloneName(Fun(mod, callee).name, context),
                       !.of = callee, !.context = context]),
           mod' = mod
    PROVE  /\ FunsInv'
           /\ Len(funs') = Len(funs) + 1
           /\ \A v \in Numbers(funs) : Fun(funs', v) = Fun(funs, v)
           /\ Fun(funs', Len(funs)).of = callee
           /\ Fun(funs', Len(funs)).kind = Fun(funs, callee).kind
           /\ Fun(funs', Len(funs)).context = context
           /\ Fun(funs', Len(funs)).body = Fun(funs, callee).body
<1> DEFINE old == Fun(funs, callee)
           name == CloneName(Fun(mod, callee).name, context)
           new  == [old EXCEPT !.name = name, !.of = callee, !.context = context]
<1>1. /\ old \in FunRecords /\ callee \in Nat /\ old.of = callee /\ callee \in Numbers(funs)
      /\ V \in Nat /\ Len(funs) \in Nat /\ V <= Len(funs) /\ funs \in Seq(FunRecords)
      /\ context \in Seq(Nat)
  <2>1. callee \in Numbers(funs) /\ callee \in Nat BY FunFacts
  <2>2. old \in FunRecords BY <2>1, FunFacts
  <2>3. old.of = callee BY DEF NamedAfter, FunsInv
  <2>4. V \in Nat /\ Len(funs) \in Nat /\ V <= Len(funs) BY FunFacts
  <2> QED BY <2>1, <2>2, <2>3, <2>4 DEF FunsInv, FunsTyped, Contextual
<1>2. name \in CloneNames
  <2> DEFINE given == Fun(mod, callee).name
  <2>1. given = [base |-> given.base, pieces |-> given.pieces] /\ given.pieces \in Pieces
    BY ModuleFacts, FunFacts DEF Originals
  <2>2. CloneName(given, context) = [base |-> given.base, pieces |-> given.pieces \o context \o <<Empty>>]
    BY <2>1, CloneNameIs
  <2>3. given.pieces \o context \o <<Empty>> \in Pieces BY <2>1, PiecesOfClone
  <2> QED BY <2>2, <2>3 DEF CloneNames, Pieces
<1>3. /\ new \in FunRecords
      /\ new.of = callee /\ new.name = name /\ new.context = context /\ new.body = old.body
      /\ new.kind = old.kind
  <2> HIDE DEF old, name
  <2> QED BY <1>1, <1>2 DEF FunRecords
<1> HIDE DEF new
<1>4. /\ funs' \in Seq(FunRecords)
      /\ Len(funs') = Len(funs) + 1
      /\ \A i \in 1 .. Len(funs) : funs'[i] = funs[i]
      /\ funs'[Len(funs) + 1] = new
  BY <1>1, <1>3 DEF new
<1>5. /\ \A v \in Numbers(funs) : Fun(funs', v) = Fun(funs, v)
      /\ Fun(funs', Len(funs)) = new
  BY <1>1, <1>4, FunFacts DEF Fun
<1>6. /\ Numbers(funs') = Numbers(funs) \cup {Len(funs)} /\ Numbers(funs)' = Numbers(funs')
      /\ Originals' = Originals /\ V' = V /\ Clones' = Clones \cup {Len(funs)}
      /\ Len(funs) \notin Originals
  <2>1. Numbers(funs') = 0 .. Len(funs) BY <1>1, <1>4 DEF Numbers
  <2>2. Originals' = Originals /\ V' = V BY DEF Originals, V
  <2> QED BY <1>1, <2>1, <2>2, FunFacts DEF Clones
<1>7. FunsTyped'
  <2>1. FunRecords' = FunRecords BY <1>6 DEF FunRecords, CloneNames
  <2>2. \A v \in Numbers(funs') : Fun(funs', v).of \in Originals
    BY <1>3, <1>5, <1>6, FunFacts
  <2>3. \A k \in 1 .. Len(old.body) : old.body[k] \in Numbers(funs) \cup {External, Load, Plain}
    BY <1>1, FunFacts
  <2>4. \A v \in Numbers(funs') : \A k \in 1 .. Len(Fun(funs', v).body) :
            Fun(funs', v).body[k] \in Numbers(funs') \cup {External, Load, Plain}
    <3> HIDE DEF old
    <3>1. \A v \in Numbers(funs) : \A k \in 1 .. Len(Fun(funs, v).body) :
             Fun(funs, v).body[k] \in Numbers(funs) \cup {External, Load, Plain}
      BY FunFacts
    <3> QED BY <1>3, <1>5, <1>6, <2>3, <3>1
  <2> QED BY <1>1, <1>4, <1>6, <2>1, <2>2, <2>4 DEF FunsTyped, FunsInv
<1>8. NamedAfter'
  <2>1. Originals \subseteq Numbers(funs) /\ Clones \subseteq Numbers(funs)
    BY FunFacts
  <2> HIDE DEF name
  <2>2. \A v \in Originals : Fun(funs', v).of = v /\ Fun(funs', v).name = Fun(mod, v).name
    BY <1>5, <2>1 DEF NamedAfter, FunsInv
  <2>3. \A c \in Clones \cup {Len(funs)} :
          /\ Fun(funs', c).context \in Contextual
          /\ Fun(funs', c).name = CloneName(Fun(mod, Fun(funs', c).of).name, Fun(funs', c).context)
    BY <1>1, <1>3, <1>5, <2>1 DEF NamedAfter, FunsInv, name
  <2> QED BY <1>6, <2>2, <2>3 DEF NamedAfter
<1>9. SameProgram'
  <2>1. \A inst \in Numbers(funs) \cup {External, Load, Plain} :
            Original(funs', inst) = Original(funs, inst)
    BY <1>5 DEF Original, IsCall
  <2>2. ASSUME NEW v \in Numbers(funs)
        PROVE  LET target == Fun(mod, Fun(funs, v).of).body
               IN  /\ Len(Fun(funs, v).body) = Len(target)
                   /\ \A k \in DOMAIN target : Original(funs', Fun(funs, v).body[k]) = target[k]
    <3>1. Fun(mod, Fun(funs, v).of).body \in Seq(Originals \cup {External, Load, Plain})
      BY FunFacts, ModuleFacts DEF Originals
    <3>2. DOMAIN Fun(mod, Fun(funs, v).of).body = 1 .. Len(Fun(funs, v).body)
      BY <3>1, FunFacts, LenProperties
    <3>3. \A k \in 1 .. Len(Fun(funs, v).body) :
             /\ Fun(funs, v).body[k] \in Numbers(funs) \cup {External, Load, Plain}
             /\ Original(funs, Fun(funs, v).body[k]) = Fun(mod, Fun(funs, v).of).body[k]
      BY FunFacts
    <3>4. Len(Fun(mod, Fun(funs, v).of).body) = Len(Fun(funs, v).body) BY FunFacts
    <3> QED BY <2>1, <3>2, <3>3, <3>4
  <2>3. \A v \in Numbers(funs') :
            \E u \in Numbers(funs) : Fun(funs', v).body = Fun(funs, u).body /\ Fun(funs', v).of = Fun(funs, u).of
    <3>1. /\ callee \in Numbers(funs)
          /\ Fun(funs', Len(funs)).body = Fun(funs, callee).body
          /\ Fun(funs', Len(funs)).of = Fun(funs, callee).of
      BY <1>1, <1>3, <1>5
    <3> QED BY <1>5, <1>6, <3>1
  <2>4. ASSUME NEW v \in Numbers(funs')
        PROVE  LET target == Fun(mod, Fun(funs', v).of).body
               IN  /\ Len(Fun(funs', v).body) = Len(target)
                   /\ \A k \in DOMAIN target : Original(funs', Fun(funs', v).body[k]) = target[k]
    BY <2>2, <2>3
  <2> QED BY <1>6, <2>4 DEF SameProgram
<1> HIDE DEF name
<1> QED BY <1>3, <1>4, <1>5, <1>7, <1>8, <1>9 DEF FunsInv

-----------------------------------------------------------------------------
(* The walks.                                                              *)
LEMMA WalkFacts ==
    ASSUME CloneInv, NEW n \in 1 .. Len(walks)
    PROVE  /\ Len(walks) \in Nat
           /\ DOMAIN walks = 1 .. Len(walks)
           /\ walks[n] = [fun |-> walks[n].fun, k |-> walks[n].k, ic |-> walks[n].ic]
           /\ walks[n].fun \in Numbers(funs)
           /\ walks[n].k \in Nat \ {0} /\ walks[n].ic \in Nat
           /\ walks[n].k <= Len(Fun(funs, walks[n].fun).body) + 1
           /\ walks[n].ic <= walks[n].k - 1
           /\ n = 1 => walks[n].fun \in MainOf(mod)
           /\ n # 1 => walks[n].fun \in Clones
<1> USE DEF CloneInv
<1>1. /\ Len(walks) \in Nat /\ DOMAIN walks = 1 .. Len(walks)
      /\ walks[n] \in [fun : Nat, k : Nat, ic : Nat]
  BY LenProperties, ElementOfSeq DEF WalksTyped
<1>2. Len(Fun(funs, walks[n].fun).body) \in Nat BY <1>1, FunFacts DEF WalksTyped
<1>3. walks[n] = [fun |-> walks[n].fun, k |-> walks[n].k, ic |-> walks[n].ic] BY <1>1
<1>4. /\ walks[n].fun \in Numbers(funs)
      /\ walks[n].k \in 1 .. Len(Fun(funs, walks[n].fun).body) + 1
      /\ walks[n].ic \in 0 .. walks[n].k - 1
      /\ n = 1 => walks[n].fun \in MainOf(mod)
      /\ n # 1 => walks[n].fun \in Clones
  BY <1>1 DEF WalksTyped
<1>5. /\ walks[n].k \in Nat \ {0}
      /\ walks[n].k <= Len(Fun(funs, walks[n].fun).body) + 1
  BY <1>2, <1>4
<1>6. walks[n].ic \in Nat /\ walks[n].ic <= walks[n].k - 1 BY <1>4, <1>5
<1> QED BY <1>1, <1>3, <1>4, <1>5, <1>6

LEMMA WalkingFacts ==
    ASSUME CloneInv, Walking
    PROVE  /\ pc = "clone"
           /\ Len(walks) \in 1 .. Len(walks) /\ Len(walks) \in Nat
           /\ Walk.fun \in Numbers(funs)
           /\ Len(Self.body) \in Nat
           /\ ~AtEnd => /\ Walk.k \in 1 .. Len(Self.body)
                        /\ Inst \in Numbers(funs) \cup {External, Load, Plain}
                        /\ Original(funs, Inst) = Fun(mod, Self.of).body[Walk.k]
<1>1. Len(walks) \in Nat /\ Len(walks) # 0
  BY LenProperties DEF CloneInv, WalksTyped, Walking
<1>2. Len(walks) \in 1 .. Len(walks) BY <1>1
<1>3. /\ Walk.fun \in Numbers(funs) /\ Walk.k \in Nat \ {0} /\ Walk.k <= Len(Self.body) + 1
  BY <1>2, WalkFacts DEF Walk, Self
<1>4. Len(Self.body) \in Nat BY <1>3, FunFacts DEF CloneInv, Self
<1>5. ~AtEnd => Walk.k \in 1 .. Len(Self.body) BY <1>3, <1>4 DEF AtEnd
<1>6. ~AtEnd => /\ Inst \in Numbers(funs) \cup {External, Load, Plain}
                /\ Original(funs, Inst) = Fun(mod, Self.of).body[Walk.k]
  BY <1>3, <1>5, FunFacts DEF CloneInv, Self, Inst
<1> QED BY <1>1, <1>2, <1>3, <1>4, <1>5, <1>6 DEF Walking

(* A walk n moves on, and the walks above it are gone.                     *)
MovesOn(n, counted) ==
    /\ Len(walks') = n
    /\ walks' \in Seq([fun : Nat, k : Nat, ic : Nat])
    /\ \A i \in 1 .. n - 1 : walks'[i] = walks[i]
    /\ walks'[n] = [fun |-> walks[n].fun, k |-> walks[n].k + 1, ic |-> walks[n].ic + counted]

LEMMA StepIs ==
    ASSUME NEW walk \in [fun : Nat, k : Nat, ic : Nat], NEW counted \in {0, 1}
    PROVE  /\ Step(walk, counted) = [fun |-> walk.fun, k |-> walk.k + 1, ic |-> walk.ic + counted]
           /\ Step(walk, counted) \in [fun : Nat, k : Nat, ic : Nat]
<1> DEFINE a == walk.k + 1
           b == walk.ic + counted
           new == [walk EXCEPT !.k = a, !.ic = b]
<1>1. Step(walk, counted) = new BY DEF Step
<1>2. walk.fun \in Nat /\ a \in Nat /\ b \in Nat OBVIOUS
<1> HIDE DEF a, b
<1>3. new \in [fun : Nat, k : Nat, ic : Nat] /\ new.fun = walk.fun /\ new.k = a /\ new.ic = b
  BY <1>2
<1> HIDE DEF new
<1>4. new = [fun |-> new.fun, k |-> new.k, ic |-> new.ic] BY <1>3
<1> QED BY <1>1, <1>3, <1>4 DEF a, b

LEMMA StepMovesOn ==
    ASSUME CloneInv, NEW n \in 1 .. Len(walks), NEW counted \in {0, 1},
           \/ n = Len(walks) /\ Advance(counted)
           \/ n = Len(walks) - 1
              /\ walks' = Append(SubSeq(walks, 1, n - 1), Step(walks[n], counted))
    PROVE  MovesOn(n, counted)
<1> DEFINE S == [fun : Nat, k : Nat, ic : Nat]
           moved == Step(walks[n], counted)
<1>1. /\ walks \in Seq(S) /\ Len(walks) \in Nat /\ n \in Nat \ {0}
  BY WalkFacts DEF CloneInv, WalksTyped
<1>2. /\ moved = [fun |-> walks[n].fun, k |-> walks[n].k + 1, ic |-> walks[n].ic + counted]
      /\ moved \in S
  <2>1. \A i \in 1 .. Len(walks) : walks[i] \in S BY <1>1, ElementOfSeq
  <2>2. walks[n] \in S BY <2>1
  <2> QED BY <2>2, StepIs
<1> HIDE DEF moved
<1>3. CASE n = Len(walks) /\ Advance(counted)
  <2>1. walks' = [walks EXCEPT ![n] = moved] BY <1>3 DEF Advance, moved
  <2> HIDE DEF S
  <2>2. /\ walks' \in Seq(S) /\ Len(walks') = Len(walks)
        /\ \A i \in 1 .. Len(walks) : walks'[i] = IF i = n THEN moved ELSE walks[i]
    BY <1>1, <1>2, <2>1, ExceptSeq
  <2>3. \A i \in 1 .. n - 1 : i \in 1 .. Len(walks) /\ i # n BY <1>1, <1>3
  <2> QED BY <1>2, <1>3, <2>2, <2>3 DEF MovesOn, S
<1>4. CASE n = Len(walks) - 1
           /\ walks' = Append(SubSeq(walks, 1, n - 1), Step(walks[n], counted))
  <2> DEFINE front == SubSeq(walks, 1, n - 1)
  <2>1. \A i \in 1 .. n - 1 : walks[i] \in S
    <3>1. \A i \in 1 .. n - 1 : i \in 1 .. Len(walks) BY <1>1, <1>4
    <3> QED BY <1>1, <3>1, ElementOfSeq
  <2>2. /\ front \in Seq(S) /\ Len(front) = n - 1
        /\ \A i \in 1 .. n - 1 : front[i] = walks[i]
    <3> HIDE DEF S
    <3>1. 1 \in Int /\ n - 1 \in Int BY <1>1
    <3>2. /\ front \in Seq(S) /\ Len(front) = IF 1 <= n - 1 THEN n - 1 - 1 + 1 ELSE 0
          /\ \A i \in 1 .. n - 1 - 1 + 1 : front[i] = walks[1 + i - 1]
      BY <2>1, <3>1, SubSeqProperties
    <3> QED BY <1>1, <3>2
  <2> HIDE DEF front
  <2>3. walks' = Append(front, moved) BY <1>4 DEF front, moved
  <2> HIDE DEF S
  <2>4. /\ walks' \in Seq(S) /\ Len(walks') = n
        /\ \A i \in 1 .. n - 1 : walks'[i] = front[i]
        /\ walks'[n] = moved
    BY <1>1, <1>2, <2>2, <2>3
  <2> QED BY <1>2, <2>2, <2>4 DEF MovesOn, S
<1> QED BY <1>3, <1>4

LEMMA Counting ==
    ASSUME NEW k \in Nat \ {0}, NEW ic \in Nat, ic <= k - 1, NEW counted \in {0, 1}, NEW len \in Nat
    PROVE  /\ k <= len => k + 1 \in 1 .. len + 1
           /\ k <= len + 1 => k \in 1 .. len + 1
           /\ ic + counted \in 0 .. (k + 1) - 1
           /\ ic \in 0 .. k - 1
OBVIOUS

(***************************************************************************)
(* A step that moves walk n on, past the instruction at k, which is left   *)
(* as it is or redirected, keeps the invariant if the walks above n are at *)
(* their end.                                                              *)
(***************************************************************************)
LEMMA MovingWalksTyped ==
    ASSUME CloneInv, NEW n \in 1 .. Len(walks), NEW counted \in {0, 1}, MovesOn(n, counted),
           walks[n].k <= Len(Fun(funs, walks[n].fun).body),
           mod' = mod, Len(funs') = Len(funs),
           \A v \in Numbers(funs) : /\ Fun(funs', v).of = Fun(funs, v).of
                                    /\ Len(Fun(funs', v).body) = Len(Fun(funs, v).body)
    PROVE  /\ WalksTyped' /\ WalksWait'
           /\ DOMAIN walks' = 1 .. n
           /\ \A i \in 1 .. n : i \in 1 .. Len(walks) /\ walks'[i].fun = walks[i].fun
           /\ \A i \in 1 .. n : walks'[i].k = IF i = n THEN walks[i].k + 1 ELSE walks[i].k
<1>1. /\ Len(walks) \in Nat /\ n \in Nat
      /\ \A i \in 1 .. n : i \in 1 .. Len(walks)
      /\ DOMAIN walks' = 1 .. n
      /\ DOMAIN walks = 1 .. Len(walks)
  <2>1. Len(walks) \in Nat /\ DOMAIN walks = 1 .. Len(walks) BY WalkFacts
  <2>2. DOMAIN walks' = 1 .. Len(walks') BY LenProperties DEF MovesOn
  <2> QED BY <2>1, <2>2 DEF MovesOn
<1>2. \A i \in 1 .. n : /\ walks'[i].fun = walks[i].fun
                        /\ walks'[i].k = IF i = n THEN walks[i].k + 1 ELSE walks[i].k
                        /\ walks'[i].ic = IF i = n THEN walks[i].ic + counted ELSE walks[i].ic
  <2> SUFFICES ASSUME NEW i \in 1 .. n
               PROVE  /\ walks'[i].fun = walks[i].fun
                      /\ walks'[i].k = IF i = n THEN walks[i].k + 1 ELSE walks[i].k
                      /\ walks'[i].ic = IF i = n THEN walks[i].ic + counted ELSE walks[i].ic
    OBVIOUS
  <2>1. CASE i = n BY <2>1 DEF MovesOn
  <2>2. CASE i # n
    <3>1. i \in 1 .. n - 1 BY <1>1, <2>2
    <3> QED BY <2>2, <3>1 DEF MovesOn
  <2> QED BY <2>1, <2>2
<1>3. /\ Numbers(funs)' = Numbers(funs) /\ Clones' = Clones /\ MainOf(mod)' = MainOf(mod)
  BY DEF Numbers, Clones, Originals, MainOf, Named, Fun
<1>4. ASSUME NEW i \in 1 .. n
      PROVE  /\ walks[i].fun \in Numbers(funs)
             /\ walks'[i].k \in 1 .. Len(Fun(funs', walks[i].fun).body) + 1
             /\ walks'[i].ic \in 0 .. walks'[i].k - 1
             /\ i = 1 => walks[i].fun \in MainOf(mod)
             /\ i # 1 => walks[i].fun \in Clones
  <2>1. /\ walks[i].fun \in Numbers(funs)
        /\ walks[i].k \in Nat \ {0} /\ walks[i].ic \in Nat
        /\ walks[i].k <= Len(Fun(funs, walks[i].fun).body) + 1
        /\ walks[i].ic <= walks[i].k - 1
        /\ i = 1 => walks[i].fun \in MainOf(mod)
        /\ i # 1 => walks[i].fun \in Clones
    BY <1>1, WalkFacts
  <2>2. Len(Fun(funs', walks[i].fun).body) = Len(Fun(funs, walks[i].fun).body) BY <2>1
  <2>3. Len(Fun(funs, walks[i].fun).body) \in Nat BY <2>1, FunFacts DEF CloneInv
  <2>4. /\ walks'[i].k \in 1 .. Len(Fun(funs, walks[i].fun).body) + 1
        /\ walks'[i].ic \in 0 .. walks'[i].k - 1
    <3>1. CASE i = n
      <4>1. walks'[i].k = walks[i].k + 1 /\ walks'[i].ic = walks[i].ic + counted BY <1>2, <3>1
      <4>2. walks[i].k <= Len(Fun(funs, walks[i].fun).body) BY <3>1
      <4>3. walks[i].k \in Nat \ {0} /\ walks[i].ic \in Nat /\ walks[i].ic <= walks[i].k - 1
        BY <2>1
      <4>4. /\ walks[i].k + 1 \in 1 .. Len(Fun(funs, walks[i].fun).body) + 1
            /\ walks[i].ic + counted \in 0 .. (walks[i].k + 1) - 1
        BY <2>3, <4>2, <4>3, Counting
      <4> QED BY <4>1, <4>4
    <3>2. CASE i # n
      <4>1. walks'[i].k = walks[i].k /\ walks'[i].ic = walks[i].ic BY <1>2, <3>2
      <4> QED BY <2>1, <2>3, <4>1, Counting
    <3> QED BY <3>1, <3>2
  <2> QED BY <2>1, <2>2, <2>4
<1>5. WalksTyped'
  <2>1. walks' \in Seq([fun : Nat, k : Nat, ic : Nat]) BY DEF MovesOn
  <2>2. \A i \in DOMAIN walks' :
          /\ walks'[i].fun \in Numbers(funs)'
          /\ walks'[i].k \in 1 .. Len(Fun(funs', walks'[i].fun).body) + 1
          /\ walks'[i].ic \in 0 .. walks'[i].k - 1
          /\ i = 1 => walks'[i].fun \in MainOf(mod)'
          /\ i # 1 => walks'[i].fun \in Clones'
    BY <1>1, <1>2, <1>3, <1>4
  <2>3. \A i, j \in DOMAIN walks' : walks'[i].fun = walks'[j].fun => i = j
    <3>1. \A i, j \in DOMAIN walks : walks[i].fun = walks[j].fun => i = j
      BY DEF CloneInv, WalksTyped
    <3> QED BY <1>1, <1>2, <3>1
  <2> QED BY <2>1, <2>2, <2>3 DEF WalksTyped
<1>6. WalksWait'
  <2> SUFFICES ASSUME NEW i \in 1 .. Len(walks') - 1
               PROVE  /\ walks'[i].k <= Len(Fun(funs', walks'[i].fun).body)
                      /\ Fun(mod, Fun(funs', walks'[i].fun).of).body[walks'[i].k]
                            = Fun(funs', walks'[i + 1].fun).of
    BY DEF WalksWait
  <2>1. /\ i \in 1 .. n /\ i # n /\ i + 1 \in 1 .. n /\ i \in 1 .. Len(walks) - 1
    BY <1>1 DEF MovesOn
  <2>2. /\ walks[i].k <= Len(Fun(funs, walks[i].fun).body)
        /\ Fun(mod, Fun(funs, walks[i].fun).of).body[walks[i].k] = Fun(funs, walks[i + 1].fun).of
    BY <2>1 DEF CloneInv, WalksWait
  <2>3. /\ walks'[i].fun = walks[i].fun /\ walks'[i].k = walks[i].k
        /\ walks'[i + 1].fun = walks[i + 1].fun
        /\ walks[i].fun \in Numbers(funs) /\ walks[i + 1].fun \in Numbers(funs)
    BY <1>2, <1>4, <2>1
  <2> QED BY <2>2, <2>3
<1> QED BY <1>1, <1>2, <1>5, <1>6

(* The instruction is left as it is.                                       *)
LEMMA Advancing ==
    ASSUME CloneInv, Walking, ~AtEnd, NEW counted \in {0, 1}, Advance(counted),
           fullClone => ~(IsCall(Inst) /\ IsDefined(funs, Inst)),
           UNCHANGED <<mod, fullClone, funs, pc>>
    PROVE  CloneInv'
<1> DEFINE n == Len(walks)
<1>1. /\ n \in 1 .. Len(walks) /\ n \in Nat /\ pc = "clone"
      /\ walks[n].k <= Len(Fun(funs, walks[n].fun).body)
  <2>1. Walk.k \in 1 .. Len(Self.body) /\ Len(Self.body) \in Nat BY WalkingFacts
  <2> QED BY <2>1, WalkingFacts DEF Self, Walk
<1>2. MovesOn(n, counted) BY <1>1, StepMovesOn
<1> HIDE DEF n
<1>3. /\ WalksTyped' /\ WalksWait'
      /\ DOMAIN walks' = 1 .. n
      /\ \A i \in 1 .. n : i \in 1 .. Len(walks) /\ walks'[i].fun = walks[i].fun
      /\ \A i \in 1 .. n : walks'[i].k = IF i = n THEN walks[i].k + 1 ELSE walks[i].k
  BY <1>1, <1>2, MovingWalksTyped
<1>4. FunsInv' /\ OriginalsKept' /\ Phases' /\ LookupsKnown'
  <2>1. FunsTyped' /\ NamedAfter' /\ SameProgram' /\ OriginalsKept'
    <3>1. FunsInv' BY FunsUnchanged DEF CloneInv
    <3>2. OriginalsKept' BY DEF CloneInv, OriginalsKept, Originals, MainOf, Named
    <3> QED BY <3>1, <3>2 DEF FunsInv
  <2>2. Phases' /\ LookupsKnown' BY <1>1 DEF Phases, LookupsKnown
  <2> QED BY <2>1, <2>2 DEF FunsInv
<1>5. Ahead'
  <2> SUFFICES ASSUME NEW i \in DOMAIN walks', i = 1 \/ ~MainIsCalled(mod)',
                      NEW k \in walks'[i].k .. Len(Fun(funs', walks'[i].fun).body)
               PROVE  Fun(funs', walks'[i].fun).body[k]
                        = Fun(mod, Fun(funs', walks'[i].fun).of).body[k]
    BY DEF Ahead
  <2>1. i \in 1 .. n /\ i \in 1 .. Len(walks) BY <1>3
  <2>2. walks'[i].fun = walks[i].fun /\ (walks'[i].k = walks[i].k \/ walks'[i].k = walks[i].k + 1)
    BY <1>3, <2>1
  <2>3. walks[i].k \in Nat /\ Len(Fun(funs, walks[i].fun).body) \in Nat /\ i \in DOMAIN walks
    BY <2>1, WalkFacts, FunFacts DEF CloneInv
  <2>4. k \in walks[i].k .. Len(Fun(funs, walks[i].fun).body) BY <2>2, <2>3
  <2>5. i = 1 \/ ~MainIsCalled(mod) OBVIOUS
  <2> QED BY <2>2, <2>3, <2>4, <2>5 DEF CloneInv, Ahead
<1>6. Redirected'
  <2> SUFFICES ASSUME fullClone, NEW v \in MainOf(mod) \cup Clones,
                      NEW k \in 1 .. Len(Fun(funs, v).body),
                      IsCall(Fun(funs, v).body[k]), IsDefined(funs, Fun(funs, v).body[k]),
                      Fun(funs, v).body[k] \notin Clones
               PROVE  Pending(v, k)'
    BY DEF Redirected, RedirectedAt, Clones, Originals, MainOf, Named
  <2>1. Pending(v, k) BY <1>1 DEF CloneInv, Redirected, RedirectedAt
  <2>2. PICK i \in DOMAIN walks : walks[i].fun = v /\ walks[i].k <= k BY <2>1 DEF Pending
  <2>3. i \in 1 .. Len(walks) /\ i \in 1 .. n BY <1>1, <2>2, WalkFacts DEF n
  <2>4. ~(i = n /\ walks[i].k = k)
    BY <2>2 DEF Self, Walk, Inst, n
  <2>5. v \in Numbers(funs) /\ k \in Nat BY <2>2, <2>3, WalkFacts, FunFacts DEF CloneInv
  <2>6. walks[i].k \in Nat BY <2>3, WalkFacts
  <2>7. walks'[i].k <= k /\ walks'[i].fun = v BY <1>3, <2>2, <2>3, <2>4, <2>5, <2>6
  <2> QED BY <1>3, <2>3, <2>7 DEF Pending
<1> QED BY <1>3, <1>4, <1>5, <1>6 DEF CloneInv

(* The call at which walk n stands is redirected.                          *)
LEMMA RedirectingMoves ==
    ASSUME CloneInv, Walking, NEW n \in 1 .. Len(walks), NEW clone \in Clones,
           walks[n].k <= Len(Fun(funs, walks[n].fun).body),
           Fun(mod, Fun(funs, walks[n].fun).of).body[walks[n].k] = Fun(funs, clone).of,
           \A i \in n + 1 .. Len(walks) : walks[i].k > Len(Fun(funs, walks[i].fun).body),
           funs' = SetCalledFunction(funs, walks[n].fun, walks[n].k, clone),
           MovesOn(n, 1), UNCHANGED <<mod, fullClone, pc>>
    PROVE  CloneInv'
<1> DEFINE fun == walks[n].fun
           at  == walks[n].k
<1>1. /\ fun \in Numbers(funs) /\ at \in 1 .. Len(Fun(funs, fun).body) /\ at \in Nat
      /\ n = 1 => fun \in MainOf(mod)
      /\ n # 1 => fun \in Clones
      /\ pc = "clone"
  <2>1. /\ fun \in Numbers(funs) /\ at \in Nat \ {0}
        /\ n = 1 => fun \in MainOf(mod)
        /\ n # 1 => fun \in Clones
    BY WalkFacts
  <2>2. Len(Fun(funs, fun).body) \in Nat BY <2>1, FunFacts DEF CloneInv
  <2> QED BY <2>1, <2>2 DEF Walking
<1> HIDE DEF fun, at
<1>2. /\ FunsInv'
      /\ Len(funs') = Len(funs)
      /\ \A v \in Numbers(funs) :
            /\ Fun(funs', v).of = Fun(funs, v).of
            /\ Fun(funs', v).kind = Fun(funs, v).kind
            /\ v # fun => Fun(funs', v) = Fun(funs, v)
            /\ Len(Fun(funs', v).body) = Len(Fun(funs, v).body)
      /\ \A j \in 1 .. Len(Fun(funs, fun).body) :
            Fun(funs', fun).body[j] = IF j = at THEN clone ELSE Fun(funs, fun).body[j]
  <2>1. Fun(mod, Fun(funs, fun).of).body[at] = Fun(funs, clone).of BY DEF fun, at
  <2>2. funs' = SetCalledFunction(funs, fun, at, clone) BY DEF fun, at
  <2>3. FunsInv BY DEF CloneInv
  <2> QED BY <1>1, <2>1, <2>2, <2>3, Redirecting
<1>3. /\ WalksTyped' /\ WalksWait'
      /\ DOMAIN walks' = 1 .. n
      /\ \A i \in 1 .. n : i \in 1 .. Len(walks) /\ walks'[i].fun = walks[i].fun
      /\ \A i \in 1 .. n : walks'[i].k = IF i = n THEN walks[i].k + 1 ELSE walks[i].k
  BY <1>2, MovingWalksTyped
<1>4. /\ Numbers(funs') = Numbers(funs) /\ Clones' = Clones /\ MainOf(mod)' = MainOf(mod)
      /\ Originals' = Originals /\ Len(walks) \in Nat /\ DOMAIN walks = 1 .. Len(walks)
      /\ Originals \cap Clones = {} /\ MainOf(mod) \subseteq Originals
      /\ Originals \subseteq Numbers(funs) /\ Clones \subseteq Numbers(funs)
  <2>1. Numbers(funs') = Numbers(funs) BY <1>2 DEF Numbers
  <2>2. Originals' = Originals /\ MainOf(mod)' = MainOf(mod) BY DEF Originals, MainOf, Named
  <2>3. Clones' = Clones BY <2>1, <2>2 DEF Clones
  <2>4. /\ Originals \cap Clones = {} /\ MainOf(mod) \subseteq Originals
        /\ Originals \subseteq Numbers(funs) /\ Clones \subseteq Numbers(funs)
    BY FunFacts DEF Clones, CloneInv
  <2> QED BY <2>1, <2>2, <2>3, <2>4, WalkFacts
<1>5. OriginalsKept'
  <2> SUFFICES ASSUME NEW v \in Originals, v \notin MainOf(mod)
               PROVE  Fun(funs', v).body = Fun(mod, v).body
    BY <1>1, <1>4 DEF OriginalsKept
  <2>1. v # fun /\ v \in Numbers(funs) BY <1>1, <1>4
  <2> QED BY <1>2, <2>1 DEF CloneInv, OriginalsKept
<1>6. Ahead'
  <2> SUFFICES ASSUME NEW i \in DOMAIN walks', i = 1 \/ ~MainIsCalled(mod)',
                      NEW k \in walks'[i].k .. Len(Fun(funs', walks'[i].fun).body)
               PROVE  Fun(funs', walks'[i].fun).body[k]
                        = Fun(mod, Fun(funs', walks'[i].fun).of).body[k]
    BY DEF Ahead
  <2>1. i \in 1 .. n /\ i \in 1 .. Len(walks) /\ i \in DOMAIN walks BY <1>3, <1>4
  <2>2. walks'[i].fun = walks[i].fun /\ walks'[i].k = IF i = n THEN walks[i].k + 1 ELSE walks[i].k
    BY <1>3, <2>1
  <2>3. /\ walks[i].k \in Nat /\ walks[i].k # 0 /\ walks[i].fun \in Numbers(funs)
        /\ Len(Fun(funs, walks[i].fun).body) \in Nat
        /\ Len(Fun(funs', walks[i].fun).body) = Len(Fun(funs, walks[i].fun).body)
        /\ Fun(funs', walks[i].fun).of = Fun(funs, walks[i].fun).of
    BY <1>2, <2>1, WalkFacts, FunFacts DEF CloneInv
  <2>4. k \in walks[i].k .. Len(Fun(funs, walks[i].fun).body) BY <2>2, <2>3
  <2>5. i = 1 \/ ~MainIsCalled(mod) OBVIOUS
  <2>6. Fun(funs, walks[i].fun).body[k] = Fun(mod, Fun(funs, walks[i].fun).of).body[k]
    BY <2>1, <2>4, <2>5 DEF CloneInv, Ahead
  <2>7. Fun(funs', walks[i].fun).body[k] = Fun(funs, walks[i].fun).body[k]
    <3>1. CASE i = n
      <4>1. walks[i].fun = fun /\ k # at /\ k \in 1 .. Len(Fun(funs, fun).body)
        BY <2>2, <2>3, <3>1 DEF fun, at
      <4> QED BY <1>2, <4>1
    <3>2. CASE i # n
      <4>1. walks[i].fun # fun BY <1>4, <2>1, <3>2 DEF CloneInv, WalksTyped, fun
      <4> QED BY <1>2, <2>3, <4>1
    <3> QED BY <3>1, <3>2
  <2> QED BY <2>2, <2>3, <2>6, <2>7
<1>7. Redirected'
  <2>1. \A inst \in Numbers(funs) : IsDefined(funs', inst) <=> IsDefined(funs, inst)
    BY <1>2 DEF IsDefined
  <2> SUFFICES ASSUME fullClone, NEW v \in MainOf(mod) \cup Clones,
                      NEW k \in 1 .. Len(Fun(funs', v).body),
                      IsCall(Fun(funs', v).body[k]), IsDefined(funs', Fun(funs', v).body[k]),
                      Fun(funs', v).body[k] \notin Clones
               PROVE  Pending(v, k)'
    BY <1>4 DEF Redirected, RedirectedAt
  <2>2. v \in Numbers(funs) /\ k \in 1 .. Len(Fun(funs, v).body) /\ k \in Nat
    <3>1. v \in Numbers(funs) BY <1>4
    <3>2. Len(Fun(funs', v).body) = Len(Fun(funs, v).body) BY <1>2, <3>1
    <3>3. Len(Fun(funs, v).body) \in Nat BY <3>1, FunFacts DEF CloneInv
    <3> QED BY <3>1, <3>2, <3>3
  <2>3. /\ ~(v = fun /\ k = at)
        /\ Fun(funs', v).body[k] = Fun(funs, v).body[k]
    BY <1>2, <2>2
  <2>4. Fun(funs, v).body[k] \in Numbers(funs)
    <3>1. Fun(funs, v).body[k] \in Numbers(funs) \cup {External, Load, Plain}
      BY <2>2, FunFacts DEF CloneInv
    <3> QED BY <2>3, <3>1 DEF IsCall, IsDefined
  <2>5. Pending(v, k)
    BY <1>1, <2>1, <2>2, <2>3, <2>4 DEF CloneInv, Redirected, RedirectedAt
  <2>6. PICK i \in DOMAIN walks : walks[i].fun = v /\ walks[i].k <= k BY <2>5 DEF Pending
  <2>7. i \in 1 .. Len(walks) /\ walks[i].k \in Nat BY <1>4, <2>6, WalkFacts
  <2>8. i \in 1 .. n
    <3>1. Len(Fun(funs, v).body) \in Nat BY <2>2, FunFacts DEF CloneInv
    <3> QED BY <1>4, <2>2, <2>6, <2>7, <3>1
  <2>9. ~(i = n /\ walks[i].k = k) BY <2>3, <2>6 DEF fun, at
  <2>10. walks'[i].k <= k /\ walks'[i].fun = v BY <1>3, <2>2, <2>6, <2>7, <2>8, <2>9
  <2> QED BY <1>3, <2>8, <2>10 DEF Pending
<1>8. Phases' /\ LookupsKnown' BY <1>1 DEF Phases, LookupsKnown
<1> QED BY <1>2, <1>3, <1>5, <1>6, <1>7, <1>8 DEF CloneInv

-----------------------------------------------------------------------------
LEMMA EvenPlusTwo ==
    ASSUME NEW x \in Nat, x % 2 = 0
    PROVE  (x + 2) % 2 = 0
OBVIOUS

LEMMA TwoMore ==
    ASSUME NEW c \in Contextual, NEW a \in Nat, NEW b \in Nat
    PROVE  c \o <<a, b>> \in Contextual
<1>1. c \in Seq(Nat) /\ Len(c) \in Nat /\ Len(c) % 2 = 0 BY LenProperties DEF Contextual
<1>2. <<a, b>> \in Seq(Nat) /\ Len(<<a, b>>) = 2 OBVIOUS
<1> DEFINE d == <<a, b>>
<1> HIDE DEF d
<1>3. d \in Seq(Nat) /\ Len(d) = 2 BY <1>2 DEF d
<1>4. c \o d \in Seq(Nat) /\ Len(c \o d) = Len(c) + Len(d)
  <2>1. c \in Seq(Nat) /\ d \in Seq(Nat) BY <1>1, <1>3
  <2> QED BY <2>1, ConcatProperties, Zenon
<1>5. Len(c \o d) = Len(c) + 2 BY <1>3, <1>4
<1>6. Len(c \o d) % 2 = 0 BY <1>1, <1>5, EvenPlusTwo
<1> QED BY <1>4, <1>6 DEF Contextual, d

(* A call that is not left alone is one of a function of the program.      *)
LEMMA CalleeKnown ==
    ASSUME CloneInv, AtCall, InCallGraph, ~LeftAlone
    PROVE  /\ Inst \in Originals
           /\ Fun(mod, Self.of).body[Walk.k] = Inst
           /\ CalleeContext(Inst) \in Contextual
<1>1. /\ Walking /\ Walk.k \in 1 .. Len(Self.body) /\ Walk.fun \in Numbers(funs)
      /\ Inst \in Numbers(funs) \cup {External, Load, Plain}
      /\ Original(funs, Inst) = Fun(mod, Self.of).body[Walk.k]
      /\ Len(walks) \in 1 .. Len(walks) /\ Len(walks) \in Nat
  BY WalkingFacts DEF AtCall
<1>2. /\ IsCall(Inst) /\ Inst # External
  BY DEF AtCall, LeftAlone, IsDefined
<1>3. Inst \in Numbers(funs) BY <1>1, <1>2 DEF IsCall
<1>4. Inst \in Originals
  <2>1. CASE InMain
    <3>1. 1 \in DOMAIN walks /\ Walk = walks[1] BY <1>1, <2>1, WalkFacts DEF InMain, Walk
    <3>2. Walk.k \in Walk.k .. Len(Self.body)
      BY <1>1, FunFacts DEF CloneInv, Self
    <3>3. Inst = Fun(mod, Self.of).body[Walk.k]
      BY <3>1, <3>2 DEF CloneInv, Ahead, Self, Inst
    <3>4. Fun(mod, Self.of).body[Walk.k] \in Originals \cup {External, Load, Plain}
      BY <1>1, FunFacts DEF CloneInv, Self
    <3> QED BY <1>2, <3>3, <3>4 DEF IsCall
  <2>2. CASE ~InMain BY <1>2, <2>2 DEF InCallGraph
  <2> QED BY <2>1, <2>2
<1>5. Original(funs, Inst) = Inst
  BY <1>2, <1>4 DEF Original, CloneInv, FunsInv, NamedAfter
<1>6. /\ Self.of \in Nat /\ Walk.ic \in Nat
      /\ Self.context \in Seq(Nat)
      /\ ~InMain => Self.context \in Contextual
  <2>1. Walk.ic \in Nat BY <1>1, WalkFacts DEF Walk
  <2>2. Self \in FunRecords BY <1>1, FunFacts DEF CloneInv, Self
  <2>3. ~InMain => Walk.fun \in Clones BY <1>1, WalkFacts DEF Walk, InMain
  <2>4. ~InMain => Self.context \in Contextual
    BY <2>3 DEF Self, CloneInv, FunsInv, NamedAfter
  <2> QED BY <2>1, <2>2, <2>4 DEF FunRecords
<1>7. CalleeContext(Inst) \in Contextual
  <2>1. CASE InMain
    <3>1. CalleeContext(Inst) = <<>> \o <<Self.of, Walk.ic>> BY <2>1 DEF CalleeContext, Stitch
    <3>2. <<>> \in Contextual
      <4>1. <<>> \in Seq(Nat) /\ Len(<<>>) = 0 OBVIOUS
      <4>2. 0 % 2 = 0 OBVIOUS
      <4> QED BY <4>1, <4>2 DEF Contextual
    <3> QED BY <1>6, <3>1, <3>2, TwoMore
  <2>2. CASE ~InMain /\ SccId(Inst) # SccId(Self.of)
    <3>1. CalleeContext(Inst) = Self.context \o <<Self.of, Walk.ic>> BY <2>2 DEF CalleeContext, Stitch
    <3> QED BY <1>6, <2>2, <3>1, TwoMore
  <2>3. CASE ~InMain /\ SccId(Inst) = SccId(Self.of)
    <3>1. CalleeContext(Inst) = Self.context BY <2>3 DEF CalleeContext
    <3> QED BY <1>6, <2>3, <3>1
  <2> QED BY <2>1, <2>2, <2>3
<1> QED BY <1>1, <1>4, <1>5, <1>7

(* What is found under the name of a clone is a clone of the callee.       *)
LEMMA CloneFound ==
    ASSUME CloneInv, AtCall, InCallGraph, ~LeftAlone, NEW clone \in Named(funs, NewName)
    PROVE  clone \in Clones /\ Fun(funs, clone).of = Inst
<1>1. /\ Inst \in Originals /\ CalleeContext(Inst) \in Contextual
      /\ mod \in Modules /\ Originals = Numbers(mod)
  BY CalleeKnown, FunFacts DEF CloneInv, Originals
<1>2. /\ clone \in Numbers(funs)
      /\ Fun(funs, clone).name = CloneName(Fun(mod, Inst).name, CalleeContext(Inst))
  BY DEF Named, NewName
<1>3. clone \notin Originals
  <2>1. \A v \in Originals : Fun(funs, v).name = Fun(mod, v).name
    BY DEF CloneInv, FunsInv, NamedAfter
  <2> QED BY <1>1, <1>2, <2>1, CloneNameNew
<1>4. clone \in Clones BY <1>2, <1>3 DEF Clones
<1>5. /\ Fun(funs, clone).of \in Originals
      /\ Fun(funs, clone).context \in Contextual
      /\ Fun(funs, clone).name = CloneName(Fun(mod, Fun(funs, clone).of).name, Fun(funs, clone).context)
  <2>1. Fun(funs, clone).of \in Originals BY <1>2, FunFacts DEF CloneInv
  <2> QED BY <1>4, <2>1 DEF CloneInv, FunsInv, NamedAfter
<1>6. Fun(funs, clone).of = Inst BY <1>1, <1>2, <1>5, CloneNamesApart
<1> QED BY <1>4, <1>6

LEMMA RedirectInv == ASSUME CloneInv, Redirect PROVE CloneInv'
<1> DEFINE n == Len(walks)
<1>1. /\ AtCall /\ InCallGraph /\ ~LeftAlone /\ Advance(1) /\ UNCHANGED <<mod, fullClone, pc>>
      /\ Walking /\ ~AtEnd
  BY DEF Redirect, AtCall
<1>2. PICK clone \in Named(funs, NewName) : funs' = SetCalledFunction(funs, Walk.fun, Walk.k, clone)
  BY DEF Redirect
<1>3. clone \in Clones /\ Fun(funs, clone).of = Fun(mod, Self.of).body[Walk.k]
  BY <1>1, CloneFound, CalleeKnown
<1>4. /\ n \in 1 .. Len(walks) /\ n \in Nat
      /\ walks[n].k <= Len(Fun(funs, walks[n].fun).body)
  <2>1. Walk.k \in 1 .. Len(Self.body) /\ Len(Self.body) \in Nat BY <1>1, WalkingFacts
  <2> QED BY <1>1, <2>1, WalkingFacts DEF Self, Walk
<1>5. MovesOn(n, 1) BY <1>1, <1>4, StepMovesOn
<1>6. \A i \in n + 1 .. Len(walks) : walks[i].k > Len(Fun(funs, walks[i].fun).body)
  BY <1>4
<1>7. /\ Fun(mod, Fun(funs, walks[n].fun).of).body[walks[n].k] = Fun(funs, clone).of
      /\ funs' = SetCalledFunction(funs, walks[n].fun, walks[n].k, clone)
  BY <1>2, <1>3 DEF Self, Walk
<1> HIDE DEF n
<1> QED BY <1>1, <1>3, <1>4, <1>5, <1>6, <1>7, RedirectingMoves DEF n

LEMMA ReturnInv == ASSUME CloneInv, Return PROVE CloneInv'
<1> DEFINE n == Len(walks) - 1
<1>1. /\ Walking /\ AtEnd /\ ~InMain /\ UNCHANGED <<mod, fullClone, pc>>
      /\ funs' = SetCalledFunction(funs, walks[n].fun, walks[n].k, Walk.fun)
      /\ walks' = Append(SubSeq(walks, 1, n - 1), Step(walks[n], 1))
  BY DEF Return
<1>2. /\ Len(walks) \in 1 .. Len(walks) /\ Len(walks) \in Nat /\ Len(walks) # 1
      /\ n \in 1 .. Len(walks) /\ n \in 1 .. Len(walks) - 1 /\ n + 1 = Len(walks)
  <2>1. Len(walks) \in 1 .. Len(walks) /\ Len(walks) \in Nat /\ Len(walks) # 1
    BY <1>1, WalkingFacts DEF InMain
  <2>2. \A l \in Nat : l \in 1 .. l /\ l # 1 =>
            l - 1 \in 1 .. l /\ l - 1 \in 1 .. l - 1 /\ (l - 1) + 1 = l
    OBVIOUS
  <2> QED BY <2>1, <2>2
<1> HIDE DEF n
<1>3. Walk.fun \in Clones BY <1>2, WalkFacts DEF Walk
<1>4. /\ walks[n].k <= Len(Fun(funs, walks[n].fun).body)
      /\ Fun(mod, Fun(funs, walks[n].fun).of).body[walks[n].k] = Fun(funs, Walk.fun).of
  <2>1. /\ walks[n].k <= Len(Fun(funs, walks[n].fun).body)
        /\ Fun(mod, Fun(funs, walks[n].fun).of).body[walks[n].k] = Fun(funs, walks[n + 1].fun).of
    BY <1>2 DEF CloneInv, WalksWait
  <2> QED BY <1>2, <2>1 DEF Walk
<1>5. \A i \in n + 1 .. Len(walks) : walks[i].k > Len(Fun(funs, walks[i].fun).body)
  <2>1. \A i \in n + 1 .. Len(walks) : i = Len(walks) BY <1>2
  <2>2. walks[Len(walks)].k > Len(Fun(funs, walks[Len(walks)].fun).body)
    BY <1>1 DEF AtEnd, Walk, Self
  <2> QED BY <2>1, <2>2
<1>6. MovesOn(n, 1) BY <1>1, <1>2, StepMovesOn DEF n
<1> QED BY <1>1, <1>2, <1>3, <1>4, <1>5, <1>6, RedirectingMoves

LEMMA CreateInv == ASSUME CloneInv, Create PROVE CloneInv'
<1> DEFINE S == [fun : Nat, k : Nat, ic : Nat]
           top == Len(walks)
           new == Len(funs)
<1>1. /\ AtCall /\ InCallGraph /\ ~LeftAlone /\ UNCHANGED <<mod, fullClone, pc>>
      /\ Walking /\ ~AtEnd /\ IsCall(Inst)
      /\ funs' = Append(funs, [Fun(funs, Inst) EXCEPT
                     !.name = CloneName(Fun(mod, Inst).name, CalleeContext(Inst)),
                     !.of = Inst, !.context = CalleeContext(Inst)])
      /\ walks' = Append(walks, [fun |-> Len(funs), k |-> 1, ic |-> 0])
  BY DEF Create, AtCall, NewName
<1>2. /\ Inst \in Originals /\ Fun(mod, Self.of).body[Walk.k] = Inst
      /\ CalleeContext(Inst) \in Contextual
  BY <1>1, CalleeKnown
<1>3. /\ FunsInv'
      /\ Len(funs') = new + 1
      /\ \A v \in Numbers(funs) : Fun(funs', v) = Fun(funs, v)
      /\ Fun(funs', new).of = Inst
      /\ Fun(funs', new).body = Fun(funs, Inst).body
  BY <1>1, <1>2, Appending DEF CloneInv
<1>4. /\ new \in Nat /\ new \notin Numbers(funs)
      /\ Numbers(funs') = Numbers(funs) \cup {new}
      /\ Originals' = Originals /\ MainOf(mod)' = MainOf(mod)
      /\ Clones' = Clones \cup {new}
      /\ Originals \subseteq Numbers(funs) /\ Clones \subseteq Numbers(funs)
      /\ MainOf(mod) \subseteq Originals
  <2>1. new \in Nat /\ Numbers(funs) = 0 .. new - 1 /\ V \in Nat /\ V <= new /\ Originals = 0 .. V - 1
    BY FunFacts DEF CloneInv
  <2>2. Numbers(funs') = 0 .. new BY <1>3, <2>1 DEF Numbers
  <2>3. new \notin Numbers(funs) /\ Numbers(funs') = Numbers(funs) \cup {new} /\ new \notin Originals
    BY <2>1, <2>2
  <2>4. Originals' = Originals /\ MainOf(mod)' = MainOf(mod) BY <1>1 DEF Originals, MainOf, Named
  <2>5. Clones' = Clones \cup {new} BY <2>3, <2>4 DEF Clones
  <2>6. /\ Originals \subseteq Numbers(funs) /\ Clones \subseteq Numbers(funs)
        /\ MainOf(mod) \subseteq Originals
    BY FunFacts DEF CloneInv, Clones
  <2> QED BY <2>1, <2>3, <2>4, <2>5, <2>6
<1>5. /\ top \in Nat /\ top \in 1 .. top
      /\ Walk.k \in 1 .. Len(Self.body) /\ Len(Self.body) \in Nat
      /\ Walk.fun \in Numbers(funs)
      /\ pc = "clone"
  BY <1>1, WalkingFacts
<1>6. /\ walks' \in Seq(S) /\ Len(walks') = top + 1 /\ DOMAIN walks' = 1 .. top + 1
      /\ \A i \in 1 .. top : walks'[i] = walks[i]
      /\ walks'[top + 1].fun = new /\ walks'[top + 1].k = 1 /\ walks'[top + 1].ic = 0
  <2> DEFINE w == [fun |-> new, k |-> 1, ic |-> 0]
  <2>1. w \in S /\ w.fun = new /\ w.k = 1 /\ w.ic = 0 BY <1>4
  <2>2. walks \in Seq(S) BY DEF CloneInv, WalksTyped
  <2> HIDE DEF S
  <2>3. walks' = Append(walks, w) BY <1>1
  <2> HIDE DEF w
  <2>4. /\ walks' \in Seq(S) /\ Len(walks') = top + 1
        /\ \A i \in 1 .. top : walks'[i] = walks[i]
        /\ walks'[top + 1] = w
    BY <1>5, <2>1, <2>2, <2>3
  <2> QED BY <2>1, <2>4, LenProperties
<1> HIDE DEF new, top
<1>7. \A i \in 1 .. top + 1 : i \in 1 .. top \/ i = top + 1 BY <1>5
<1>8. \A i \in 1 .. top : /\ walks[i].fun \in Numbers(funs)
                          /\ walks[i].k \in 1 .. Len(Fun(funs, walks[i].fun).body) + 1
                          /\ walks[i].ic \in 0 .. walks[i].k - 1
                          /\ i = 1 => walks[i].fun \in MainOf(mod)
                          /\ i # 1 => walks[i].fun \in Clones
                          /\ i \in DOMAIN walks
  BY WalkFacts DEF CloneInv, WalksTyped, top
<1>9. WalksTyped'
  <2>1. Len(Fun(funs, Inst).body) \in Nat BY <1>2, <1>4, FunFacts DEF CloneInv
  <2>2. 1 \in 1 .. Len(Fun(funs', new).body) + 1 /\ 0 \in 0 .. 1 - 1 BY <1>3, <2>1
  <2>3. ASSUME NEW i \in 1 .. top + 1
        PROVE  /\ walks'[i].fun \in Numbers(funs')
               /\ walks'[i].k \in 1 .. Len(Fun(funs', walks'[i].fun).body) + 1
               /\ walks'[i].ic \in 0 .. walks'[i].k - 1
               /\ i = 1 => walks'[i].fun \in MainOf(mod)
               /\ i # 1 => walks'[i].fun \in Clones'
    <3>1. CASE i \in 1 .. top BY <1>3, <1>4, <1>6, <1>8, <3>1
    <3>2. CASE i = top + 1
      <4>1. i # 1 BY <1>5, <3>2
      <4> QED BY <1>4, <1>6, <2>2, <3>2, <4>1
    <3> QED BY <1>7, <3>1, <3>2
  <2>4. ASSUME NEW i \in 1 .. top + 1, NEW j \in 1 .. top + 1, walks'[i].fun = walks'[j].fun
        PROVE  i = j
    <3>1. CASE i \in 1 .. top /\ j \in 1 .. top
      BY <1>6, <1>8, <2>4, <3>1 DEF CloneInv, WalksTyped
    <3>2. CASE i = top + 1 /\ j \in 1 .. top BY <1>4, <1>6, <1>8, <2>4, <3>2
    <3>3. CASE j = top + 1 /\ i \in 1 .. top BY <1>4, <1>6, <1>8, <2>4, <3>3
    <3> QED BY <1>7, <3>1, <3>2, <3>3
  <2> QED BY <1>1, <1>4, <1>6, <2>3, <2>4 DEF WalksTyped, S
<1>10. WalksWait'
  <2> SUFFICES ASSUME NEW i \in 1 .. Len(walks') - 1
               PROVE  /\ walks'[i].k <= Len(Fun(funs', walks'[i].fun).body)
                      /\ Fun(mod, Fun(funs', walks'[i].fun).of).body[walks'[i].k]
                            = Fun(funs', walks'[i + 1].fun).of
    BY <1>1 DEF WalksWait
  <2>1. i \in 1 .. top /\ (i = top \/ (i \in 1 .. top - 1 /\ i + 1 \in 1 .. top))
    BY <1>5, <1>6
  <2>2. /\ walks'[i].fun = walks[i].fun /\ walks'[i].k = walks[i].k
        /\ Fun(funs', walks[i].fun) = Fun(funs, walks[i].fun)
    BY <1>3, <1>6, <1>8, <2>1
  <2>3. CASE i = top
    <3>1. walks[i] = Walk BY <2>3 DEF Walk, top
    <3>2. Fun(funs, walks[i].fun) = Self BY <3>1 DEF Self
    <3>3. Walk.k <= Len(Self.body) BY <1>5
    <3> QED BY <1>2, <1>3, <1>6, <2>2, <2>3, <3>1, <3>2, <3>3
  <2>4. CASE i \in 1 .. top - 1 /\ i + 1 \in 1 .. top
    <3>1. /\ walks[i].k <= Len(Fun(funs, walks[i].fun).body)
          /\ Fun(mod, Fun(funs, walks[i].fun).of).body[walks[i].k] = Fun(funs, walks[i + 1].fun).of
      BY <2>4 DEF CloneInv, WalksWait, top
    <3>2. walks'[i + 1].fun = walks[i + 1].fun
          /\ Fun(funs', walks[i + 1].fun) = Fun(funs, walks[i + 1].fun)
      BY <1>3, <1>6, <1>8, <2>4
    <3> QED BY <2>2, <3>1, <3>2
  <2> QED BY <2>1, <2>3, <2>4
<1>11. OriginalsKept'
  <2> SUFFICES ASSUME NEW v \in Originals, pc = "scc" \/ v \notin MainOf(mod)
               PROVE  Fun(funs', v).body = Fun(mod, v).body
    BY <1>1, <1>4 DEF OriginalsKept
  <2> QED BY <1>3, <1>4 DEF CloneInv, OriginalsKept
<1>12. Ahead'
  <2> SUFFICES ASSUME NEW i \in DOMAIN walks', i = 1 \/ ~MainIsCalled(mod),
                      NEW k \in walks'[i].k .. Len(Fun(funs', walks'[i].fun).body)
               PROVE  Fun(funs', walks'[i].fun).body[k]
                        = Fun(mod, Fun(funs', walks'[i].fun).of).body[k]
    BY <1>1 DEF Ahead
  <2>1. CASE i \in 1 .. top
    <3>1. walks'[i] = walks[i] /\ Fun(funs', walks[i].fun) = Fun(funs, walks[i].fun)
      BY <1>3, <1>6, <1>8, <2>1
    <3> QED BY <1>8, <2>1, <3>1 DEF CloneInv, Ahead
  <2>2. CASE i = top + 1
    <3>1. ~MainIsCalled(mod) BY <1>5, <2>2
    <3>2. Self.of \in Originals /\ Len(Fun(mod, Self.of).body) = Len(Self.body)
          /\ mod \in Modules
      BY <1>5, FunFacts DEF CloneInv, Self
    <3>3. Walk.k \in DOMAIN Fun(mod, Self.of).body
      <4>1. Fun(mod, Self.of).body \in Seq(Originals \cup {External, Load, Plain})
        BY <3>2, ModuleFacts DEF Originals
      <4> QED BY <1>5, <3>2, <4>1, LenProperties
    <3>4. Inst \notin MainOf(mod)
      BY <1>1, <1>2, <3>1, <3>2, <3>3 DEF MainIsCalled, CallsIn, Originals
    <3>5. Fun(funs, Inst).body = Fun(mod, Inst).body
      BY <1>2, <3>4 DEF CloneInv, OriginalsKept
    <3> QED BY <1>3, <1>6, <2>2, <3>5
  <2> QED BY <1>6, <1>7, <2>1, <2>2
<1>13. Redirected'
  <2> SUFFICES ASSUME fullClone, NEW v \in MainOf(mod) \cup Clones \cup {new},
                      NEW k \in 1 .. Len(Fun(funs', v).body),
                      IsCall(Fun(funs', v).body[k]), IsDefined(funs', Fun(funs', v).body[k]),
                      Fun(funs', v).body[k] \notin Clones
               PROVE  Pending(v, k)'
    BY <1>1, <1>4 DEF Redirected, RedirectedAt
  <2>1. CASE v = new
    <3>1. top + 1 \in DOMAIN walks' /\ 1 <= k BY <1>5, <1>6
    <3> QED BY <1>6, <2>1, <3>1 DEF Pending
  <2>2. CASE v # new
    <3>1. v \in MainOf(mod) \cup Clones /\ v \in Numbers(funs) BY <1>4, <2>2
    <3>2. Fun(funs', v) = Fun(funs, v) BY <1>3, <3>1
    <3>3. Fun(funs, v).body[k] \in Numbers(funs) \cup {External, Load, Plain}
      BY <3>1, <3>2, FunFacts DEF CloneInv
    <3>4. Fun(funs, v).body[k] \in Numbers(funs)
      BY <3>2, <3>3 DEF IsCall, IsDefined
    <3>5. IsDefined(funs, Fun(funs, v).body[k])
      BY <1>3, <3>2, <3>4 DEF IsDefined
    <3>6. Pending(v, k)
      BY <1>5, <3>1, <3>2, <3>5 DEF CloneInv, Redirected, RedirectedAt
    <3>7. PICK i \in DOMAIN walks : walks[i].fun = v /\ walks[i].k <= k BY <3>6 DEF Pending
    <3>8. i \in 1 .. top /\ i \in DOMAIN walks'
      <4>1. DOMAIN walks = 1 .. top BY <1>5, WalkFacts DEF top
      <4>2. i \in 1 .. top BY <4>1
      <4> QED BY <1>5, <1>6, <4>2
    <3> QED BY <1>6, <3>7, <3>8 DEF Pending
  <2> QED BY <2>1, <2>2
<1>14. Phases' /\ LookupsKnown' BY <1>1, <1>5 DEF Phases, LookupsKnown
<1> QED BY <1>3, <1>9, <1>10, <1>11, <1>12, <1>13, <1>14 DEF CloneInv

LEMMA StutterInv == ASSUME CloneInv, UNCHANGED cloneVars PROVE CloneInv'
<1>1. UNCHANGED <<mod, fullClone, funs, walks, pc>> BY DEF cloneVars
<1>2. FunsInv' BY <1>1, FunsUnchanged DEF CloneInv
<1>3. Numbers(funs)' = Numbers(funs) /\ Originals' = Originals /\ MainOf(mod)' = MainOf(mod) /\ Clones' = Clones
  BY <1>1 DEF Numbers, Originals, MainOf, Named, Clones
<1>4. OriginalsKept' BY <1>1, <1>3 DEF CloneInv, OriginalsKept
<1>5. WalksTyped' /\ WalksWait' BY <1>1, <1>3 DEF CloneInv, WalksTyped, WalksWait
<1>6. Ahead' BY <1>1 DEF CloneInv, Ahead
<1>7. Redirected' BY <1>1, <1>3 DEF CloneInv, Redirected, RedirectedAt, Pending
<1>8. Phases' /\ LookupsKnown' BY <1>1 DEF CloneInv, Phases, LookupsKnown, V
<1> QED BY <1>2, <1>4, <1>5, <1>6, <1>7, <1>8 DEF CloneInv

LEMMA VisitPlainInv == ASSUME CloneInv, VisitPlain PROVE CloneInv'
BY Advancing DEF VisitPlain

LEMMA PassOverInv == ASSUME CloneInv, PassOver PROVE CloneInv'
<1>1. /\ Walking /\ ~AtEnd /\ Advance(0) /\ UNCHANGED <<mod, fullClone, funs, pc>>
  BY DEF PassOver, AtCall
<1>2. fullClone => ~IsDefined(funs, Inst)
  BY DEF PassOver, LeftAlone, Skipped, SkipInMain, Skip
<1> QED BY <1>1, <1>2, Advancing

LEMMA LookUpUnknownInv == ASSUME CloneInv, LookUpUnknown PROVE CloneInv'
<1>1. /\ AtCall /\ Walking /\ ~AtEnd /\ ~InCallGraph /\ pc' = "undefined"
      /\ UNCHANGED <<mod, fullClone, funs, walks>>
  BY DEF LookUpUnknown, AtCall
<1>2. Numbers(funs)' = Numbers(funs) /\ Originals' = Originals /\ MainOf(mod)' = MainOf(mod) /\ Clones' = Clones
  BY <1>1 DEF Numbers, Originals, MainOf, Named, Clones
<1>3. FunsInv' BY <1>1, FunsUnchanged DEF CloneInv
<1>4. OriginalsKept' BY <1>1, <1>2 DEF CloneInv, OriginalsKept
<1>5. WalksTyped' /\ WalksWait' BY <1>1, <1>2 DEF CloneInv, WalksTyped, WalksWait
<1>6. Ahead' BY <1>1 DEF CloneInv, Ahead
<1>7. pc = "clone" BY <1>1, WalkingFacts
<1>8. Redirected' BY <1>1, <1>2, <1>7 DEF CloneInv, Redirected, RedirectedAt, Pending
<1>9. Phases' BY <1>1 DEF Phases
<1>10. LookupsKnown'
  <2> SUFFICES ASSUME ~MainIsCalled(mod) PROVE FALSE BY <1>1 DEF LookupsKnown
  <2>1. /\ Len(walks) \in 1 .. Len(walks) /\ Len(walks) \in DOMAIN walks
        /\ Walk.k \in 1 .. Len(Self.body) /\ Len(Self.body) \in Nat
        /\ Walk.fun \in Numbers(funs)
    BY <1>1, WalkingFacts, WalkFacts
  <2>2. Walk.k \in Walk.k .. Len(Self.body) BY <2>1
  <2>3. Inst = Fun(mod, Self.of).body[Walk.k]
    BY <2>1, <2>2 DEF CloneInv, Ahead, Inst, Self, Walk
  <2>4. Fun(mod, Self.of).body[Walk.k] \in Originals \cup {External, Load, Plain}
    BY <2>1, FunFacts DEF CloneInv, Self
  <2> QED BY <1>1, <2>3, <2>4 DEF InCallGraph, AtCall, IsCall
<1> QED BY <1>3, <1>4, <1>5, <1>6, <1>8, <1>9, <1>10 DEF CloneInv

LEMMA EndMainInv == ASSUME CloneInv, EndMain PROVE CloneInv'
<1>1. /\ Walking /\ AtEnd /\ InMain /\ walks' = <<>> /\ pc' = "done" /\ pc = "clone"
      /\ UNCHANGED <<mod, fullClone, funs>>
  BY DEF EndMain, Walking
<1>2. Originals' = Originals /\ MainOf(mod)' = MainOf(mod) /\ Clones' = Clones
  BY <1>1 DEF Originals, MainOf, Named, Clones
<1>3. FunsInv' BY <1>1, FunsUnchanged DEF CloneInv
<1>4. OriginalsKept' BY <1>1, <1>2 DEF CloneInv, OriginalsKept
<1>5. DOMAIN walks' = {} /\ Len(walks') = 0 /\ walks' \in Seq([fun : Nat, k : Nat, ic : Nat]) BY <1>1
<1>6. WalksTyped' /\ WalksWait' /\ Ahead' BY <1>5 DEF WalksTyped, WalksWait, Ahead
<1>7. Redirected'
  <2> SUFFICES ASSUME fullClone, NEW v \in MainOf(mod) \cup Clones,
                      NEW k \in 1 .. Len(Fun(funs, v).body),
                      IsCall(Fun(funs, v).body[k]), IsDefined(funs, Fun(funs, v).body[k])
               PROVE  Fun(funs, v).body[k] \in Clones
    BY <1>1, <1>2 DEF Redirected, RedirectedAt
  <2>1. ~Pending(v, k)
    <3> SUFFICES ASSUME NEW i \in DOMAIN walks, walks[i].fun = v, walks[i].k <= k PROVE FALSE
      BY DEF Pending
    <3>1. DOMAIN walks = 1 .. Len(walks) /\ Len(walks) = 1
      BY <1>1, WalkingFacts, WalkFacts DEF InMain
    <3>2. i \in 1 .. Len(walks) /\ i = 1 BY <3>1
    <3>3. walks[i] = Walk /\ walks[i].k > Len(Fun(funs, v).body)
      BY <1>1, <3>1, <3>2 DEF AtEnd, Self, Walk
    <3>4. walks[i].k \in Nat /\ Len(Fun(funs, v).body) \in Nat
      BY <3>2, WalkFacts, FunFacts DEF CloneInv
    <3> QED BY <3>3, <3>4
  <2> QED BY <1>1, <2>1 DEF CloneInv, Redirected, RedirectedAt
<1>8. Phases' /\ LookupsKnown' BY <1>1 DEF Phases, LookupsKnown
<1> QED BY <1>3, <1>4, <1>6, <1>7, <1>8 DEF CloneInv

LEMMA StartMainInv == ASSUME CloneInv, StartMain PROVE CloneInv'
<1>1. pc = "scc" /\ UNCHANGED <<mod, fullClone, funs>> BY DEF StartMain
<1>2. Originals' = Originals /\ MainOf(mod)' = MainOf(mod) /\ Clones' = Clones
  BY <1>1 DEF Originals, MainOf, Named, Clones
<1>3. FunsInv' BY <1>1, FunsUnchanged DEF CloneInv
<1>4. /\ walks = <<>> /\ Clones = {} /\ MainOf(mod) \subseteq Originals /\ Originals \subseteq Numbers(funs)
      /\ mod \in Modules /\ Originals = Numbers(mod)
  <2>1. walks = <<>> /\ Len(funs) = V BY <1>1 DEF CloneInv, Phases
  <2>2. Clones = V .. Len(funs) - 1 /\ V \in Nat BY FunFacts DEF CloneInv
  <2>3. Clones = {} BY <2>1, <2>2
  <2> QED BY <2>1, <2>3, FunFacts DEF CloneInv, Originals
<1>5. CASE MainOf(mod) = {}
  <2>1. pc' = "done" /\ walks' = <<>> BY <1>4, <1>5 DEF StartMain
  <2>2. DOMAIN walks' = {} /\ Len(walks') = 0 /\ walks' \in Seq([fun : Nat, k : Nat, ic : Nat]) BY <2>1
  <2>3. WalksTyped' /\ WalksWait' /\ Ahead' BY <2>2 DEF WalksTyped, WalksWait, Ahead
  <2>4. OriginalsKept' BY <1>1, <1>2 DEF CloneInv, OriginalsKept
  <2>5. Redirected' BY <1>2, <1>4, <1>5 DEF Redirected
  <2>6. Phases' /\ LookupsKnown' BY <2>1 DEF Phases, LookupsKnown
  <2> QED BY <1>3, <2>3, <2>4, <2>5, <2>6 DEF CloneInv
<1>6. CASE MainOf(mod) # {}
  <2>1. PICK m \in MainOf(mod) : walks' = <<[fun |-> m, k |-> 1, ic |-> 0]>>
    BY <1>6 DEF StartMain
  <2>2. pc' = "clone" BY <1>6 DEF StartMain
  <2>3. /\ m \in Originals /\ m \in Numbers(funs) /\ m \in Nat
        /\ Fun(funs, m).of = m /\ Fun(funs, m).body = Fun(mod, m).body
        /\ Len(Fun(funs, m).body) \in Nat
    <3>1. m \in Originals /\ m \in Numbers(funs) BY <1>4
    <3>2. m \in Nat /\ Len(Fun(funs, m).body) \in Nat BY <3>1, FunFacts DEF CloneInv
    <3> QED BY <1>1, <3>1, <3>2 DEF CloneInv, FunsInv, NamedAfter, OriginalsKept
  <2>4. MainOf(mod) = {m}
    <3>1. \A v \in MainOf(mod) : v \in Numbers(mod) /\ Fun(mod, v).name = Name("main")
      BY DEF MainOf, Named
    <3> QED BY <1>4, <3>1, ModuleFacts
  <2>5. /\ DOMAIN walks' = {1} /\ Len(walks') = 1
        /\ walks'[1].fun = m /\ walks'[1].k = 1 /\ walks'[1].ic = 0
        /\ walks' \in Seq([fun : Nat, k : Nat, ic : Nat])
    <3> DEFINE w == [fun |-> m, k |-> 1, ic |-> 0]
    <3>1. w \in [fun : Nat, k : Nat, ic : Nat] /\ w.fun = m /\ w.k = 1 /\ w.ic = 0 BY <2>3
    <3> HIDE DEF w
    <3>2. walks' = <<w>> BY <2>1 DEF w
    <3> QED BY <3>1, <3>2
  <2>6. WalksTyped'
    <3>1. 1 \in 1 .. Len(Fun(funs, m).body) + 1 /\ 0 \in 0 .. 1 - 1 BY <2>3
    <3> QED BY <1>1, <1>2, <2>3, <2>5, <3>1 DEF WalksTyped
  <2>7. WalksWait'
    <3>1. 1 .. Len(walks') - 1 = {} BY <2>5
    <3> QED BY <3>1 DEF WalksWait
  <2>8. Ahead' BY <1>1, <2>3, <2>5 DEF Ahead
  <2>9. OriginalsKept' BY <1>1, <1>2 DEF CloneInv, OriginalsKept
  <2>10. Redirected'
    <3>1. \A k \in 1 .. Len(Fun(funs', m).body) : Pending(m, k)' BY <2>5 DEF Pending
    <3> QED BY <1>1, <1>2, <1>4, <2>4, <3>1 DEF Redirected, RedirectedAt
  <2>11. Phases' /\ LookupsKnown' BY <2>2 DEF Phases, LookupsKnown
  <2> QED BY <1>3, <2>6, <2>7, <2>8, <2>9, <2>10, <2>11 DEF CloneInv
<1> QED BY <1>5, <1>6

LEMMA InitInv == ASSUME Init PROVE CloneInv
<1>1. /\ mod \in Modules /\ walks = <<>> /\ pc = "scc"
      /\ funs = [n \in DOMAIN mod |->
                    [name |-> mod[n].name, kind |-> mod[n].kind, body |-> mod[n].body,
                     of |-> n - 1, context |-> <<>>]]
  BY DEF Init
<1>2. /\ V \in Nat /\ DOMAIN mod = 1 .. V /\ Originals = 0 .. V - 1
      /\ \A v \in Originals :
            /\ v \in Nat /\ v + 1 \in 1 .. V
            /\ Fun(mod, v).name = [base |-> Fun(mod, v).name.base, pieces |-> Fun(mod, v).name.pieces]
            /\ Fun(mod, v).name.pieces \in Pieces
            /\ Fun(mod, v).kind \in Kinds
            /\ Fun(mod, v).body \in Seq(Originals \cup {External, Load, Plain})
  BY <1>1, ModuleFacts DEF V, Originals, Numbers
<1>3. ASSUME NEW v \in Originals
      PROVE  /\ Fun(funs, v) = [name |-> Fun(mod, v).name, kind |-> Fun(mod, v).kind,
                                body |-> Fun(mod, v).body, of |-> v, context |-> <<>>]
             /\ Fun(funs, v) \in FunRecords
  <2>1. Fun(funs, v) = [name |-> Fun(mod, v).name, kind |-> Fun(mod, v).kind,
                        body |-> Fun(mod, v).body, of |-> (v + 1) - 1, context |-> <<>>]
    BY <1>1, <1>2 DEF Fun
  <2>2. (v + 1) - 1 = v BY <1>2
  <2>3. Fun(mod, v).name \in CloneNames
    <3> DEFINE base   == Fun(mod, v).name.base
               pieces == Fun(mod, v).name.pieces
    <3>1. Fun(mod, v).name = [base |-> base, pieces |-> pieces] BY <1>2
    <3>2. base \in {Fun(mod, u).name.base : u \in Originals} /\ pieces \in Pieces BY <1>2
    <3> HIDE DEF base, pieces
    <3> QED BY <3>1, <3>2 DEF CloneNames, Pieces
  <2>4. Fun(mod, v).body \in Seq(Nat \cup {External, Load, Plain})
    <3>1. \A k \in 1 .. Len(Fun(mod, v).body) : Fun(mod, v).body[k] \in Nat \cup {External, Load, Plain}
      <4>1. \A k \in 1 .. Len(Fun(mod, v).body) :
               Fun(mod, v).body[k] \in Originals \cup {External, Load, Plain}
        BY <1>2, ElementOfSeq
      <4> QED BY <1>2, <4>1
    <3> QED BY <1>2, <3>1, SeqInto
  <2>5. <<>> \in Seq(Nat) OBVIOUS
  <2>6. v \in Nat /\ Fun(mod, v).kind \in Kinds BY <1>2
  <2> QED BY <2>1, <2>2, <2>3, <2>4, <2>5, <2>6 DEF FunRecords
<1>4. /\ funs \in Seq(FunRecords) /\ Len(funs) = V /\ Numbers(funs) = Originals
  <2>1. \A n \in 1 .. V : funs[n] \in FunRecords
    <3> SUFFICES ASSUME NEW n \in 1 .. V PROVE funs[n] \in FunRecords OBVIOUS
    <3>1. n - 1 \in Originals /\ (n - 1) + 1 = n BY <1>2
    <3> QED BY <1>3, <3>1 DEF Fun
  <2> HIDE DEF FunRecords
  <2>2. funs \in [1 .. V -> FunRecords] BY <1>1, <1>2, <2>1
  <2>3. funs \in Seq(FunRecords) /\ Len(funs) = V BY <1>2, <2>2, SeqDef
  <2> QED BY <1>2, <2>3 DEF Numbers
<1>5. Clones = {} BY <1>4 DEF Clones
<1>6. \A v \in Originals :
          /\ Fun(funs, v).of = v /\ Fun(funs, v).name = Fun(mod, v).name
          /\ Fun(funs, v).body = Fun(mod, v).body
          /\ \A k \in 1 .. Len(Fun(funs, v).body) :
                Fun(funs, v).body[k] \in Originals \cup {External, Load, Plain}
  <2>1. \A v \in Originals : /\ Fun(funs, v).of = v /\ Fun(funs, v).name = Fun(mod, v).name
                             /\ Fun(funs, v).body = Fun(mod, v).body
    BY <1>3
  <2>2. \A v \in Originals : \A k \in 1 .. Len(Fun(mod, v).body) :
            Fun(mod, v).body[k] \in Originals \cup {External, Load, Plain}
    BY <1>2, ElementOfSeq
  <2> QED BY <2>1, <2>2
<1>7. FunsTyped
  <2>1. V <= Len(funs) BY <1>2, <1>4
  <2>2. \A v \in Numbers(funs) :
            /\ Fun(funs, v).of \in Originals
            /\ \A k \in 1 .. Len(Fun(funs, v).body) :
                  Fun(funs, v).body[k] \in Numbers(funs) \cup {External, Load, Plain}
    BY <1>4, <1>6
  <2> HIDE DEF FunRecords
  <2>3. funs \in Seq(FunRecords) BY <1>4
  <2> QED BY <1>1, <2>1, <2>2, <2>3 DEF FunsTyped
<1>8. NamedAfter BY <1>5, <1>6 DEF NamedAfter
<1>9. SameProgram
  <2> SUFFICES ASSUME NEW v \in Originals
               PROVE  /\ Len(Fun(mod, v).body) = Len(Fun(mod, v).body)
                      /\ \A k \in DOMAIN Fun(mod, v).body :
                            Original(funs, Fun(mod, v).body[k]) = Fun(mod, v).body[k]
    BY <1>4, <1>6 DEF SameProgram
  <2> SUFFICES ASSUME NEW k \in DOMAIN Fun(mod, v).body
               PROVE  Original(funs, Fun(mod, v).body[k]) = Fun(mod, v).body[k]
    OBVIOUS
  <2>1. k \in 1 .. Len(Fun(mod, v).body) BY <1>2, LenProperties
  <2>2. Fun(mod, v).body[k] \in Originals \cup {External, Load, Plain} BY <1>6, <2>1
  <2> QED BY <1>6, <2>2 DEF Original, IsCall
<1>10. OriginalsKept BY <1>6 DEF OriginalsKept
<1>11. WalksTyped /\ WalksWait /\ Ahead
  <2>1. DOMAIN walks = {} /\ Len(walks) = 0 /\ walks \in Seq([fun : Nat, k : Nat, ic : Nat]) BY <1>1
  <2> QED BY <2>1 DEF WalksTyped, WalksWait, Ahead
<1>12. Redirected /\ Phases /\ LookupsKnown BY <1>1, <1>4 DEF Redirected, Phases, LookupsKnown
<1> QED BY <1>7, <1>8, <1>9, <1>10, <1>11, <1>12 DEF CloneInv, FunsInv

-----------------------------------------------------------------------------
(***************************************************************************)
(* The inductive invariant holds throughout: walks stand at calls of what  *)
(* is copied above them, and what is ahead of them is still the program.   *)
(***************************************************************************)
THEOREM CloneInvariant == Spec => []CloneInv
<1>1. ASSUME CloneInv, [Next]_vars PROVE CloneInv'
  <2>1. CASE BuildSCC BY <1>1, <2>1, StutterInv DEF BuildSCC
  <2>2. CASE StartMain BY <1>1, <2>2, StartMainInv
  <2>3. CASE VisitPlain BY <1>1, <2>3, VisitPlainInv
  <2>4. CASE PassOver BY <1>1, <2>4, PassOverInv
  <2>5. CASE LookUpUnknown BY <1>1, <2>5, LookUpUnknownInv
  <2>6. CASE Redirect BY <1>1, <2>6, RedirectInv
  <2>7. CASE Create BY <1>1, <2>7, CreateInv
  <2>8. CASE Return BY <1>1, <2>8, ReturnInv
  <2>9. CASE EndMain BY <1>1, <2>9, EndMainInv
  <2>10. CASE UNCHANGED vars BY <1>1, <2>10, StutterInv DEF vars
  <2> QED BY <1>1, <2>1, <2>2, <2>3, <2>4, <2>5, <2>6, <2>7, <2>8, <2>9, <2>10 DEF Next
<1> QED BY <1>1, InitInv, PTL DEF Spec

(***************************************************************************)
(* Every state of the pass is well typed: a call leads to a function of    *)
(* the module, and the iterators of all activations are inside their       *)
(* functions.                                                              *)
(***************************************************************************)
THEOREM CloneTypeCorrect == Spec => []TypeOK
<1>1. CloneInv => TypeOK
  <2> SUFFICES ASSUME CloneInv PROVE TypeOK OBVIOUS
  <2>1. pc \in {"scc", "clone", "done", "undefined"} BY DEF CloneInv, Phases
  <2>2. ASSUME NEW v \in Numbers(funs)
        PROVE  /\ Fun(funs, v).of \in Originals
               /\ Fun(funs, v).context \in Seq(Nat)
               /\ Fun(funs, v).body \in Seq(Numbers(funs) \cup {External, Load, Plain})
    <3>1. Fun(funs, v) \in FunRecords /\ Fun(funs, v).of \in Originals
      BY FunFacts DEF CloneInv
    <3>2. /\ Fun(funs, v).context \in Seq(Nat)
          /\ Fun(funs, v).body \in Seq(Nat \cup {External, Load, Plain})
      BY <3>1 DEF FunRecords
    <3>3. \A k \in 1 .. Len(Fun(funs, v).body) :
             Fun(funs, v).body[k] \in Numbers(funs) \cup {External, Load, Plain}
      BY FunFacts DEF CloneInv
    <3> QED BY <3>1, <3>2, <3>3, SeqInto
  <2>3. \A n \in DOMAIN walks :
          /\ walks[n].fun \in Numbers(funs)
          /\ walks[n].k \in 1 .. Len(Fun(funs, walks[n].fun).body) + 1
          /\ walks[n].ic \in 0 .. walks[n].k - 1
    BY DEF CloneInv, WalksTyped
  <2> QED BY <2>1, <2>2, <2>3 DEF TypeOK
<1> QED BY <1>1, CloneInvariant, PTL

(***************************************************************************)
(* Cloning leaves the program as it is: what a function does and calls is  *)
(* up to copies what it did and called before, for modules of every size,  *)
(* recursion included.                                                     *)
(***************************************************************************)
THEOREM CloningKeepsProgram == Spec => []SameProgram
<1>1. CloneInv => SameProgram BY DEF CloneInv, FunsInv
<1> QED BY <1>1, CloneInvariant, PTL

(***************************************************************************)
(* The components are asked for functions of the call graph only, unless   *)
(* main is called.                                                         *)
(***************************************************************************)
THEOREM CloningLooksUpKnown == Spec => []LookupsKnown
<1>1. CloneInv => LookupsKnown BY DEF CloneInv
<1> QED BY <1>1, CloneInvariant, PTL

(***************************************************************************)
(* With full_clone, main and the clones call no function with a body but   *)
(* clones when the pass is done.                                           *)
(***************************************************************************)
THEOREM CloningRedirectsAll == Spec => []AllRedirected
<1>1. CloneInv => AllRedirected
  <2> SUFFICES ASSUME CloneInv, pc = "done", fullClone,
                      NEW v \in MainOf(mod) \cup Clones, NEW k \in CallsIn(Fun(funs, v).body),
                      IsDefined(funs, Fun(funs, v).body[k])
               PROVE  Fun(funs, v).body[k] \in Clones
    BY DEF AllRedirected
  <2>1. v \in Numbers(funs) BY FunFacts DEF CloneInv, Clones
  <2>2. k \in 1 .. Len(Fun(funs, v).body) /\ IsCall(Fun(funs, v).body[k])
    BY <2>1, FunFacts DEF CloneInv, CallsIn
  <2>3. ~Pending(v, k)
    <3>1. DOMAIN walks = {}
      <4>1. walks = <<>> BY DEF CloneInv, Phases
      <4> QED BY <4>1
    <3> QED BY <3>1 DEF Pending
  <2> QED BY <2>2, <2>3 DEF CloneInv, Redirected, RedirectedAt
<1> QED BY <1>1, CloneInvariant, PTL

-----------------------------------------------------------------------------
(***************************************************************************)
(* The tree of contexts. The search numbers the components so that no call *)
(* leads to a later one; the tree asks the same questions of the module as *)
(* it was before the pass.                                                 *)
(***************************************************************************)

(* The proofs about the search, for the call graphs of the modules.        *)
Search == INSTANCE CallGraphSCC_proofs WITH CallGraphs <- Graphs

(* The call graph of a module is one the search is proved for.             *)
LEMMA CallGraphIs ==
    ASSUME NEW m \in Modules
    PROVE  /\ DOMAIN CallGraph(m) = 1 .. Len(m) /\ Len(CallGraph(m)) = Len(m)
           /\ CallGraph(m) \in Seq(SUBSET (Numbers(m) \cup {External}))
           /\ \A v \in Numbers(m) : \A k \in 1 .. Len(Fun(m, v).body) :
                 LET callee == Fun(m, v).body[k]
                 IN  callee \in Numbers(m) /\ Fun(m, callee).kind # "intrinsic" =>
                         callee \in CallGraph(m)[v + 1]
<1> DEFINE T == SUBSET (Numbers(m) \cup {External})
           g == CallGraph(m)
<1>1. /\ Len(m) \in Nat /\ DOMAIN m = 1 .. Len(m)
      /\ \A v \in Numbers(m) : /\ v \in Nat /\ v + 1 \in DOMAIN m
                               /\ Fun(m, v).body \in Seq(Numbers(m) \cup {External, Load, Plain})
  BY ModuleFacts
<1>2. \A n \in 1 .. Len(m) : n - 1 \in Numbers(m) /\ Fun(m, n - 1) = m[n]
  BY <1>1 DEF Numbers, Fun
<1>3. \A n \in 1 .. Len(m) : /\ m[n].body \in Seq(Numbers(m) \cup {External, Load, Plain})
                             /\ DOMAIN m[n].body = 1 .. Len(m[n].body)
  BY <1>1, <1>2, LenProperties
<1>4. \A n \in 1 .. Len(m) : \A k \in 1 .. Len(m[n].body) :
          m[n].body[k] \in Numbers(m) \cup {External, Load, Plain}
  BY <1>3, ElementOfSeq
<1>5. \A n \in 1 .. Len(m) : \A k \in CallsIn(m[n].body) : m[n].body[k] \in Numbers(m) \cup {External}
  BY <1>3, <1>4 DEF CallsIn, IsCall
<1>6. \A n \in 1 .. Len(m) : g[n] \in T
  <2> SUFFICES ASSUME NEW n \in 1 .. Len(m) PROVE g[n] \in T OBVIOUS
  <2>1. g[n] = {m[n].body[k] : k \in {j \in CallsIn(m[n].body) :
                   m[n].body[j] = External \/ Fun(m, m[n].body[j]).kind # "intrinsic"}}
               \cup (IF m[n].kind = "declared" THEN {External} ELSE {})
    BY <1>1 DEF CallGraph
  <2>2. \A k \in CallsIn(m[n].body) : m[n].body[k] \in Numbers(m) \cup {External} BY <1>5
  <2> HIDE DEF g
  <2> QED BY <2>1, <2>2
<1>7. DOMAIN g = 1 .. Len(m) BY <1>1 DEF CallGraph
<1>8. g \in [1 .. Len(m) -> T]
  <2>1. g = [n \in 1 .. Len(m) |-> g[n]] BY <1>1 DEF CallGraph
  <2> HIDE DEF g, T
  <2> QED BY <1>6, <2>1
<1>9. g \in Seq(T) /\ Len(g) = Len(m)
  <2> HIDE DEF g, T
  <2> QED BY <1>1, <1>8, SeqDef
<1>10. ASSUME NEW v \in Numbers(m), NEW k \in 1 .. Len(Fun(m, v).body),
              Fun(m, v).body[k] \in Numbers(m), Fun(m, Fun(m, v).body[k]).kind # "intrinsic"
       PROVE  Fun(m, v).body[k] \in g[v + 1]
  <2>1. v + 1 \in 1 .. Len(m) /\ m[v + 1] = Fun(m, v) BY <1>1 DEF Fun
  <2>2. k \in CallsIn(m[v + 1].body)
    BY <1>1, <1>3, <1>10, <2>1, InstsAssumption DEF CallsIn, IsCall, Numbers
  <2> QED BY <1>1, <1>10, <2>1, <2>2 DEF CallGraph
<1> QED BY <1>7, <1>9, <1>10

(* What CallGraphSCC assumes of call graphs.                               *)
LEMMA GraphsAssumption ==
    \A g \in Graphs : /\ External \notin 0 .. Len(g) - 1
                      /\ g \in Seq(SUBSET (0 .. Len(g) - 1 \cup {External}))
<1> SUFFICES ASSUME NEW m \in Modules
             PROVE  /\ External \notin 0 .. Len(CallGraph(m)) - 1
                    /\ CallGraph(m) \in Seq(SUBSET (0 .. Len(CallGraph(m)) - 1 \cup {External}))
  BY DEF Graphs
<1>1. Len(CallGraph(m)) = Len(m) /\ Len(m) \in Nat BY CallGraphIs, ModuleFacts
<1>2. External \notin 0 .. Len(m) - 1 BY <1>1, InstsAssumption
<1>3. CallGraph(m) \in Seq(SUBSET (0 .. Len(m) - 1 \cup {External}))
  BY CallGraphIs DEF Numbers
<1> QED BY <1>1, <1>2, <1>3

(* The pass runs the search.                                               *)
LEMMA SearchInit == ASSUME Init PROVE Search!SearchInv
<1>1. SCC!Init => Search!Init
  BY DEF SCC!Init, Search!Init, SCC!Vertices, Search!Vertices, SCC!V, Search!V
<1> QED BY <1>1, GraphsAssumption, Search!InitInv DEF Init

LEMMA SearchStep == ASSUME Search!SearchInv, [SCC!Next]_sccVars PROVE Search!SearchInv'
<1>1. [Search!Next]_(Search!vars)
  <2>1. CASE SCC!Next
    <3>1. Search!Next
      BY <2>1 DEF SCC!Next, Search!Next, SCC!Vertices, Search!Vertices, SCC!V, Search!V,
                  SCC!Root, Search!Root, SCC!Descend, Search!Descend, SCC!Compare, Search!Compare,
                  SCC!ReturnLower, Search!ReturnLower, SCC!PopComponent, Search!PopComponent,
                  SCC!Enter, Search!Enter, SCC!Running, Search!Running, SCC!PopFrame, Search!PopFrame,
                  SCC!Lower, Search!Lower, SCC!Adj, Search!Adj, SCC!Index, Search!Index,
                  SCC!Callees, Search!Callees
    <3> QED BY <3>1
  <2>2. CASE UNCHANGED sccVars BY <2>2 DEF sccVars, Search!vars
  <2> QED BY <2>1, <2>2
<1> QED BY <1>1, GraphsAssumption, Search!NextInv

(* The search on the call graph of the module, which no step changes.      *)
Tree == INSTANCE CallGraphSCC_proofs WITH CallGraphs <- Graphs, cg <- CallGraph(mod)

(* The tree and the search agree on what can be reached,                   *)
LEMMA TreeReached ==
    ASSUME mod \in Modules, NEW v
    PROVE  Contexts!Reached(v) = Tree!Reached(v)
<1>1. Len(CallGraph(mod)) = Len(mod) BY CallGraphIs
<1> QED
  BY <1>1, Zenon DEF Contexts!Reached, Tree!Reached, Tree!Reach, Tree!V, Contexts!Edges,
                     Tree!Adj, Tree!Index, Tree!Callees, Contexts!CallGraph, CallGraph,
                     Contexts!CallsIn, CallsIn, Contexts!Fun, Fun, Contexts!IsCall, IsCall

-----------------------------------------------------------------------------
(* What the tree of contexts says, for the module m and the value full of  *)
(* the option full_clone. A pair p is a function and a context.            *)
SameIn(m, u, v) == LET to == Tree!ToOf(CallGraph(m)) IN v \in to[u] /\ u \in to[v]
ContextIn(m, p, callee, ordinal) ==
    IF p[2] # <<>> /\ SameIn(m, p[1], callee) THEN p[2] ELSE p[2] \o <<p[1], ordinal>>
BodyIn(m, p) == Fun(m, p[1]).body
CopiedIn(m, full, p, inst) ==
    /\ IsCall(inst) /\ IsDefined(m, inst)
    /\ IF p[2] = <<>> THEN ~SkipInMain(full, Fun(m, inst))
                      ELSE ~Skip(full, Fun(m, inst), ContextIn(m, p, inst, 0))
CountedIn(m, full, p, inst) == IsCall(inst) => CopiedIn(m, full, p, inst)
OrdinalIn(m, full, p, k) ==
    Cardinality({j \in 1 .. k - 1 : CountedIn(m, full, p, BodyIn(m, p)[j])})
CopiedAt(m, full, p) ==
    {k \in 1 .. Len(BodyIn(m, p)) : CopiedIn(m, full, p, BodyIn(m, p)[k])}
CopyIn(m, full, p, k) ==
    <<BodyIn(m, p)[k], ContextIn(m, p, BodyIn(m, p)[k], OrdinalIn(m, full, p, k))>>

(* and on components.                                                      *)
LEMMA SameInTree ==
    ASSUME mod \in Modules, NEW u \in Originals, NEW v \in Originals
    PROVE  Contexts!SameComponent(u, v) <=> SameIn(mod, u, v)
<1>1. CallGraph(mod) \in Graphs /\ Tree!Vertices = Originals
  BY CallGraphIs DEF Graphs, Tree!Vertices, Tree!V, Originals, Numbers
<1>2. Tree!To[u] = Tree!Reached(u) /\ Tree!To[v] = Tree!Reached(v)
  BY <1>1, GraphsAssumption, Tree!ToIsReach
<1>3. Tree!To = Tree!ToOf(CallGraph(mod)) BY DEF Tree!To
<1>4. Contexts!Reached(u) = Tree!Reached(u) /\ Contexts!Reached(v) = Tree!Reached(v) BY TreeReached
<1> QED BY <1>2, <1>3, <1>4 DEF SameIn, Contexts!SameComponent

(* What an instruction of the program may be.                              *)
Program == Originals \cup {External, Load, Plain}

(* The body of a pair is one of the program.                               *)
LEMMA BodyFacts ==
    ASSUME mod \in Modules, NEW u \in Originals, NEW c
    PROVE  LET body == BodyIn(mod, <<u, c>>)
           IN  /\ body = Fun(mod, u).body
               /\ Len(body) \in Nat /\ DOMAIN body = 1 .. Len(body)
               /\ \A k \in 1 .. Len(body) : body[k] \in Program
<1>1. BodyIn(mod, <<u, c>>) = Fun(mod, u).body BY DEF BodyIn
<1>2. Fun(mod, u).body \in Seq(Program) BY ModuleFacts DEF Program, Originals
<1> HIDE DEF Program
<1>3. /\ Len(Fun(mod, u).body) \in Nat /\ DOMAIN Fun(mod, u).body = 1 .. Len(Fun(mod, u).body)
      /\ \A k \in 1 .. Len(Fun(mod, u).body) : Fun(mod, u).body[k] \in Program
  BY <1>2, LenProperties, ElementOfSeq
<1> QED BY <1>1, <1>3

(* An instance has its own copy of the operator.                           *)
LEMMA TreeCounts == \A S : Contexts!Cardinality(S) = Cardinality(S)
BY Zenon DEF Contexts!Cardinality, Cardinality

(* The calls that the tree leaves alone, and the context of the others.    *)
LEMMA TreeLeavesAlone ==
    ASSUME mod \in Modules, NEW u \in Originals, NEW c, NEW inst \in Program
    PROVE  /\ Contexts!LeftAlone(<<u, c>>, inst) <=> ~CountedIn(mod, fullClone, <<u, c>>, inst)
           /\ inst \in Originals => \A ordinal : Contexts!Context(<<u, c>>, inst, ordinal)
                                                    = ContextIn(mod, <<u, c>>, inst, ordinal)
<1> DEFINE p == <<u, c>>
<1>1. p[1] = u /\ p[2] = c OBVIOUS
<1> HIDE DEF p
<1>2. ASSUME inst \in Originals, NEW ordinal
      PROVE  Contexts!Context(p, inst, ordinal) = ContextIn(mod, p, inst, ordinal)
  <2>1. inst # External BY <1>2, InstsAssumption, ModuleFacts DEF Originals
  <2>2. Contexts!SameComponent(p[1], inst) <=> SameIn(mod, p[1], inst) BY <1>1, <1>2, SameInTree
  <2> QED BY <2>1, <2>2 DEF Contexts!Context, ContextIn
<1>3. /\ Contexts!IsCall(inst) <=> IsCall(inst)
      /\ Contexts!IsDefined(mod, inst) <=> IsDefined(mod, inst)
      /\ Contexts!SkipInMain(fullClone, Contexts!Fun(mod, inst)) <=> SkipInMain(fullClone, Fun(mod, inst))
      /\ \A context : Contexts!Skip(fullClone, Contexts!Fun(mod, inst), context)
                         <=> Skip(fullClone, Fun(mod, inst), context)
  <2>1. /\ Contexts!IsCall(inst) <=> IsCall(inst)
        /\ Contexts!IsDefined(mod, inst) <=> IsDefined(mod, inst)
        /\ Contexts!Fun(mod, inst) = Fun(mod, inst)
    BY DEF Contexts!IsCall, IsCall, Contexts!IsDefined, IsDefined, Contexts!Fun, Fun
  <2>2. Contexts!Weight(Fun(mod, inst)) = Weight(Fun(mod, inst))
    BY TreeCounts, Zenon DEF Contexts!Weight, Weight, Contexts!CallsIn, CallsIn, Contexts!IsCall, IsCall
  <2>3. Contexts!SkipInMain(fullClone, Fun(mod, inst)) <=> SkipInMain(fullClone, Fun(mod, inst))
    BY <2>2 DEF Contexts!SkipInMain, SkipInMain
  <2>4. \A context : Contexts!Skip(fullClone, Fun(mod, inst), context) <=> Skip(fullClone, Fun(mod, inst), context)
    BY DEF Contexts!Skip, Skip
  <2> QED BY <2>1, <2>3, <2>4
<1>4. CASE inst \in Originals
  <2>1. Contexts!Context(p, inst, 0) = ContextIn(mod, p, inst, 0) BY <1>2, <1>4
  <2> QED BY <1>2, <1>3, <1>4, <2>1 DEF Contexts!LeftAlone, Contexts!Cloned, CountedIn, CopiedIn, p
<1>5. CASE inst \notin Originals
  <2>1. ~IsCall(inst) \/ ~IsDefined(mod, inst) BY <1>5 DEF Program, IsCall, IsDefined
  <2> QED BY <1>3, <1>5, <2>1 DEF Contexts!LeftAlone, Contexts!Cloned, CountedIn, CopiedIn, p
<1> QED BY <1>4, <1>5

(* The copies the tree asks for.                                           *)
LEMMA TreeCopies ==
    ASSUME mod \in Modules, NEW u \in Originals, NEW c
    PROVE  Contexts!CopiesFor(<<u, c>>)
             = {CopyIn(mod, fullClone, <<u, c>>, k) : k \in CopiedAt(mod, fullClone, <<u, c>>)}
<1> DEFINE p == <<u, c>>
           body == BodyIn(mod, p)
<1>1. p[1] = u /\ Contexts!Fun(mod, p[1]).body = body
  BY DEF BodyIn, Contexts!Fun, Fun
<1>2. /\ Len(body) \in Nat /\ DOMAIN body = 1 .. Len(body)
      /\ \A k \in 1 .. Len(body) : body[k] \in Program
  BY BodyFacts
<1>3. \A k \in 1 .. Len(body) :
         /\ Contexts!LeftAlone(p, body[k]) <=> ~CountedIn(mod, fullClone, p, body[k])
         /\ body[k] \in Originals => \A ordinal : Contexts!Context(p, body[k], ordinal)
                                                    = ContextIn(mod, p, body[k], ordinal)
  BY <1>2, TreeLeavesAlone
<1> HIDE DEF p, body
<1>4. ASSUME NEW k \in 1 .. Len(body) PROVE Contexts!Ordinal(p, k) = OrdinalIn(mod, fullClone, p, k)
  <2>1. \A j \in 1 .. k - 1 : j \in 1 .. Len(body) BY <1>2
  <2>2. {j \in 1 .. k - 1 : ~Contexts!LeftAlone(p, Contexts!Fun(mod, p[1]).body[j])}
          = {j \in 1 .. k - 1 : CountedIn(mod, fullClone, p, BodyIn(mod, p)[j])}
    BY <1>1, <1>3, <2>1 DEF body
  <2> QED BY <2>2, TreeCounts DEF Contexts!Ordinal, OrdinalIn
<1>5. {j \in Contexts!CallsIn(body) : ~Contexts!LeftAlone(p, body[j])} = CopiedAt(mod, fullClone, p)
  <2>1. \A j \in 1 .. Len(body) : Contexts!IsCall(body[j]) <=> IsCall(body[j])
    BY DEF Contexts!IsCall, IsCall
  <2>2. \A j \in 1 .. Len(body) : CopiedIn(mod, fullClone, p, body[j]) <=>
            IsCall(body[j]) /\ CountedIn(mod, fullClone, p, body[j])
    BY DEF CopiedIn, CountedIn
  <2> QED BY <1>2, <1>3, <2>1, <2>2 DEF Contexts!CallsIn, CopiedAt, body
<1>6. \A k \in CopiedAt(mod, fullClone, p) :
         /\ k \in 1 .. Len(body) /\ body[k] \in Originals
  BY <1>2 DEF CopiedAt, CopiedIn, IsCall, IsDefined, body, Program
<1>7. \A k \in CopiedAt(mod, fullClone, p) :
         <<body[k], Contexts!Context(p, body[k], Contexts!Ordinal(p, k))>> = CopyIn(mod, fullClone, p, k)
  BY <1>3, <1>4, <1>6 DEF CopyIn, body
<1>8. Contexts!CopiesFor(p)
        = {<<body[k], Contexts!Context(p, body[k], Contexts!Ordinal(p, k))>> :
              k \in {j \in Contexts!CallsIn(body) : ~Contexts!LeftAlone(p, body[j])}}
  BY <1>1 DEF Contexts!CopiesFor
<1> QED BY <1>5, <1>7, <1>8 DEF p

(* Ordinals count the instructions that are not left alone.                *)
LEMMA OrdinalFacts ==
    ASSUME NEW m, NEW full, NEW p, NEW k \in Nat \ {0}
    PROVE  /\ OrdinalIn(m, full, p, k) \in Nat
           /\ OrdinalIn(m, full, p, 1) = 0
           /\ CountedIn(m, full, p, BodyIn(m, p)[k]) =>
                  OrdinalIn(m, full, p, k + 1) = OrdinalIn(m, full, p, k) + 1
           /\ ~CountedIn(m, full, p, BodyIn(m, p)[k]) =>
                  OrdinalIn(m, full, p, k + 1) = OrdinalIn(m, full, p, k)
           /\ \A j \in Nat : k <= j => OrdinalIn(m, full, p, k) <= OrdinalIn(m, full, p, j)
<1> DEFINE S(n) == {j \in 1 .. n - 1 : CountedIn(m, full, p, BodyIn(m, p)[j])}
<1>1. \A n : OrdinalIn(m, full, p, n) = Cardinality(S(n)) BY DEF OrdinalIn
<1>2. \A n \in Nat : IsFiniteSet(S(n)) /\ Cardinality(S(n)) \in Nat
  <2> SUFFICES ASSUME NEW n \in Nat PROVE IsFiniteSet(S(n)) /\ Cardinality(S(n)) \in Nat OBVIOUS
  <2>1. IsFiniteSet(1 .. n - 1) BY FS_Interval
  <2>2. S(n) \subseteq 1 .. n - 1 OBVIOUS
  <2> HIDE DEF S
  <2> QED BY <2>1, <2>2, FS_Subset, FS_CardinalityType
<1>3. S(1) = {} OBVIOUS
<1>4. /\ CountedIn(m, full, p, BodyIn(m, p)[k]) => S(k + 1) = S(k) \cup {k}
      /\ ~CountedIn(m, full, p, BodyIn(m, p)[k]) => S(k + 1) = S(k)
      /\ k \notin S(k)
  <2>1. 1 .. (k + 1) - 1 = (1 .. k - 1) \cup {k} /\ k \notin 1 .. k - 1 OBVIOUS
  <2> QED BY <2>1
<1>5. \A j \in Nat : k <= j => S(k) \subseteq S(j) OBVIOUS
<1> HIDE DEF S
<1>6. \A j \in Nat : k <= j => Cardinality(S(k)) <= Cardinality(S(j))
  BY <1>2, <1>5, FS_Subset
<1>7. OrdinalIn(m, full, p, k) \in Nat BY <1>1, <1>2
<1>8. OrdinalIn(m, full, p, 1) = 0 BY <1>1, <1>3, FS_EmptySet
<1>9. CountedIn(m, full, p, BodyIn(m, p)[k]) =>
          OrdinalIn(m, full, p, k + 1) = OrdinalIn(m, full, p, k) + 1
  <2>1. IsFiniteSet(S(k)) BY <1>2
  <2>2. Cardinality(S(k) \cup {k}) = Cardinality(S(k)) + 1 BY <1>4, <2>1, FS_AddElement
  <2> QED BY <1>1, <1>4, <2>2
<1>10. ~CountedIn(m, full, p, BodyIn(m, p)[k]) =>
          OrdinalIn(m, full, p, k + 1) = OrdinalIn(m, full, p, k)
  BY <1>1, <1>4
<1> QED BY <1>1, <1>6, <1>7, <1>8, <1>9, <1>10

(* Two instructions that are counted have different ordinals.              *)
LEMMA OrdinalGrows ==
    ASSUME NEW m, NEW full, NEW p, NEW k \in Nat \ {0}, NEW j \in Nat, k < j,
           CountedIn(m, full, p, BodyIn(m, p)[k])
    PROVE  OrdinalIn(m, full, p, k) # OrdinalIn(m, full, p, j)
<1>1. k + 1 \in Nat \ {0} /\ k + 1 <= j OBVIOUS
<1>2. OrdinalIn(m, full, p, k + 1) = OrdinalIn(m, full, p, k) + 1 /\ OrdinalIn(m, full, p, k) \in Nat
  BY OrdinalFacts
<1>3. OrdinalIn(m, full, p, k + 1) <= OrdinalIn(m, full, p, j) BY <1>1, OrdinalFacts
<1>4. OrdinalIn(m, full, p, j) \in Nat BY <1>1, OrdinalFacts
<1> QED BY <1>2, <1>3, <1>4

(* The name of a clone also says its context.                              *)
LEMMA ContextsOfNames ==
    ASSUME NEW m \in Modules, NEW u \in Numbers(m), NEW c \in Contextual, NEW d \in Contextual,
           CloneName(Fun(m, u).name, c) = CloneName(Fun(m, u).name, d)
    PROVE  c = d
<1> DEFINE a == Fun(m, u).name
           p == a.pieces
<1>1. a = [base |-> a.base, pieces |-> p] /\ p \in Pieces BY ModuleFacts
<1> HIDE DEF a, p
<1>2. p \o c \o <<Empty>> = p \o d \o <<Empty>>
  <2>1. CloneName(a, c) = [base |-> a.base, pieces |-> p \o c \o <<Empty>>] BY <1>1, CloneNameIs DEF p
  <2>2. CloneName(a, d) = [base |-> a.base, pieces |-> p \o d \o <<Empty>>] BY <1>1, CloneNameIs DEF p
  <2>3. [base |-> a.base, pieces |-> p \o c \o <<Empty>>] = [base |-> a.base, pieces |-> p \o d \o <<Empty>>]
    BY <2>1, <2>2 DEF a
  <2> QED BY <2>3
<1>3. c \in Seq(Nat) /\ d \in Seq(Nat) /\ Len(c) \in Nat /\ Len(d) \in Nat /\ Len(p) \in Nat
  BY <1>1, LenProperties DEF Contextual, Pieces
<1>4. Len(c) = Len(d)
  <2>1. Len(p \o c \o <<Empty>>) = Len(p) + Len(c) + 1 BY <1>1, PiecesOfClone
  <2>2. Len(p \o d \o <<Empty>>) = Len(p) + Len(d) + 1 BY <1>1, PiecesOfClone
  <2>3. Len(p \o c \o <<Empty>>) = Len(p \o d \o <<Empty>>) BY <1>2
  <2> QED BY <1>3, <2>1, <2>2, <2>3
<1>5. \A e \in Contextual : \A i \in 1 .. Len(e) : (p \o e \o <<Empty>>)[Len(p) + i] = e[i]
  <2> SUFFICES ASSUME NEW e \in Contextual, NEW i \in 1 .. Len(e)
               PROVE  (p \o e \o <<Empty>>)[Len(p) + i] = e[i]
    OBVIOUS
  <2>1. e \in Seq(Nat) /\ Len(e) \in Nat BY LenProperties DEF Contextual
  <2>2. e \in Pieces
    <3>1. \A j \in 1 .. Len(e) : e[j] \in Nat \cup {Empty} BY <2>1, ElementOfSeq
    <3> QED BY <2>1, <3>1, SeqInto DEF Pieces
  <2>3. p \o e \in Pieces /\ Len(p \o e) = Len(p) + Len(e) BY <1>1, <2>2 DEF Pieces
  <2>4. <<Empty>> \in Pieces /\ Len(<<Empty>>) = 1 BY DEF Pieces
  <2>5. (p \o e)[Len(p) + i] = e[i] BY <1>1, <2>1, <2>2 DEF Pieces
  <2>6. Len(p) + i \in 1 .. Len(p \o e) BY <1>3, <2>1, <2>3
  <2>7. (p \o e \o <<Empty>>)[Len(p) + i] = (p \o e)[Len(p) + i] BY <2>3, <2>4, <2>6 DEF Pieces
  <2> QED BY <2>5, <2>7
<1>6. \A i \in 1 .. Len(c) : c[i] = d[i]
  BY <1>2, <1>4, <1>5
<1> QED BY <1>3, <1>4, <1>6

(* What a call adds to a context.                                          *)
LEMMA LengthsOfContexts ==
    ASSUME NEW c \in Contextual, NEW a \in Nat, NEW b \in Nat
    PROVE  /\ Len(c \o <<a, b>>) = Len(c) + 2
           /\ c \o <<a, b>> # <<>>
           /\ (c \o <<a, b>>)[Len(c) + 1] = a /\ (c \o <<a, b>>)[Len(c) + 2] = b
           /\ \A j \in 1 .. Len(c) : (c \o <<a, b>>)[j] = c[j]
<1> DEFINE d == <<a, b>>
<1>1. d \in Seq(Nat) /\ Len(d) = 2 /\ d[1] = a /\ d[2] = b OBVIOUS
<1>2. c \in Seq(Nat) /\ Len(c) \in Nat BY LenProperties DEF Contextual
<1> HIDE DEF d
<1>3. /\ c \o d \in Seq(Nat) /\ Len(c \o d) = Len(c) + Len(d)
      /\ \A j \in 1 .. Len(c) + Len(d) : (c \o d)[j] = IF j <= Len(c) THEN c[j] ELSE d[j - Len(c)]
  BY <1>1, <1>2, ConcatProperties
<1>4. Len(c \o d) = Len(c) + 2 BY <1>1, <1>3
<1>5. c \o d # <<>> BY <1>2, <1>4
<1>6. (c \o d)[Len(c) + 1] = a /\ (c \o d)[Len(c) + 2] = b BY <1>1, <1>2, <1>3
<1>7. \A j \in 1 .. Len(c) : (c \o d)[j] = c[j] BY <1>1, <1>2, <1>3
<1> QED BY <1>4, <1>5, <1>6, <1>7 DEF d

-----------------------------------------------------------------------------
(* The copy that function v of the module is, what it asks for, and the    *)
(* calls it asks at.                                                       *)
Pair(v) == <<Fun(funs, v).of, Fun(funs, v).context>>
CopyFor(v, k) == CopyIn(mod, fullClone, Pair(v), k)
CopiedOf(v) == CopiedAt(mod, fullClone, Pair(v))

(* The search was for the module, and it is over when the cloning begins.  *)
SearchKept ==
    /\ Search!SearchInv
    /\ cg = CallGraph(mod)
    /\ pc # "scc" => SCC!Done

(* Every copy is of the kind of its function, and there is one for each    *)
(* context; that of an original is empty.                                  *)
OneForEach ==
    /\ \A v \in Numbers(funs) : Fun(funs, v).kind = Fun(mod, Fun(funs, v).of).kind
    /\ \A v \in Originals : Fun(funs, v).context = <<>>
    /\ \A c \in Clones : Fun(funs, c).context # <<>>
    /\ \A c, d \in Clones : Pair(c) = Pair(d) => c = d

(* ic is the ordinal of the tree.                                          *)
Counted ==
    \A n \in 1 .. Len(walks) :
        walks[n].ic = OrdinalIn(mod, fullClone, Pair(walks[n].fun), walks[n].k)

(* A walk waits for the copy that the tree asks for.                       *)
WaitsForCopy ==
    \A n \in 1 .. Len(walks) - 1 :
        /\ walks[n].k \in CopiedOf(walks[n].fun)
        /\ Pair(walks[n + 1].fun) = CopyFor(walks[n].fun, walks[n].k)

(* What a copy asks for behind the walks is there.                         *)
Supplied ==
    pc # "scc" =>
        \A v \in MainOf(mod) \cup Clones : \A k \in CopiedOf(v) :
            Pending(v, k) \/ \E c \in Clones : Pair(c) = CopyFor(v, k)

(* A call of a clone is one at which the tree asks for it.                 *)
EnteredBy ==
    ~MainIsCalled(mod) =>
        \A v \in MainOf(mod) \cup Clones : \A k \in 1 .. Len(Fun(funs, v).body) :
            Fun(funs, v).body[k] \in Clones =>
                /\ k \in CopiedOf(v)
                /\ Pair(Fun(funs, v).body[k]) = CopyFor(v, k)

(* The ids of the callers in a context, save that in main, get smaller,    *)
(* down to that of the function.                                           *)
DescendsTo(ids, context, of) ==
    \A i, j \in 1 .. Len(context) \div 2 :
        /\ context[2 * i - 1] \in DOMAIN ids
        /\ 1 < i => ids[of] < ids[context[2 * i - 1]]
        /\ 1 < i /\ i < j => ids[context[2 * j - 1]] < ids[context[2 * i - 1]]
Descending == \A c \in Clones : DescendsTo(id, Fun(funs, c).context, Fun(funs, c).of)

TreeInv ==
    /\ CloneInv /\ SearchKept
    /\ OneForEach /\ Counted /\ WaitsForCopy /\ Supplied /\ EnteredBy /\ Descending

-----------------------------------------------------------------------------
(* What the ids say once the search is over.                               *)
LEMMA IdFacts ==
    ASSUME mod \in Modules, SearchKept, pc # "scc"
    PROVE  /\ DOMAIN id = Originals
           /\ \A u \in Originals : id[u] \in Nat
           /\ \A u \in Originals : \A w \in Search!Succ[u] : w \in Originals /\ id[w] <= id[u]
           /\ \A u, v \in Originals : id[u] = id[v] => v \in Search!To[u]
<1>1. cg \in Graphs /\ cg = CallGraph(mod) /\ SCC!Done /\ Search!SearchInv
  BY DEF SearchKept, Graphs
<1>2. Len(cg) = Len(mod) /\ Search!Vertices = Originals /\ Search!V \in Nat
  <2>1. Len(cg) = Len(mod) /\ Len(mod) \in Nat BY <1>1, CallGraphIs, ModuleFacts
  <2> QED BY <2>1 DEF Search!Vertices, Search!V, Originals, Numbers
<1>3. Search!Closed = Originals
  <2>1. frames = <<>> /\ \A v \in Originals : marked[v]
    BY <1>1, <1>2 DEF SCC!Done, SCC!Vertices, SCC!V, Search!Vertices, Search!V
  <2>2. stack = <<>> BY <1>1, <2>1 DEF Search!SearchInv, Search!Order
  <2>3. DOMAIN stack = {} BY <2>2
  <2> QED BY <1>2, <2>1, <2>3 DEF Search!Closed
<1>4. id \in [Originals -> 0 .. Search!V] BY <1>1, <1>2 DEF Search!SearchInv, Search!TypeOK
<1>5. \A u \in Originals : id[u] \in Nat BY <1>2, <1>4
<1>6. /\ \A u \in Originals : \A w \in Search!Succ[u] : w \in Originals /\ id[w] <= id[u]
      /\ \A u, v \in Originals : id[u] = id[v] => v \in Search!To[u]
  BY <1>1, <1>3 DEF Search!SearchInv, Search!ClosedIds
<1> QED BY <1>4, <1>5, <1>6

(* A call leads to the same component or to an earlier number.             *)
LEMMA IdsAlongCalls ==
    ASSUME mod \in Modules, SearchKept, pc # "scc",
           NEW u \in Originals, NEW k \in 1 .. Len(Fun(mod, u).body),
           Fun(mod, u).body[k] \in Originals, Fun(mod, Fun(mod, u).body[k]).kind # "intrinsic"
    PROVE  id[Fun(mod, u).body[k]] <= id[u]
<1>1. Fun(mod, u).body[k] \in cg[u + 1] BY CallGraphIs DEF SearchKept, Originals
<1>2. Len(cg) = Len(mod) BY CallGraphIs DEF SearchKept
<1>3. Fun(mod, u).body[k] \in Search!Succ[u]
  <2>1. u \in 0 .. Len(cg) - 1 BY <1>2 DEF Originals, Numbers
  <2>2. Search!Succ[u] = {Search!Index(n) : n \in cg[u + 1]}
    BY <2>1 DEF Search!Succ, Search!SuccOf
  <2>3. Search!Index(Fun(mod, u).body[k]) = Fun(mod, u).body[k]
    BY InstsAssumption, ModuleFacts DEF Search!Index, Originals
  <2> QED BY <1>1, <2>2, <2>3
<1> QED BY <1>3, IdFacts

(* The ids tell the components apart.                                      *)
LEMMA IdsAreComponents ==
    ASSUME mod \in Modules, SearchKept, pc # "scc", NEW u \in Originals, NEW v \in Originals
    PROVE  id[u] = id[v] <=> SameIn(mod, u, v)
<1>1. cg \in Graphs /\ cg = CallGraph(mod) BY DEF SearchKept, Graphs
<1>2. Search!Vertices = Originals
  <2>1. Len(cg) = Len(mod) BY <1>1, CallGraphIs
  <2> QED BY <2>1 DEF Search!Vertices, Search!V, Originals, Numbers
<1>3. Search!To = Tree!ToOf(CallGraph(mod))
  BY <1>1 DEF Search!To, Search!ToOf, Tree!ToOf, Search!SuccOf, Tree!SuccOf, Search!Index, Tree!Index
<1>4. ASSUME NEW x \in Originals, NEW y \in Originals, y \in Search!To[x] PROVE id[y] <= id[x]
  <2> DEFINE S == {w \in Originals : id[w] <= id[x]}
  <2>1. x \in S BY IdFacts
  <2>2. \A w \in S : Search!Succ[w] \subseteq S
    <3> SUFFICES ASSUME NEW w \in Originals, id[w] <= id[x], NEW z \in Search!Succ[w]
                 PROVE  z \in Originals /\ id[z] <= id[x]
      OBVIOUS
    <3>1. z \in Originals /\ id[z] <= id[w] BY IdFacts
    <3>2. id[z] \in Nat /\ id[w] \in Nat /\ id[x] \in Nat BY <3>1, IdFacts
    <3> QED BY <3>1, <3>2
  <2>3. S \in SUBSET Originals OBVIOUS
  <2> HIDE DEF S
  <2>4. Search!To[x] \subseteq S BY <1>1, <1>2, <2>1, <2>2, <2>3, GraphsAssumption, Search!ToFacts
  <2> QED BY <1>4, <2>4 DEF S
<1>5. id[u] = id[v] => v \in Search!To[u] /\ u \in Search!To[v] BY IdFacts
<1>6. v \in Search!To[u] /\ u \in Search!To[v] => id[u] = id[v]
  <2>1. id[u] \in Nat /\ id[v] \in Nat BY IdFacts
  <2> QED BY <1>4, <2>1
<1> QED BY <1>3, <1>5, <1>6 DEF SameIn

(* The database only asks for the length of a context.                     *)
LEMMA SkipByLength ==
    ASSUME NEW fun, NEW c, NEW d, Len(c) = Len(d)
    PROVE  Skip(fullClone, fun, c) <=> Skip(fullClone, fun, d)
BY DEF Skip

(* The calls the pass clones at are those at which the tree asks for a     *)
(* copy, and the copy has the context of the tree.                         *)
LEMMA CallInTree ==
    ASSUME TreeInv, AtCall, InCallGraph
    PROVE  /\ Walk.fun \in MainOf(mod) \cup Clones /\ Walk.fun \in Numbers(funs)
           /\ InMain => Self.context = <<>>
           /\ ~InMain => Self.context # <<>> /\ Self.context \in Contextual /\ Walk.fun \in Clones
           /\ Self.of \in Originals /\ Walk.ic \in Nat
           /\ Walk.k \in 1 .. Len(BodyIn(mod, Pair(Walk.fun)))
           /\ BodyIn(mod, Pair(Walk.fun)) = Fun(mod, Self.of).body
           /\ Inst = BodyIn(mod, Pair(Walk.fun))[Walk.k]
           /\ LeftAlone <=> ~CopiedIn(mod, fullClone, Pair(Walk.fun), Inst)
           /\ ~LeftAlone => /\ Inst \in Originals /\ Fun(mod, Inst).kind = "defined"
                            /\ Walk.k \in CopiedOf(Walk.fun)
                            /\ CopyFor(Walk.fun, Walk.k) = <<Inst, CalleeContext(Inst)>>
<1> DEFINE v == Walk.fun
           p == Pair(v)
<1>1. CloneInv /\ Walking /\ ~AtEnd /\ IsCall(Inst) BY DEF TreeInv, AtCall
<1>2. /\ Len(walks) \in 1 .. Len(walks) /\ Len(walks) \in Nat /\ v \in Numbers(funs)
      /\ Walk.k \in 1 .. Len(Self.body) /\ Len(Self.body) \in Nat
      /\ Inst \in Numbers(funs) \cup {External, Load, Plain}
      /\ Original(funs, Inst) = Fun(mod, Self.of).body[Walk.k]
      /\ pc = "clone"
  BY <1>1, WalkingFacts
<1>3. /\ InMain => v \in MainOf(mod)
      /\ ~InMain => v \in Clones
      /\ Walk.ic \in Nat
  BY <1>1, <1>2, WalkFacts DEF Walk, InMain
<1>4. /\ mod \in Modules /\ MainOf(mod) \subseteq Originals /\ Self.of \in Originals
      /\ Originals \subseteq Numbers(funs)
      /\ Len(Fun(mod, Self.of).body) = Len(Self.body)
      /\ Self \in FunRecords
  BY <1>1, <1>2, FunFacts DEF CloneInv, Self
<1>5. /\ InMain => Self.context = <<>>
      /\ ~InMain => Self.context # <<>> /\ Self.context \in Contextual
  <2>1. InMain => Self.context = <<>> BY <1>3, <1>4 DEF TreeInv, OneForEach, Self
  <2>2. ~InMain => Self.context # <<>> BY <1>3 DEF TreeInv, OneForEach, Self
  <2>3. ~InMain => Self.context \in Contextual
    BY <1>1, <1>3 DEF CloneInv, FunsInv, NamedAfter, Self
  <2> QED BY <2>1, <2>2, <2>3
<1>6. p = <<Self.of, Self.context>> /\ p[1] = Self.of /\ p[2] = Self.context
  BY DEF Pair, Self
<1>7. /\ BodyIn(mod, p) = Fun(mod, Self.of).body
      /\ Walk.k \in 1 .. Len(BodyIn(mod, p))
      /\ \A k \in 1 .. Len(BodyIn(mod, p)) : BodyIn(mod, p)[k] \in Program
  BY <1>2, <1>4, <1>6, BodyFacts
<1> HIDE DEF p, v
<1>8. Inst = BodyIn(mod, p)[Walk.k]
  <2>1. CASE InMain
    <3>1. Len(walks) = 1 /\ Len(walks) \in DOMAIN walks
      BY <1>1, <1>2, <2>1, WalkFacts DEF InMain
    <3>2. Walk.k \in Walk.k .. Len(Self.body) BY <1>2
    <3>3. Fun(funs, Walk.fun).body[Walk.k] = Fun(mod, Fun(funs, Walk.fun).of).body[Walk.k]
      BY <1>1, <3>1, <3>2 DEF CloneInv, Ahead, Walk, Self
    <3> QED BY <1>7, <3>3 DEF Inst, Self
  <2>2. CASE Inst = External
    <3>1. Original(funs, Inst) = Inst BY <2>2 DEF Original
    <3> QED BY <1>2, <1>7, <3>1
  <2>3. CASE Inst \in Originals
    <3>1. Inst # External BY <2>3, InstsAssumption, <1>4, ModuleFacts DEF Originals
    <3>2. Fun(funs, Inst).of = Inst BY <1>1, <2>3 DEF CloneInv, FunsInv, NamedAfter
    <3>3. Original(funs, Inst) = Inst BY <1>1, <3>1, <3>2 DEF Original
    <3> QED BY <1>2, <1>7, <3>3
  <2> QED BY <2>1, <2>2, <2>3 DEF InCallGraph
<1>9. Inst \in Originals \cup {External}
  BY <1>1, <1>7, <1>8 DEF Program, IsCall
<1>10. IsDefined(funs, Inst) <=> IsDefined(mod, Inst)
  <2>1. CASE Inst = External BY <2>1 DEF IsDefined
  <2>2. CASE Inst \in Originals
    <3>1. Fun(funs, Inst).of = Inst BY <1>1, <2>2 DEF CloneInv, FunsInv, NamedAfter
    <3>2. Fun(funs, Inst).kind = Fun(mod, Inst).kind
      BY <1>4, <2>2, <3>1 DEF TreeInv, OneForEach
    <3> QED BY <3>2 DEF IsDefined
  <2> QED BY <1>9, <2>1, <2>2
<1>11. ASSUME Inst \in Originals
       PROVE  /\ ~InMain => (SccId(Inst) # SccId(Self.of) <=> ~SameIn(mod, p[1], Inst))
              /\ CalleeContext(Inst) = ContextIn(mod, p, Inst, Walk.ic)
              /\ ~InMain => Len(CalleeContext(Inst)) = Len(ContextIn(mod, p, Inst, 0))
  <2>1. SccId(Inst) = id[Inst] /\ SccId(Self.of) = id[Self.of]
    <3>1. Inst # External /\ Self.of # External
      BY <1>4, <1>11, InstsAssumption, ModuleFacts DEF Originals
    <3> QED BY <3>1 DEF SccId, SCC!Index
  <2>2. id[Self.of] = id[Inst] <=> SameIn(mod, Self.of, Inst)
    BY <1>2, <1>4, <1>11, IdsAreComponents DEF TreeInv
  <2>3. ~InMain => (SccId(Inst) # SccId(Self.of) <=> ~SameIn(mod, p[1], Inst))
    BY <1>6, <2>1, <2>2
  <2>4. CASE InMain
    <3>1. p[2] = <<>> BY <1>5, <1>6, <2>4
    <3>2. CalleeContext(Inst) = <<>> \o <<Self.of, Walk.ic>> BY <2>4 DEF CalleeContext, Stitch
    <3> QED BY <1>6, <2>4, <3>1, <3>2 DEF ContextIn
  <2>5. CASE ~InMain /\ SccId(Inst) # SccId(Self.of)
    <3>1. CalleeContext(Inst) = Self.context \o <<Self.of, Walk.ic>> BY <2>5 DEF CalleeContext, Stitch
    <3>2. \A ordinal : ContextIn(mod, p, Inst, ordinal) = Self.context \o <<Self.of, ordinal>>
      BY <1>6, <2>3, <2>5 DEF ContextIn
    <3>3. Self.of \in Nat /\ 0 \in Nat BY <1>4, ModuleFacts DEF Originals
    <3>4. \A ordinal \in Nat : Len(Self.context \o <<Self.of, ordinal>>) = Len(Self.context) + 2
      BY <1>5, <2>5, <3>3, LengthsOfContexts
    <3> QED BY <1>3, <2>3, <2>5, <3>1, <3>2, <3>3, <3>4
  <2>6. CASE ~InMain /\ SccId(Inst) = SccId(Self.of)
    <3>1. CalleeContext(Inst) = Self.context BY <2>6 DEF CalleeContext
    <3>2. \A ordinal : ContextIn(mod, p, Inst, ordinal) = Self.context
      BY <1>5, <1>6, <2>3, <2>6 DEF ContextIn
    <3> QED BY <2>3, <3>1, <3>2
  <2> QED BY <2>4, <2>5, <2>6
<1>12. LeftAlone <=> ~CopiedIn(mod, fullClone, p, Inst)
  <2>1. CASE ~IsDefined(mod, Inst) BY <1>10, <2>1 DEF LeftAlone, CopiedIn
  <2>2. CASE IsDefined(mod, Inst)
    <3>1. Inst \in Originals BY <1>9, <2>2 DEF IsDefined
    <3>2. CASE InMain
      <4>1. p[2] = <<>> BY <1>5, <1>6, <3>2
      <4> QED BY <1>1, <1>10, <2>2, <3>2, <4>1 DEF LeftAlone, CopiedIn, Skipped
    <3>3. CASE ~InMain
      <4>1. p[2] # <<>> BY <1>5, <1>6, <3>3
      <4>2. Skip(fullClone, Fun(mod, Inst), CalleeContext(Inst))
              <=> Skip(fullClone, Fun(mod, Inst), ContextIn(mod, p, Inst, 0))
        BY <1>11, <3>1, <3>3, SkipByLength
      <4> QED BY <1>1, <1>10, <2>2, <3>3, <4>1, <4>2 DEF LeftAlone, CopiedIn, Skipped
    <3> QED BY <3>2, <3>3
  <2> QED BY <2>1, <2>2
<1>13. ASSUME ~LeftAlone
       PROVE  /\ Inst \in Originals /\ Fun(mod, Inst).kind = "defined"
              /\ Walk.k \in CopiedOf(v)
              /\ CopyFor(v, Walk.k) = <<Inst, CalleeContext(Inst)>>
  <2>1. Inst \in Originals /\ Fun(mod, Inst).kind = "defined"
    BY <1>9, <1>12, <1>13 DEF CopiedIn, IsDefined
  <2>2. Walk.k \in CopiedOf(v) BY <1>7, <1>8, <1>12, <1>13 DEF CopiedOf, CopiedAt, p
  <2>3. Walk.ic = OrdinalIn(mod, fullClone, p, Walk.k)
    BY <1>2 DEF TreeInv, Counted, Walk, p, v
  <2>4. CopyFor(v, Walk.k) = <<Inst, ContextIn(mod, p, Inst, Walk.ic)>>
    BY <1>8, <2>3 DEF CopyFor, CopyIn, p
  <2> QED BY <1>11, <2>1, <2>2, <2>4
<1> QED BY <1>2, <1>3, <1>4, <1>5, <1>7, <1>8, <1>12, <1>13 DEF p, v

(* A function found under the name of the copy is that copy.               *)
LEMMA CloneInTree ==
    ASSUME TreeInv, AtCall, InCallGraph, ~LeftAlone, NEW clone \in Named(funs, NewName)
    PROVE  clone \in Clones /\ Pair(clone) = CopyFor(Walk.fun, Walk.k)
<1>1. CloneInv BY DEF TreeInv
<1>2. clone \in Clones /\ Fun(funs, clone).of = Inst BY <1>1, CloneFound
<1>3. /\ Inst \in Originals /\ CalleeContext(Inst) \in Contextual /\ mod \in Modules
  BY <1>1, CalleeKnown, FunFacts DEF CloneInv
<1>4. Fun(funs, clone).name = CloneName(Fun(mod, Inst).name, CalleeContext(Inst))
  BY DEF Named, NewName
<1>5. /\ Fun(funs, clone).context \in Contextual
      /\ Fun(funs, clone).name = CloneName(Fun(mod, Inst).name, Fun(funs, clone).context)
  BY <1>1, <1>2 DEF CloneInv, FunsInv, NamedAfter
<1>6. Fun(funs, clone).context = CalleeContext(Inst)
  BY <1>3, <1>4, <1>5, ContextsOfNames DEF Originals
<1>7. CopyFor(Walk.fun, Walk.k) = <<Inst, CalleeContext(Inst)>> BY CallInTree
<1> QED BY <1>2, <1>6, <1>7 DEF Pair

(* The callers stand at the odd places of a context.                       *)
LEMMA HalfOf ==
    ASSUME NEW l \in Nat, l % 2 = 0
    PROVE  /\ (l + 2) \div 2 = l \div 2 + 1 /\ l \div 2 \in Nat
           /\ \A i \in 1 .. l \div 2 : 2 * i - 1 \in 1 .. l
           /\ 2 * (l \div 2 + 1) - 1 = l + 1
OBVIOUS

(* A call that is cloned goes down, or stays in its component.             *)
LEMMA ContextDescends ==
    ASSUME TreeInv, AtCall, InCallGraph, ~LeftAlone
    PROVE  DescendsTo(id, CalleeContext(Inst), Inst)
<1> DEFINE of  == Self.of
           c   == Self.context
           ic  == Walk.ic
<1>1. /\ of \in Originals /\ ic \in Nat /\ Inst \in Originals
      /\ InMain => c = <<>>
      /\ ~InMain => c \in Contextual /\ Walk.fun \in Clones
      /\ mod \in Modules
  <2>1. mod \in Modules BY FunFacts DEF TreeInv, CloneInv
  <2> QED BY <2>1, CallInTree
<1>2. of \in Nat /\ of # External /\ Inst # External
  BY <1>1, InstsAssumption, ModuleFacts DEF Originals
<1>3. /\ pc # "scc" /\ id[Inst] <= id[of] /\ SearchKept
      /\ id[Inst] \in Nat /\ id[of] \in Nat
      /\ DOMAIN id = Originals /\ \A u \in Originals : id[u] \in Nat
  <2>1. pc # "scc" /\ SearchKept BY DEF AtCall, Walking, TreeInv
  <2>2. Walk.k \in 1 .. Len(Fun(mod, of).body) /\ Inst = Fun(mod, of).body[Walk.k]
        /\ Fun(mod, Inst).kind = "defined"
    BY CallInTree
  <2>3. "defined" # "intrinsic" OBVIOUS
  <2>4. id[Inst] <= id[of] BY <1>1, <2>1, <2>2, <2>3, IdsAlongCalls
  <2> QED BY <1>1, <2>1, <2>4, IdFacts
<1>4. CASE InMain
  <2>1. CalleeContext(Inst) = <<>> \o <<of, ic>> BY <1>4 DEF CalleeContext, Stitch
  <2>2. <<>> \in Contextual /\ Len(<<>>) = 0
    <3>1. <<>> \in Seq(Nat) /\ Len(<<>>) = 0 /\ 0 % 2 = 0 OBVIOUS
    <3> QED BY <3>1 DEF Contextual
  <2> HIDE DEF of, ic
  <2>3. Len(CalleeContext(Inst)) = 2 /\ CalleeContext(Inst)[1] = of
    <3>1. Len(<<>> \o <<of, ic>>) = Len(<<>>) + 2 /\ (<<>> \o <<of, ic>>)[Len(<<>>) + 1] = of
      BY <1>1, <1>2, <2>2, LengthsOfContexts
    <3> QED BY <2>1, <2>2, <3>1
  <2>4. \A i \in 1 .. Len(CalleeContext(Inst)) \div 2 : i = 1 /\ 2 * i - 1 = 1 BY <2>3
  <2>5. 1 .. Len(CalleeContext(Inst)) \div 2 = 1 .. 1 BY <2>3
  <2> QED BY <1>1, <1>3, <2>3, <2>4, <2>5 DEF DescendsTo
<1>5. CASE ~InMain
  <2>1. DescendsTo(id, c, of) /\ c \in Contextual /\ c \in Seq(Nat)
    BY <1>1, <1>5 DEF TreeInv, Descending, Self, Contextual
  <2>2. Len(c) \in Nat /\ Len(c) % 2 = 0 BY <2>1, LenProperties DEF Contextual
  <2> DEFINE h == Len(c) \div 2
  <2>3. /\ h \in Nat /\ 2 * (h + 1) - 1 = Len(c) + 1 /\ (Len(c) + 2) \div 2 = h + 1
        /\ \A i \in 1 .. h : 2 * i - 1 \in 1 .. Len(c)
    BY <2>2, HalfOf
  <2>4. \A i, j \in 1 .. h :
            /\ c[2 * i - 1] \in Originals /\ id[c[2 * i - 1]] \in Nat
            /\ 1 < i => id[of] < id[c[2 * i - 1]]
            /\ 1 < i /\ i < j => id[c[2 * j - 1]] < id[c[2 * i - 1]]
    BY <1>3, <2>1 DEF DescendsTo
  <2>5. CASE SccId(Inst) = SccId(Self.of)
    <3>1. CalleeContext(Inst) = c BY <1>5, <2>5 DEF CalleeContext
    <3>2. id[Inst] = id[of] BY <1>2, <2>5 DEF SccId, SCC!Index
    <3> QED BY <2>1, <3>1, <3>2 DEF DescendsTo
  <2>6. CASE SccId(Inst) # SccId(Self.of)
    <3> DEFINE d == c \o <<of, ic>>
    <3>1. CalleeContext(Inst) = d BY <1>5, <2>6 DEF CalleeContext, Stitch
    <3>2. id[Inst] < id[of]
      <4>1. id[Inst] # id[of] BY <1>2, <2>6 DEF SccId, SCC!Index
      <4> QED BY <1>3, <4>1
    <3> HIDE DEF of, c, ic, h
    <3>3. /\ Len(d) = Len(c) + 2 /\ d[Len(c) + 1] = of
          /\ \A j \in 1 .. Len(c) : d[j] = c[j]
      BY <1>1, <1>2, <2>1, LengthsOfContexts
    <3> HIDE DEF d
    <3>4. Len(d) \div 2 = h + 1 BY <2>3, <3>3
    <3>5. \A i \in 1 .. h + 1 : i \in 1 .. h \/ i = h + 1 BY <2>3
    <3>6. d[2 * (h + 1) - 1] = of /\ \A i \in 1 .. h : d[2 * i - 1] = c[2 * i - 1]
      BY <2>3, <3>3
    <3>7. ASSUME NEW i \in 1 .. h + 1, NEW j \in 1 .. h + 1
          PROVE  /\ d[2 * i - 1] \in Originals
                 /\ 1 < i => id[Inst] < id[d[2 * i - 1]]
                 /\ 1 < i /\ i < j => id[d[2 * j - 1]] < id[d[2 * i - 1]]
      <4>1. d[2 * i - 1] \in Originals BY <1>1, <2>4, <3>5, <3>6
      <4>2. 1 < i => id[Inst] < id[d[2 * i - 1]]
        <5>1. CASE i \in 1 .. h
          <6>1. 1 < i => id[of] < id[c[2 * i - 1]] /\ id[c[2 * i - 1]] \in Nat BY <2>4, <5>1
          <6> QED BY <1>3, <3>2, <3>6, <5>1, <6>1
        <5>2. CASE i = h + 1 BY <3>2, <3>6, <5>2
        <5> QED BY <3>5, <5>1, <5>2
      <4>3. 1 < i /\ i < j => id[d[2 * j - 1]] < id[d[2 * i - 1]]
        <5> SUFFICES ASSUME 1 < i, i < j PROVE id[d[2 * j - 1]] < id[d[2 * i - 1]] OBVIOUS
        <5>1. i \in 1 .. h BY <2>3
        <5>2. CASE j \in 1 .. h BY <2>4, <3>6, <5>1, <5>2
        <5>3. CASE j = h + 1 BY <2>4, <3>6, <5>1, <5>3
        <5> QED BY <3>5, <5>2, <5>3
      <4> QED BY <4>1, <4>2, <4>3
    <3> QED BY <1>3, <3>1, <3>4, <3>7 DEF DescendsTo
  <2> QED BY <2>5, <2>6
<1> QED BY <1>4, <1>5

(* The cloning leaves what the search has found alone.                     *)
LEMMA SearchStays ==
    ASSUME SearchKept, UNCHANGED <<sccVars, mod>>, pc' # "scc" => pc # "scc" \/ SCC!Done
    PROVE  SearchKept'
<1>1. Search!SearchInv' BY SearchStep DEF SearchKept
<1>2. cg' = CallGraph(mod') BY DEF SearchKept, sccVars
<1>3. SCC!Done => SCC!Done' BY DEF SCC!Done, SCC!Vertices, SCC!V, sccVars
<1> QED BY <1>1, <1>2, <1>3 DEF SearchKept

(* Nor do the steps of the search lose anything.                           *)
LEMMA SearchMoves ==
    ASSUME SearchKept, BuildSCC
    PROVE  SearchKept'
<1>1. pc' = "scc" /\ mod' = mod /\ SCC!Next BY DEF BuildSCC, cloneVars
<1>2. Search!SearchInv' BY <1>1, SearchStep DEF SearchKept
<1>3. cg' = cg
  BY <1>1 DEF SCC!Next, SCC!Root, SCC!Descend, SCC!Enter, SCC!Compare, SCC!ReturnLower, SCC!PopComponent
<1> QED BY <1>1, <1>2, <1>3 DEF SearchKept

(* Copies do not change.                                                   *)
LEMMA PairsKept ==
    ASSUME mod' = mod, fullClone' = fullClone, NEW v,
           Fun(funs', v).of = Fun(funs, v).of, Fun(funs', v).context = Fun(funs, v).context
    PROVE  /\ Pair(v)' = Pair(v) /\ CopiedOf(v)' = CopiedOf(v)
           /\ \A k : CopyFor(v, k)' = CopyFor(v, k)
<1>1. Pair(v)' = Pair(v) BY DEF Pair
<1> QED BY <1>1 DEF CopiedOf, CopyFor

(* The body of a copy is as long as that of its function.                  *)
LEMMA CopyFacts ==
    ASSUME FunsInv, NEW v \in Numbers(funs)
    PROVE  /\ Fun(funs, v).of \in Originals /\ mod \in Modules
           /\ BodyIn(mod, Pair(v)) = Fun(mod, Fun(funs, v).of).body
           /\ Len(BodyIn(mod, Pair(v))) = Len(Fun(funs, v).body)
           /\ Len(Fun(funs, v).body) \in Nat
           /\ \A k \in CopiedOf(v) : k \in 1 .. Len(Fun(funs, v).body)
<1>1. Fun(funs, v).of \in Originals /\ mod \in Modules BY FunFacts
<1>2. BodyIn(mod, Pair(v)) = Fun(mod, Fun(funs, v).of).body BY DEF BodyIn, Pair
<1> QED BY <1>1, <1>2, FunFacts DEF CopiedOf, CopiedAt

(***************************************************************************)
(* Walk n moves on, past an instruction for which no copy is needed or the *)
(* copy is there. The walks above it are at their end.                     *)
(***************************************************************************)
LEMMA MovingInTree ==
    ASSUME TreeInv, Walking, NEW n \in 1 .. Len(walks), NEW counted \in {0, 1}, MovesOn(n, counted),
           walks[n].k <= Len(Fun(funs, walks[n].fun).body),
           UNCHANGED <<sccVars, mod, fullClone, pc>>, Len(funs') = Len(funs),
           \A v \in Numbers(funs) : /\ Fun(funs', v).of = Fun(funs, v).of
                                    /\ Fun(funs', v).kind = Fun(funs, v).kind
                                    /\ Fun(funs', v).context = Fun(funs, v).context
                                    /\ Len(Fun(funs', v).body) = Len(Fun(funs, v).body),
           counted = 1 <=> CountedIn(mod, fullClone, Pair(walks[n].fun),
                                     BodyIn(mod, Pair(walks[n].fun))[walks[n].k]),
           walks[n].k \in CopiedOf(walks[n].fun) =>
               \E c \in Clones : Pair(c) = CopyFor(walks[n].fun, walks[n].k),
           \A i \in n + 1 .. Len(walks) : walks[i].k > Len(Fun(funs, walks[i].fun).body)
    PROVE  /\ SearchKept' /\ OneForEach' /\ Counted' /\ WaitsForCopy' /\ Supplied' /\ Descending'
           /\ Clones' = Clones /\ MainOf(mod)' = MainOf(mod) /\ Numbers(funs') = Numbers(funs)
           /\ \A v \in Numbers(funs) : /\ Pair(v)' = Pair(v) /\ CopiedOf(v)' = CopiedOf(v)
                                       /\ \A k : CopyFor(v, k)' = CopyFor(v, k)
<1>1. CloneInv /\ FunsInv /\ pc # "scc" BY DEF TreeInv, CloneInv, Walking
<1>2. /\ DOMAIN walks' = 1 .. n /\ Len(walks') = n /\ n \in Nat /\ Len(walks) \in Nat
      /\ \A i \in 1 .. n : i \in 1 .. Len(walks) /\ walks'[i].fun = walks[i].fun
      /\ \A i \in 1 .. n : walks'[i].k = IF i = n THEN walks[i].k + 1 ELSE walks[i].k
      /\ DOMAIN walks = 1 .. Len(walks)
  <2>1. /\ DOMAIN walks' = 1 .. n
        /\ \A i \in 1 .. n : i \in 1 .. Len(walks) /\ walks'[i].fun = walks[i].fun
        /\ \A i \in 1 .. n : walks'[i].k = IF i = n THEN walks[i].k + 1 ELSE walks[i].k
    BY <1>1, MovingWalksTyped
  <2> QED BY <1>1, <2>1, WalkFacts DEF MovesOn
<1>3. /\ walks'[n].ic = walks[n].ic + counted
      /\ \A i \in 1 .. n - 1 : walks'[i] = walks[i]
  BY DEF MovesOn
<1>4. /\ Clones' = Clones /\ MainOf(mod)' = MainOf(mod) /\ Numbers(funs') = Numbers(funs)
      /\ Originals' = Originals /\ Numbers(funs)' = Numbers(funs)
  BY DEF Clones, Originals, MainOf, Named, Numbers
<1>5. \A v \in Numbers(funs) : /\ Pair(v)' = Pair(v) /\ CopiedOf(v)' = CopiedOf(v)
                               /\ \A k : CopyFor(v, k)' = CopyFor(v, k)
  BY PairsKept
<1>6. /\ Clones \subseteq Numbers(funs) /\ Originals \subseteq Numbers(funs)
      /\ MainOf(mod) \subseteq Numbers(funs)
      /\ \A i \in 1 .. Len(walks) : walks[i].fun \in Numbers(funs) /\ walks[i].k \in Nat \ {0}
  <2>1. Originals \subseteq Numbers(funs) /\ MainOf(mod) \subseteq Originals BY <1>1, FunFacts
  <2>2. \A i \in 1 .. Len(walks) : walks[i].fun \in Numbers(funs) /\ walks[i].k \in Nat \ {0}
    BY <1>1, WalkFacts
  <2>3. Clones \subseteq Numbers(funs) BY DEF Clones
  <2> QED BY <2>1, <2>2, <2>3
<1>7. SearchKept'
  <2>1. pc' # "scc" => pc # "scc" \/ SCC!Done BY <1>1
  <2> QED BY <2>1, SearchStays DEF TreeInv
<1>8. OneForEach'
  <2>1. \A v \in Numbers(funs) : Fun(funs', v).kind = Fun(mod, Fun(funs', v).of).kind
    BY DEF TreeInv, OneForEach
  <2>2. \A v \in Originals : Fun(funs', v).context = <<>> BY <1>6 DEF TreeInv, OneForEach
  <2>3. \A c \in Clones : Fun(funs', c).context # <<>> BY <1>6 DEF TreeInv, OneForEach
  <2>4. \A c, d \in Clones : Pair(c)' = Pair(d)' => c = d
    BY <1>5, <1>6 DEF TreeInv, OneForEach
  <2> QED BY <1>4, <2>1, <2>2, <2>3, <2>4 DEF OneForEach
<1> DEFINE Now(i) == <<Fun(funs', walks'[i].fun).of, Fun(funs', walks'[i].fun).context>>
<1>9. \A i \in 1 .. n : Now(i) = Pair(walks[i].fun)
  BY <1>2, <1>6 DEF Pair
<1>10. Counted'
  <2> SUFFICES ASSUME NEW i \in 1 .. n
               PROVE  walks'[i].ic = OrdinalIn(mod, fullClone, Now(i), walks'[i].k)
    BY <1>2 DEF Counted, Pair
  <2> HIDE DEF Now
  <2>1. /\ Now(i) = Pair(walks[i].fun)
        /\ walks[i].ic = OrdinalIn(mod, fullClone, Pair(walks[i].fun), walks[i].k)
    BY <1>2, <1>9 DEF TreeInv, Counted
  <2>2. CASE i = n
    <3> DEFINE p == Pair(walks[i].fun)
               k == walks[i].k
    <3>1. walks'[i].k = k + 1 /\ walks'[i].ic = walks[i].ic + counted /\ k \in Nat \ {0}
      BY <1>2, <1>3, <1>6, <2>2
    <3>2. counted = 1 <=> CountedIn(mod, fullClone, p, BodyIn(mod, p)[k]) BY <2>2
    <3>3. walks[i].ic = OrdinalIn(mod, fullClone, p, k) /\ Now(i) = p BY <2>1
    <3> HIDE DEF p, k
    <3>4. OrdinalIn(mod, fullClone, p, k + 1) = OrdinalIn(mod, fullClone, p, k) + counted
      <4>1. CASE counted = 1 BY <3>1, <3>2, <4>1, OrdinalFacts
      <4>2. CASE counted = 0
        <5>1. OrdinalIn(mod, fullClone, p, k + 1) = OrdinalIn(mod, fullClone, p, k)
          BY <3>1, <3>2, <4>2, OrdinalFacts
        <5>2. OrdinalIn(mod, fullClone, p, k) \in Nat BY <3>1, OrdinalFacts
        <5> QED BY <4>2, <5>1, <5>2
      <4> QED BY <4>1, <4>2
    <3> QED BY <3>1, <3>3, <3>4
  <2>3. CASE i # n
    <3>1. i \in 1 .. n - 1 BY <1>2, <2>3
    <3> QED BY <1>3, <2>1, <3>1
  <2> QED BY <2>2, <2>3
<1>11. WaitsForCopy'
  <2> SUFFICES ASSUME NEW i \in 1 .. n - 1
               PROVE  /\ walks'[i].k \in CopiedAt(mod, fullClone, Now(i))
                      /\ Now(i + 1) = CopyIn(mod, fullClone, Now(i), walks'[i].k)
    BY <1>2 DEF WaitsForCopy, Pair, CopiedOf, CopyFor
  <2> HIDE DEF Now
  <2>1. i \in 1 .. n /\ i + 1 \in 1 .. n /\ i # n /\ i \in 1 .. Len(walks) - 1 BY <1>2
  <2>2. walks'[i].k = walks[i].k BY <1>2, <2>1
  <2>3. /\ walks[i].k \in CopiedOf(walks[i].fun)
        /\ Pair(walks[i + 1].fun) = CopyFor(walks[i].fun, walks[i].k)
    BY <2>1 DEF TreeInv, WaitsForCopy
  <2> QED BY <1>9, <2>1, <2>2, <2>3 DEF CopiedOf, CopyFor
<1>12. Supplied'
  <2> SUFFICES ASSUME NEW v \in MainOf(mod) \cup Clones, NEW k \in CopiedOf(v),
                      ~ \E c \in Clones : Pair(c) = CopyFor(v, k)
               PROVE  Pending(v, k)'
    BY <1>4, <1>5, <1>6 DEF Supplied
  <2>1. PICK i \in DOMAIN walks : walks[i].fun = v /\ walks[i].k <= k
    BY <1>1 DEF TreeInv, Supplied, Pending
  <2>2. /\ k \in 1 .. Len(Fun(funs, v).body) /\ Len(Fun(funs, v).body) \in Nat
        /\ i \in 1 .. Len(walks) /\ walks[i].k \in Nat
    BY <1>1, <1>2, <1>6, <2>1, CopyFacts
  <2>3. i \in 1 .. n
    <3>1. ~(walks[i].k > Len(Fun(funs, v).body)) BY <2>1, <2>2
    <3> QED BY <1>2, <2>1, <2>2, <3>1
  <2>4. ~(i = n /\ walks[i].k = k) BY <2>1
  <2>5. walks'[i].k <= k /\ walks'[i].fun = v /\ i \in DOMAIN walks' BY <1>2, <2>1, <2>2, <2>3, <2>4
  <2> QED BY <2>5 DEF Pending
<1>13. Descending'
  <2>1. id' = id BY DEF sccVars
  <2> QED BY <1>4, <1>6, <2>1 DEF TreeInv, Descending
<1> QED BY <1>4, <1>5, <1>7, <1>8, <1>10, <1>11, <1>12, <1>13

(* The instruction at which the running walk stands is left as it is.      *)
LEMMA AdvancingInTree ==
    ASSUME TreeInv, CloneInv', Walking, ~AtEnd, NEW counted \in {0, 1}, Advance(counted),
           counted = 1 <=> CountedIn(mod, fullClone, Pair(Walk.fun), BodyIn(mod, Pair(Walk.fun))[Walk.k]),
           Walk.k \notin CopiedOf(Walk.fun),
           UNCHANGED <<sccVars, mod, fullClone, funs, pc>>
    PROVE  TreeInv'
<1> DEFINE n == Len(walks)
<1>1. CloneInv /\ Walk = walks[n] BY DEF TreeInv, Walk
<1>2. /\ n \in 1 .. Len(walks) /\ n \in Nat
      /\ walks[n].k <= Len(Fun(funs, walks[n].fun).body)
  <2>1. Walk.k \in 1 .. Len(Self.body) /\ Len(Self.body) \in Nat BY <1>1, WalkingFacts
  <2> QED BY <1>1, <2>1, WalkingFacts DEF Self, Walk
<1>3. MovesOn(n, counted) BY <1>1, <1>2, StepMovesOn
<1>4. \A i \in n + 1 .. Len(walks) : walks[i].k > Len(Fun(funs, walks[i].fun).body) BY <1>2
<1> HIDE DEF n
<1>5. /\ SearchKept' /\ OneForEach' /\ Counted' /\ WaitsForCopy' /\ Supplied' /\ Descending'
      /\ Clones' = Clones /\ MainOf(mod)' = MainOf(mod)
      /\ \A v \in Numbers(funs) : /\ Pair(v)' = Pair(v) /\ CopiedOf(v)' = CopiedOf(v)
                                  /\ \A k : CopyFor(v, k)' = CopyFor(v, k)
  BY <1>1, <1>2, <1>3, <1>4, MovingInTree
<1>6. EnteredBy'
  <2>1. MainIsCalled(mod)' = MainIsCalled(mod) BY DEF MainIsCalled, MainOf, Named, CallsIn
  <2>2. \A v \in MainOf(mod) \cup Clones : v \in Numbers(funs) BY <1>1, FunFacts DEF CloneInv, Clones
  <2> QED BY <1>5, <2>1, <2>2 DEF TreeInv, EnteredBy
<1> QED BY <1>5, <1>6 DEF TreeInv

LEMMA VisitPlainInTree == ASSUME TreeInv, VisitPlain PROVE TreeInv'
<1>1. /\ CloneInv /\ Walking /\ ~AtEnd /\ ~IsCall(Inst) /\ Advance(1)
      /\ UNCHANGED <<sccVars, mod, fullClone, funs, pc>>
  BY DEF TreeInv, VisitPlain
<1>2. CloneInv' BY <1>1, VisitPlainInv
<1>3. BodyIn(mod, Pair(Walk.fun))[Walk.k] = Inst
  <2>1. Original(funs, Inst) = Fun(mod, Self.of).body[Walk.k] BY <1>1, WalkingFacts
  <2> QED BY <1>1, <2>1 DEF Original, BodyIn, Pair, Self
<1>4. CountedIn(mod, fullClone, Pair(Walk.fun), Inst) /\ Walk.k \notin CopiedOf(Walk.fun)
  BY <1>1, <1>3 DEF CountedIn, CopiedOf, CopiedAt, CopiedIn
<1> QED BY <1>1, <1>2, <1>3, <1>4, AdvancingInTree

LEMMA PassOverInTree == ASSUME TreeInv, PassOver PROVE TreeInv'
<1>1. /\ CloneInv /\ Walking /\ ~AtEnd /\ IsCall(Inst) /\ Advance(0) /\ AtCall /\ InCallGraph /\ LeftAlone
      /\ UNCHANGED <<sccVars, mod, fullClone, funs, pc>>
  BY DEF TreeInv, PassOver, AtCall
<1>2. CloneInv' BY <1>1, PassOverInv
<1>3. BodyIn(mod, Pair(Walk.fun))[Walk.k] = Inst /\ ~CopiedIn(mod, fullClone, Pair(Walk.fun), Inst)
  BY <1>1, CallInTree
<1>4. ~CountedIn(mod, fullClone, Pair(Walk.fun), Inst) /\ Walk.k \notin CopiedOf(Walk.fun)
  BY <1>1, <1>3 DEF CountedIn, CopiedOf, CopiedAt
<1> QED BY <1>1, <1>2, <1>3, <1>4, AdvancingInTree

(***************************************************************************)
(* The call at which walk n stands is redirected to the copy that the tree *)
(* asks for there.                                                         *)
(***************************************************************************)
LEMMA RedirectingInTree ==
    ASSUME TreeInv, CloneInv', Walking, NEW n \in 1 .. Len(walks), NEW clone \in Clones,
           walks[n].k \in CopiedOf(walks[n].fun),
           Pair(clone) = CopyFor(walks[n].fun, walks[n].k),
           \A i \in n + 1 .. Len(walks) : walks[i].k > Len(Fun(funs, walks[i].fun).body),
           funs' = SetCalledFunction(funs, walks[n].fun, walks[n].k, clone),
           MovesOn(n, 1), UNCHANGED <<sccVars, mod, fullClone, pc>>
    PROVE  /\ TreeInv'
           /\ Clones' = Clones /\ MainOf(mod)' = MainOf(mod)
           /\ \A v \in Numbers(funs) : Pair(v)' = Pair(v)
<1> DEFINE fun == walks[n].fun
           at  == walks[n].k
<1>1. CloneInv /\ FunsInv BY DEF TreeInv, CloneInv
<1>2. fun \in Numbers(funs) BY <1>1, WalkFacts
<1>3. /\ at \in 1 .. Len(Fun(funs, fun).body) /\ Len(Fun(funs, fun).body) \in Nat
      /\ BodyIn(mod, Pair(fun)) = Fun(mod, Fun(funs, fun).of).body
  BY <1>1, <1>2, CopyFacts
<1>4. Fun(mod, Fun(funs, fun).of).body[at] = Fun(funs, clone).of
  BY <1>3 DEF Pair, CopyFor, CopyIn
<1> HIDE DEF fun, at
<1>5. /\ Len(funs') = Len(funs)
      /\ \A v \in Numbers(funs) :
            /\ Fun(funs', v).of = Fun(funs, v).of
            /\ Fun(funs', v).kind = Fun(funs, v).kind
            /\ Fun(funs', v).context = Fun(funs, v).context
            /\ v # fun => Fun(funs', v) = Fun(funs, v)
            /\ Len(Fun(funs', v).body) = Len(Fun(funs, v).body)
      /\ \A j \in 1 .. Len(Fun(funs, fun).body) :
            Fun(funs', fun).body[j] = IF j = at THEN clone ELSE Fun(funs, fun).body[j]
  BY <1>1, <1>2, <1>3, <1>4, Redirecting DEF fun, at
<1>6. CountedIn(mod, fullClone, Pair(fun), BodyIn(mod, Pair(fun))[at])
  BY DEF CountedIn, CopiedOf, CopiedAt, fun, at
<1>7. /\ SearchKept' /\ OneForEach' /\ Counted' /\ WaitsForCopy' /\ Supplied' /\ Descending'
      /\ Clones' = Clones /\ MainOf(mod)' = MainOf(mod)
      /\ \A v \in Numbers(funs) : /\ Pair(v)' = Pair(v) /\ CopiedOf(v)' = CopiedOf(v)
                                  /\ \A k : CopyFor(v, k)' = CopyFor(v, k)
  <2>1. walks[n].k <= Len(Fun(funs, walks[n].fun).body) BY <1>3 DEF fun, at
  <2> QED BY <1>5, <1>6, <2>1, MovingInTree DEF fun, at
<1>8. EnteredBy'
  <2>1. MainIsCalled(mod)' = MainIsCalled(mod) BY DEF MainIsCalled, MainOf, Named, CallsIn
  <2>2. \A v \in MainOf(mod) \cup Clones : v \in Numbers(funs) BY <1>1, FunFacts DEF Clones
  <2> SUFFICES ASSUME ~MainIsCalled(mod), NEW v \in MainOf(mod) \cup Clones,
                      NEW k \in 1 .. Len(Fun(funs', v).body), Fun(funs', v).body[k] \in Clones
               PROVE  /\ k \in CopiedOf(v)
                      /\ Pair(Fun(funs', v).body[k]) = CopyFor(v, k)
    <3>1. \A c \in Clones : Pair(c)' = Pair(c) BY <1>7 DEF Clones
    <3>2. ASSUME ~MainIsCalled(mod), NEW v \in MainOf(mod) \cup Clones,
                 NEW k \in 1 .. Len(Fun(funs', v).body), Fun(funs', v).body[k] \in Clones
          PROVE  /\ k \in CopiedOf(v)'
                 /\ (Pair(Fun(funs, v).body[k]))' = CopyFor(v, k)'
      <4> DEFINE c == Fun(funs', v).body[k]
      <4>1. /\ k \in CopiedOf(v) /\ Pair(c) = CopyFor(v, k) BY <3>2
      <4>2. <<Fun(funs', c).of, Fun(funs', c).context>> = Pair(c) BY <1>5, <3>2 DEF Pair, Clones
      <4>3. (Pair(Fun(funs, v).body[k]))' = <<Fun(funs', c).of, Fun(funs', c).context>> BY DEF Pair
      <4> QED BY <1>7, <2>2, <3>2, <4>1, <4>2, <4>3
    <3> QED BY <1>7, <2>1, <3>2 DEF EnteredBy
  <2>3. CASE v = fun /\ k = at
    <3>1. Fun(funs', v).body[k] = clone BY <1>3, <1>5, <2>3
    <3> QED BY <2>3, <3>1 DEF fun, at
  <2>4. CASE ~(v = fun /\ k = at)
    <3>1. k \in 1 .. Len(Fun(funs, v).body) BY <1>5, <2>2
    <3>2. Fun(funs', v).body[k] = Fun(funs, v).body[k] BY <1>5, <2>2, <2>4, <3>1
    <3> QED BY <3>1, <3>2 DEF TreeInv, EnteredBy
  <2> QED BY <2>3, <2>4
<1> QED BY <1>7, <1>8 DEF TreeInv

LEMMA RedirectInTree ==
    ASSUME TreeInv, Redirect
    PROVE  /\ TreeInv'
           /\ Clones' = Clones /\ MainOf(mod)' = MainOf(mod)
           /\ \A v \in Numbers(funs) : Pair(v)' = Pair(v)
<1> DEFINE n == Len(walks)
<1>1. /\ AtCall /\ InCallGraph /\ ~LeftAlone /\ Advance(1) /\ UNCHANGED <<sccVars, mod, fullClone, pc>>
      /\ Walking /\ ~AtEnd /\ CloneInv
  BY DEF Redirect, AtCall, TreeInv
<1>2. PICK clone \in Named(funs, NewName) : funs' = SetCalledFunction(funs, Walk.fun, Walk.k, clone)
  BY DEF Redirect
<1>3. /\ clone \in Clones /\ Pair(clone) = CopyFor(Walk.fun, Walk.k) /\ Walk.k \in CopiedOf(Walk.fun)
      /\ Walk = walks[n]
  BY <1>1, CloneInTree, CallInTree DEF Walk
<1>4. n \in 1 .. Len(walks) /\ n \in Nat BY <1>1, WalkingFacts
<1>5. MovesOn(n, 1) BY <1>1, <1>4, StepMovesOn
<1>6. \A i \in n + 1 .. Len(walks) : walks[i].k > Len(Fun(funs, walks[i].fun).body) BY <1>4
<1>7. CloneInv' BY <1>1, RedirectInv
<1> HIDE DEF n
<1> QED BY <1>1, <1>2, <1>3, <1>4, <1>5, <1>6, <1>7, RedirectingInTree

LEMMA ReturnInTree ==
    ASSUME TreeInv, Return
    PROVE  /\ TreeInv'
           /\ Clones' = Clones /\ MainOf(mod)' = MainOf(mod)
           /\ \A v \in Numbers(funs) : Pair(v)' = Pair(v)
<1> DEFINE n == Len(walks) - 1
<1>1. /\ Walking /\ AtEnd /\ ~InMain /\ UNCHANGED <<sccVars, mod, fullClone, pc>> /\ CloneInv
      /\ funs' = SetCalledFunction(funs, walks[n].fun, walks[n].k, Walk.fun)
      /\ walks' = Append(SubSeq(walks, 1, n - 1), Step(walks[n], 1))
  BY DEF Return, TreeInv
<1>2. /\ Len(walks) \in 1 .. Len(walks) /\ Len(walks) \in Nat /\ Len(walks) # 1
      /\ n \in 1 .. Len(walks) /\ n \in 1 .. Len(walks) - 1 /\ n + 1 = Len(walks)
  <2>1. Len(walks) \in 1 .. Len(walks) /\ Len(walks) \in Nat /\ Len(walks) # 1
    BY <1>1, WalkingFacts DEF InMain
  <2>2. \A l \in Nat : l \in 1 .. l /\ l # 1 =>
            l - 1 \in 1 .. l /\ l - 1 \in 1 .. l - 1 /\ (l - 1) + 1 = l
    OBVIOUS
  <2> QED BY <2>1, <2>2
<1> HIDE DEF n
<1>3. Walk.fun \in Clones BY <1>1, <1>2, WalkFacts DEF Walk
<1>4. walks[n].k \in CopiedOf(walks[n].fun) /\ Pair(Walk.fun) = CopyFor(walks[n].fun, walks[n].k)
  BY <1>2 DEF TreeInv, WaitsForCopy, Walk
<1>5. \A i \in n + 1 .. Len(walks) : walks[i].k > Len(Fun(funs, walks[i].fun).body)
  <2>1. \A i \in n + 1 .. Len(walks) : i = Len(walks) BY <1>2
  <2>2. walks[Len(walks)].k > Len(Fun(funs, walks[Len(walks)].fun).body)
    BY <1>1 DEF AtEnd, Walk, Self
  <2> QED BY <2>1, <2>2
<1>6. MovesOn(n, 1) BY <1>1, <1>2, StepMovesOn DEF n
<1>7. CloneInv' BY <1>1, ReturnInv
<1> QED BY <1>1, <1>2, <1>3, <1>4, <1>5, <1>6, <1>7, RedirectingInTree

(* A clone has a context.                                                  *)
LEMMA CalleeContextIsSome ==
    ASSUME TreeInv, AtCall, InCallGraph, ~LeftAlone
    PROVE  CalleeContext(Inst) # <<>> /\ CalleeContext(Inst) \in Contextual
<1>1. /\ Self.of \in Nat /\ Walk.ic \in Nat
      /\ ~InMain => Self.context # <<>> /\ Self.context \in Contextual
  <2>1. mod \in Modules BY FunFacts DEF TreeInv, CloneInv
  <2> QED BY <2>1, CallInTree, ModuleFacts DEF Originals
<1>2. <<>> \in Contextual
  <2>1. <<>> \in Seq(Nat) /\ Len(<<>>) = 0 /\ 0 % 2 = 0 OBVIOUS
  <2> QED BY <2>1 DEF Contextual
<1>3. CASE InMain
  <2>1. CalleeContext(Inst) = <<>> \o <<Self.of, Walk.ic>> BY <1>3 DEF CalleeContext, Stitch
  <2> QED BY <1>1, <1>2, <2>1, LengthsOfContexts, CalleeKnown DEF TreeInv
<1>4. CASE ~InMain /\ SccId(Inst) # SccId(Self.of)
  <2>1. CalleeContext(Inst) = Self.context \o <<Self.of, Walk.ic>> BY <1>4 DEF CalleeContext, Stitch
  <2> QED BY <1>1, <1>4, <2>1, LengthsOfContexts, CalleeKnown DEF TreeInv
<1>5. CASE ~InMain /\ SccId(Inst) = SccId(Self.of)
  <2>1. CalleeContext(Inst) = Self.context BY <1>5 DEF CalleeContext
  <2> QED BY <1>1, <1>5, <2>1
<1> QED BY <1>3, <1>4, <1>5

(* The module and the walks once a clone has been made.                    *)
LEMMA CreateFacts ==
    ASSUME TreeInv, Create
    PROVE  /\ AtCall /\ InCallGraph /\ ~LeftAlone /\ Walking
           /\ UNCHANGED <<sccVars, mod, fullClone, pc>>
           /\ Named(funs, NewName) = {}
           /\ Inst \in Originals /\ Len(funs) \in Nat /\ Len(funs) \notin Numbers(funs)
           /\ \A v \in Numbers(funs) : Fun(funs', v) = Fun(funs, v)
           /\ Fun(funs', Len(funs)).of = Inst
           /\ Fun(funs', Len(funs)).kind = Fun(mod, Inst).kind
           /\ Fun(funs', Len(funs)).context = CalleeContext(Inst)
           /\ Numbers(funs') = Numbers(funs) \cup {Len(funs)}
           /\ Originals' = Originals /\ MainOf(mod)' = MainOf(mod)
           /\ Clones' = Clones \cup {Len(funs)}
           /\ Originals \subseteq Numbers(funs) /\ Clones \subseteq Numbers(funs)
           /\ MainOf(mod) \subseteq Originals
           /\ Len(walks) \in Nat /\ Len(walks) \in 1 .. Len(walks)
           /\ Len(walks') = Len(walks) + 1 /\ DOMAIN walks' = 1 .. Len(walks) + 1
           /\ DOMAIN walks = 1 .. Len(walks)
           /\ \A i \in 1 .. Len(walks) : walks'[i] = walks[i] /\ walks[i].fun \in Numbers(funs)
           /\ walks'[Len(walks) + 1].fun = Len(funs)
           /\ walks'[Len(walks) + 1].k = 1 /\ walks'[Len(walks) + 1].ic = 0
<1> DEFINE S == [fun : Nat, k : Nat, ic : Nat]
           top == Len(walks)
           new == Len(funs)
<1>1. /\ AtCall /\ InCallGraph /\ ~LeftAlone /\ UNCHANGED <<sccVars, mod, fullClone, pc>>
      /\ Walking /\ Named(funs, NewName) = {} /\ CloneInv
      /\ funs' = Append(funs, [Fun(funs, Inst) EXCEPT
                     !.name = CloneName(Fun(mod, Inst).name, CalleeContext(Inst)),
                     !.of = Inst, !.context = CalleeContext(Inst)])
      /\ walks' = Append(walks, [fun |-> Len(funs), k |-> 1, ic |-> 0])
  BY DEF Create, AtCall, NewName, TreeInv
<1>2. Inst \in Originals /\ CalleeContext(Inst) \in Contextual BY <1>1, CalleeKnown
<1>3. /\ Len(funs') = new + 1
      /\ \A v \in Numbers(funs) : Fun(funs', v) = Fun(funs, v)
      /\ Fun(funs', new).of = Inst /\ Fun(funs', new).kind = Fun(funs, Inst).kind
      /\ Fun(funs', new).context = CalleeContext(Inst)
  BY <1>1, <1>2, Appending DEF CloneInv
<1>4. /\ new \in Nat /\ new \notin Numbers(funs)
      /\ Numbers(funs') = Numbers(funs) \cup {new}
      /\ Originals' = Originals /\ MainOf(mod)' = MainOf(mod)
      /\ Clones' = Clones \cup {new}
      /\ Originals \subseteq Numbers(funs) /\ Clones \subseteq Numbers(funs)
      /\ MainOf(mod) \subseteq Originals
  <2>1. new \in Nat /\ Numbers(funs) = 0 .. new - 1 /\ V \in Nat /\ V <= new /\ Originals = 0 .. V - 1
    BY <1>1, FunFacts DEF CloneInv
  <2>2. Numbers(funs') = 0 .. new BY <1>3, <2>1 DEF Numbers
  <2>3. new \notin Numbers(funs) /\ Numbers(funs') = Numbers(funs) \cup {new} /\ new \notin Originals
    BY <2>1, <2>2
  <2>4. Originals' = Originals /\ MainOf(mod)' = MainOf(mod) BY <1>1 DEF Originals, MainOf, Named
  <2>5. Clones' = Clones \cup {new} BY <2>3, <2>4 DEF Clones
  <2>6. /\ Originals \subseteq Numbers(funs) /\ Clones \subseteq Numbers(funs)
        /\ MainOf(mod) \subseteq Originals
    BY <1>1, FunFacts DEF CloneInv, Clones
  <2> QED BY <2>1, <2>3, <2>4, <2>5, <2>6
<1>5. Fun(funs, Inst).kind = Fun(mod, Inst).kind
  <2>1. Fun(funs, Inst).of = Inst BY <1>1, <1>2 DEF CloneInv, FunsInv, NamedAfter
  <2> QED BY <1>2, <1>4, <2>1 DEF TreeInv, OneForEach
<1>6. top \in Nat /\ top \in 1 .. top BY <1>1, WalkingFacts
<1>7. /\ Len(walks') = top + 1 /\ DOMAIN walks' = 1 .. top + 1
      /\ \A i \in 1 .. top : walks'[i] = walks[i]
      /\ walks'[top + 1].fun = new /\ walks'[top + 1].k = 1 /\ walks'[top + 1].ic = 0
  <2> DEFINE w == [fun |-> new, k |-> 1, ic |-> 0]
  <2>1. w \in S /\ w.fun = new /\ w.k = 1 /\ w.ic = 0 BY <1>4
  <2>2. walks \in Seq(S) BY <1>1 DEF CloneInv, WalksTyped
  <2> HIDE DEF S
  <2>3. walks' = Append(walks, w) BY <1>1
  <2> HIDE DEF w
  <2>4. /\ walks' \in Seq(S) /\ Len(walks') = top + 1
        /\ \A i \in 1 .. top : walks'[i] = walks[i]
        /\ walks'[top + 1] = w
    BY <1>6, <2>1, <2>2, <2>3
  <2> QED BY <2>1, <2>4, LenProperties
<1>8. DOMAIN walks = 1 .. top /\ \A i \in 1 .. top : walks[i].fun \in Numbers(funs)
  BY <1>1, <1>6, WalkFacts
<1> QED BY <1>1, <1>2, <1>3, <1>4, <1>5, <1>6, <1>7, <1>8

(* The walk through a new copy begins.                                     *)
LEMMA CreateInTree == ASSUME TreeInv, Create PROVE TreeInv'
<1> DEFINE top == Len(walks)
           copy == CopyFor(Walk.fun, Walk.k)
<1>0. PICK new : new = Len(funs) OBVIOUS
<1>1. /\ AtCall /\ InCallGraph /\ ~LeftAlone /\ Walking
      /\ UNCHANGED <<sccVars, mod, fullClone, pc>>
      /\ Named(funs, NewName) = {}
      /\ Inst \in Originals /\ new \in Nat /\ new \notin Numbers(funs)
      /\ \A v \in Numbers(funs) : Fun(funs', v) = Fun(funs, v)
      /\ Fun(funs', new).of = Inst /\ Fun(funs', new).kind = Fun(mod, Inst).kind
      /\ Fun(funs', new).context = CalleeContext(Inst)
  BY <1>0, CreateFacts
<1>2. /\ Numbers(funs') = Numbers(funs) \cup {new}
      /\ Originals' = Originals /\ MainOf(mod)' = MainOf(mod)
      /\ Clones' = Clones \cup {new}
      /\ Originals \subseteq Numbers(funs) /\ Clones \subseteq Numbers(funs)
      /\ MainOf(mod) \subseteq Originals
  BY <1>0, CreateFacts
<1>3. /\ top \in Nat /\ top \in 1 .. top
      /\ Len(walks') = top + 1 /\ DOMAIN walks' = 1 .. top + 1 /\ DOMAIN walks = 1 .. top
      /\ \A i \in 1 .. top : walks'[i] = walks[i] /\ walks[i].fun \in Numbers(funs)
      /\ walks'[top + 1].fun = new /\ walks'[top + 1].k = 1 /\ walks'[top + 1].ic = 0
  BY <1>0, CreateFacts
<1>4. CloneInv /\ FunsInv /\ CloneInv' /\ pc # "scc" BY <1>1, CreateInv DEF TreeInv, CloneInv, Walking
<1>5. /\ CalleeContext(Inst) # <<>> /\ CalleeContext(Inst) \in Contextual
      /\ copy = <<Inst, CalleeContext(Inst)>> /\ Walk.k \in CopiedOf(Walk.fun)
      /\ DescendsTo(id, CalleeContext(Inst), Inst)
  BY <1>1, CalleeContextIsSome, CallInTree, ContextDescends
<1>6. Pair(new)' = copy BY <1>1, <1>5 DEF Pair
<1>7. \A v \in Numbers(funs) : /\ Pair(v)' = Pair(v) /\ CopiedOf(v)' = CopiedOf(v)
                               /\ \A k : CopyFor(v, k)' = CopyFor(v, k)
  BY <1>1, PairsKept
<1> HIDE DEF top, copy
<1>8. SearchKept' BY <1>1, SearchStays DEF TreeInv
<1>9. OneForEach'
  <2>1. \A v \in Numbers(funs') : Fun(funs', v).kind = Fun(mod, Fun(funs', v).of).kind
    BY <1>1, <1>2 DEF TreeInv, OneForEach
  <2>2. \A v \in Originals : Fun(funs', v).context = <<>> BY <1>1, <1>2 DEF TreeInv, OneForEach
  <2>3. \A c \in Clones' : Fun(funs', c).context # <<>> BY <1>1, <1>2, <1>5 DEF TreeInv, OneForEach
  <2>4. \A c \in Clones : Pair(c) # copy
    <3> SUFFICES ASSUME NEW c \in Clones, Pair(c) = copy PROVE FALSE OBVIOUS
    <3>1. Fun(funs, c).of = Inst /\ Fun(funs, c).context = CalleeContext(Inst) BY <1>5 DEF Pair
    <3>2. Fun(funs, c).name = NewName BY <1>4, <3>1 DEF FunsInv, NamedAfter, NewName
    <3> QED BY <1>1, <1>2, <3>2 DEF Named
  <2>5. \A c, d \in Clones' : Pair(c)' = Pair(d)' => c = d
    <3> SUFFICES ASSUME NEW c \in Clones \cup {new}, NEW d \in Clones \cup {new}, Pair(c)' = Pair(d)'
                 PROVE  c = d
      BY <1>2
    <3>1. CASE c \in Clones /\ d \in Clones BY <1>2, <1>7, <3>1 DEF TreeInv, OneForEach
    <3>2. CASE c \in Clones /\ d = new
      <4>1. Pair(d)' = copy BY <1>6, <3>2
      <4> QED BY <1>2, <1>7, <2>4, <3>2, <4>1
    <3>3. CASE d \in Clones /\ c = new
      <4>1. Pair(c)' = copy BY <1>6, <3>3
      <4> QED BY <1>2, <1>7, <2>4, <3>3, <4>1
    <3> QED BY <3>1, <3>2, <3>3
  <2> QED BY <1>1, <1>2, <2>1, <2>2, <2>3, <2>5 DEF OneForEach
<1> DEFINE Now(i) == <<Fun(funs', walks'[i].fun).of, Fun(funs', walks'[i].fun).context>>
<1>10. /\ \A i \in 1 .. top : Now(i) = Pair(walks[i].fun)
       /\ Now(top + 1) = copy
  BY <1>1, <1>3, <1>5 DEF Pair
<1>11. \A i \in 1 .. top + 1 : i \in 1 .. top \/ i = top + 1 BY <1>3
<1>12. Counted'
  <2> SUFFICES ASSUME NEW i \in 1 .. top + 1
               PROVE  walks'[i].ic = OrdinalIn(mod, fullClone, Now(i), walks'[i].k)
    BY <1>1, <1>3 DEF Counted, Pair
  <2> HIDE DEF Now
  <2>1. CASE i \in 1 .. top BY <1>3, <1>10, <2>1 DEF TreeInv, Counted, top
  <2>2. CASE i = top + 1
    <3>1. OrdinalIn(mod, fullClone, Now(i), 1) = 0 BY OrdinalFacts
    <3> QED BY <1>3, <2>2, <3>1
  <2> QED BY <1>11, <2>1, <2>2
<1>13. WaitsForCopy'
  <2> SUFFICES ASSUME NEW i \in 1 .. top
               PROVE  /\ walks'[i].k \in CopiedAt(mod, fullClone, Now(i))
                      /\ Now(i + 1) = CopyIn(mod, fullClone, Now(i), walks'[i].k)
    <3>1. (top + 1) - 1 = top BY <1>3
    <3> QED BY <1>1, <1>3, <3>1 DEF WaitsForCopy, Pair, CopiedOf, CopyFor
  <2> HIDE DEF Now
  <2>1. CASE i = top
    <3>1. walks[i] = Walk BY <2>1 DEF Walk, top
    <3> QED BY <1>3, <1>5, <1>10, <2>1, <3>1 DEF CopiedOf, CopyFor, copy
  <2>2. CASE i # top
    <3>1. i \in 1 .. top - 1 /\ i + 1 \in 1 .. top BY <1>3, <2>2
    <3>2. /\ walks[i].k \in CopiedOf(walks[i].fun)
          /\ Pair(walks[i + 1].fun) = CopyFor(walks[i].fun, walks[i].k)
      BY <3>1 DEF TreeInv, WaitsForCopy, top
    <3> QED BY <1>3, <1>10, <3>1, <3>2 DEF CopiedOf, CopyFor
  <2> QED BY <2>1, <2>2
<1>14. Supplied'
  <2> SUFFICES ASSUME NEW v \in MainOf(mod) \cup Clones', NEW k \in CopiedOf(v)'
               PROVE  Pending(v, k)' \/ \E c \in Clones' : Pair(c)' = CopyFor(v, k)'
    BY <1>2 DEF Supplied
  <2>1. CASE v = new
    <3>1. k \in Nat \ {0} BY DEF CopiedOf, CopiedAt
    <3>2. top + 1 \in DOMAIN walks' /\ walks'[top + 1].fun = v /\ walks'[top + 1].k <= k
      BY <1>3, <2>1, <3>1
    <3> QED BY <3>2 DEF Pending
  <2>2. CASE v # new
    <3>1. v \in MainOf(mod) \cup Clones /\ v \in Numbers(funs) BY <1>2, <2>2
    <3>2. k \in CopiedOf(v) /\ CopyFor(v, k)' = CopyFor(v, k) BY <1>7, <3>1
    <3>3. CASE Pending(v, k)
      <4>1. PICK i \in DOMAIN walks : walks[i].fun = v /\ walks[i].k <= k BY <3>3 DEF Pending
      <4>2. i \in 1 .. top /\ i \in DOMAIN walks' BY <1>3, <4>1
      <4> QED BY <1>3, <4>1, <4>2 DEF Pending
    <3>4. CASE \E c \in Clones : Pair(c) = CopyFor(v, k)
      BY <1>2, <1>7, <3>2, <3>4
    <3> QED BY <1>4, <3>1, <3>2, <3>3, <3>4 DEF TreeInv, Supplied
  <2> QED BY <2>1, <2>2
<1>15. EnteredBy'
  <2>1. MainIsCalled(mod)' = MainIsCalled(mod) BY <1>1 DEF MainIsCalled, MainOf, Named, CallsIn
  <2> SUFFICES ASSUME ~MainIsCalled(mod), NEW v \in MainOf(mod) \cup Clones',
                      NEW k \in 1 .. Len(Fun(funs', v).body), Fun(funs', v).body[k] \in Clones'
               PROVE  /\ k \in CopiedOf(v)'
                      /\ (Pair(Fun(funs, v).body[k]))' = CopyFor(v, k)'
    BY <1>2, <2>1 DEF EnteredBy
  <2>2. CASE v = new
    <3>1. Fun(funs', v).body[k] = Fun(mod, Fun(funs', v).of).body[k]
      <4>1. k \in walks'[top + 1].k .. Len(Fun(funs', v).body) BY <1>3
      <4>2. top + 1 \in DOMAIN walks' /\ ~MainIsCalled(mod)' BY <1>3, <2>1
      <4>3. Ahead' /\ mod' = mod BY <1>1, <1>4 DEF CloneInv
      <4> QED BY <1>3, <2>2, <4>1, <4>2, <4>3 DEF Ahead
    <3>2. Len(Fun(funs', v).body) = Len(Fun(mod, Inst).body)
      BY <1>1, <1>2, <1>4, <2>2 DEF CloneInv, FunsInv, SameProgram
    <3>3. Fun(mod, Fun(funs', v).of).body[k] \in Originals \cup {External, Load, Plain}
      <4>1. mod \in Modules BY <1>4, FunFacts
      <4> QED BY <1>1, <2>2, <3>2, <4>1, BodyFacts DEF Program
    <3>4. External \notin Nat /\ Load \notin Nat /\ Plain \notin Nat BY InstsAssumption
    <3>5. Clones' \subseteq Nat /\ Clones' \cap Originals = {}
      <4>1. Clones \subseteq Nat BY <1>2, <1>4, FunFacts
      <4> QED BY <1>1, <1>2, <4>1 DEF Clones
    <3> QED BY <3>1, <3>3, <3>4, <3>5
  <2>3. CASE v # new
    <3>1. v \in MainOf(mod) \cup Clones /\ v \in Numbers(funs) BY <1>2, <2>3
    <3> DEFINE c == Fun(funs, v).body[k]
    <3>2. Fun(funs', v) = Fun(funs, v) BY <1>1, <3>1
    <3>3. c \in Numbers(funs) \cup {External, Load, Plain} BY <1>4, <3>1, <3>2, FunFacts
    <3>4. c \in Clones /\ c \in Numbers(funs)
      <4>1. new \notin {External, Load, Plain} BY <1>1, InstsAssumption
      <4>2. c # new BY <1>1, <3>3, <4>1
      <4> QED BY <1>2, <3>2, <4>2
    <3>5. k \in CopiedOf(v) /\ Pair(c) = CopyFor(v, k)
      BY <3>1, <3>2, <3>4 DEF TreeInv, EnteredBy
    <3>6. (Pair(Fun(funs, v).body[k]))' = <<Fun(funs', c).of, Fun(funs', c).context>>
      BY <3>2 DEF Pair
    <3>7. <<Fun(funs', c).of, Fun(funs', c).context>> = Pair(c) BY <1>1, <3>4 DEF Pair
    <3> QED BY <1>7, <3>1, <3>5, <3>6, <3>7
  <2> QED BY <2>2, <2>3
<1>16. Descending'
  <2>1. id' = id BY <1>1 DEF sccVars
  <2> SUFFICES ASSUME NEW c \in Clones \cup {new}
               PROVE  DescendsTo(id, Fun(funs', c).context, Fun(funs', c).of)
    BY <1>2, <2>1 DEF Descending
  <2>2. CASE c \in Clones BY <1>1, <1>2, <2>2 DEF TreeInv, Descending
  <2>3. CASE c = new BY <1>1, <1>5, <2>3
  <2> QED BY <2>2, <2>3
<1> QED BY <1>4, <1>8, <1>9, <1>12, <1>13, <1>14, <1>15, <1>16 DEF TreeInv

(* The steps that leave the module as it is.                               *)
LEMMA ModuleStays ==
    ASSUME TreeInv, UNCHANGED <<mod, fullClone, funs>>, Clones = {} \/ id' = id
    PROVE  /\ OneForEach' /\ EnteredBy' /\ Descending'
           /\ Clones' = Clones /\ MainOf(mod)' = MainOf(mod)
           /\ \A v \in Numbers(funs) : /\ Pair(v)' = Pair(v) /\ CopiedOf(v)' = CopiedOf(v)
                                       /\ \A k : CopyFor(v, k)' = CopyFor(v, k)
           /\ MainOf(mod) \cup Clones \subseteq Numbers(funs)
<1>1. /\ Clones' = Clones /\ MainOf(mod)' = MainOf(mod) /\ Originals' = Originals
      /\ Numbers(funs)' = Numbers(funs) /\ MainIsCalled(mod)' = MainIsCalled(mod)
  BY DEF Clones, Originals, MainOf, Named, Numbers, MainIsCalled, CallsIn
<1>2. \A v : Pair(v)' = Pair(v) /\ CopiedOf(v)' = CopiedOf(v) /\ \A k : CopyFor(v, k)' = CopyFor(v, k)
  BY DEF Pair, CopiedOf, CopyFor
<1>3. OneForEach' BY <1>1, <1>2 DEF TreeInv, OneForEach
<1>4. EnteredBy' BY <1>1, <1>2 DEF TreeInv, EnteredBy
<1>5. Descending' BY <1>1 DEF TreeInv, Descending
<1>6. MainOf(mod) \cup Clones \subseteq Numbers(funs)
  BY FunFacts DEF TreeInv, CloneInv, Clones
<1> QED BY <1>1, <1>2, <1>3, <1>4, <1>5, <1>6

(* Before the cloning there are no clones.                                 *)
LEMMA NothingCloned ==
    ASSUME TreeInv, pc = "scc"
    PROVE  Clones = {} /\ walks = <<>>
<1>1. walks = <<>> /\ Len(funs) = V BY DEF TreeInv, CloneInv, Phases
<1>2. Clones = V .. Len(funs) - 1 /\ V \in Nat BY FunFacts DEF TreeInv, CloneInv
<1> QED BY <1>1, <1>2

LEMMA WithoutWalks ==
    ASSUME walks' = <<>> PROVE Counted' /\ WaitsForCopy'
<1>1. Len(walks') = 0 /\ 1 .. 0 = {} /\ 1 .. 0 - 1 = {} OBVIOUS
<1> QED BY <1>1 DEF Counted, WaitsForCopy

LEMMA BuildSCCInTree == ASSUME TreeInv, BuildSCC PROVE TreeInv'
<1>1. pc = "scc" /\ UNCHANGED cloneVars BY DEF BuildSCC
<1>2. UNCHANGED <<mod, fullClone, funs, walks, pc>> BY <1>1 DEF cloneVars
<1>3. Clones = {} /\ walks = <<>> BY <1>1, NothingCloned
<1>4. CloneInv' BY <1>1, StutterInv DEF TreeInv
<1>5. SearchKept' BY SearchMoves DEF TreeInv
<1>6. Supplied' BY <1>1, <1>2 DEF Supplied
<1> QED BY <1>2, <1>3, <1>4, <1>5, <1>6, ModuleStays, WithoutWalks DEF TreeInv

LEMMA StutterInTree == ASSUME TreeInv, UNCHANGED vars PROVE TreeInv'
<1>1. UNCHANGED <<sccVars, mod, fullClone, funs, walks, pc>> /\ id' = id /\ UNCHANGED cloneVars
  BY DEF vars, cloneVars, sccVars
<1>2. CloneInv' BY <1>1, StutterInv DEF TreeInv
<1>3. SearchKept' BY <1>1, SearchStays DEF TreeInv
<1>4. Counted' /\ WaitsForCopy'
  BY <1>1 DEF TreeInv, Counted, WaitsForCopy, Pair, CopiedOf, CopyFor
<1>5. Supplied'
  <2>1. /\ Clones' = Clones /\ MainOf(mod)' = MainOf(mod)
        /\ \A v : Pair(v)' = Pair(v) /\ CopiedOf(v)' = CopiedOf(v) /\ \A k : CopyFor(v, k)' = CopyFor(v, k)
        /\ \A v, k : Pending(v, k)' = Pending(v, k)
    BY <1>1 DEF Clones, Originals, MainOf, Named, Pair, CopiedOf, CopyFor, Pending
  <2> QED BY <1>1, <2>1 DEF TreeInv, Supplied
<1> QED BY <1>1, <1>2, <1>3, <1>4, <1>5, ModuleStays DEF TreeInv

LEMMA LookUpUnknownInTree == ASSUME TreeInv, LookUpUnknown PROVE TreeInv'
<1>1. /\ UNCHANGED <<sccVars, mod, fullClone, funs, walks>> /\ id' = id /\ pc = "clone" /\ pc' = "undefined"
  BY DEF LookUpUnknown, AtCall, Walking, sccVars
<1>2. CloneInv' BY LookUpUnknownInv DEF TreeInv
<1>3. SearchKept' BY <1>1, SearchStays DEF TreeInv
<1>4. Counted' /\ WaitsForCopy'
  BY <1>1 DEF TreeInv, Counted, WaitsForCopy, Pair, CopiedOf, CopyFor
<1>5. Supplied'
  <2>1. /\ Clones' = Clones /\ MainOf(mod)' = MainOf(mod)
        /\ \A v : Pair(v)' = Pair(v) /\ CopiedOf(v)' = CopiedOf(v) /\ \A k : CopyFor(v, k)' = CopyFor(v, k)
        /\ \A v, k : Pending(v, k)' = Pending(v, k)
    BY <1>1 DEF Clones, Originals, MainOf, Named, Pair, CopiedOf, CopyFor, Pending
  <2> QED BY <1>1, <2>1 DEF TreeInv, Supplied
<1> QED BY <1>1, <1>2, <1>3, <1>4, <1>5, ModuleStays DEF TreeInv

LEMMA StartMainInTree == ASSUME TreeInv, StartMain PROVE TreeInv'
<1>1. /\ pc = "scc" /\ SCC!Done /\ UNCHANGED <<sccVars, mod, fullClone, funs>> /\ id' = id
      /\ CloneInv
  BY DEF StartMain, sccVars, TreeInv
<1>2. Clones = {} /\ walks = <<>> BY <1>1, NothingCloned
<1>3. CloneInv' BY <1>1, StartMainInv
<1>4. SearchKept' BY <1>1, SearchStays DEF TreeInv
<1>5. /\ OneForEach' /\ EnteredBy' /\ Descending'
      /\ Clones' = {} /\ MainOf(mod)' = MainOf(mod)
  BY <1>1, <1>2, ModuleStays
<1>6. CASE MainOf(mod) = {}
  <2>1. walks' = <<>> BY <1>2, <1>6 DEF StartMain
  <2>2. Supplied' BY <1>5, <1>6 DEF Supplied
  <2> QED BY <1>3, <1>4, <1>5, <2>1, <2>2, WithoutWalks DEF TreeInv
<1>7. CASE MainOf(mod) # {}
  <2>1. PICK m \in MainOf(mod) : walks' = <<[fun |-> m, k |-> 1, ic |-> 0]>>
    BY <1>7 DEF StartMain
  <2>2. MainOf(mod) = {m}
    <3>1. \A v \in MainOf(mod) : v \in Numbers(mod) /\ Fun(mod, v).name = Name("main")
      BY DEF MainOf, Named
    <3>2. mod \in Modules BY <1>1, FunFacts DEF CloneInv
    <3> QED BY <3>1, <3>2, ModuleFacts
  <2>3. /\ DOMAIN walks' = {1} /\ Len(walks') = 1
        /\ walks'[1].fun = m /\ walks'[1].k = 1 /\ walks'[1].ic = 0
    <3> DEFINE w == [fun |-> m, k |-> 1, ic |-> 0]
    <3>1. w.fun = m /\ w.k = 1 /\ w.ic = 0 OBVIOUS
    <3> HIDE DEF w
    <3>2. walks' = <<w>> BY <2>1 DEF w
    <3> QED BY <3>1, <3>2
  <2>4. Counted'
    <3>1. OrdinalIn(mod, fullClone, <<Fun(funs', m).of, Fun(funs', m).context>>, 1) = 0
      BY OrdinalFacts
    <3>2. 1 .. 1 = {1} OBVIOUS
    <3> QED BY <1>1, <2>3, <3>1, <3>2 DEF Counted, Pair
  <2>5. WaitsForCopy'
    <3>1. 1 .. 1 - 1 = {} OBVIOUS
    <3> QED BY <2>3, <3>1 DEF WaitsForCopy
  <2>6. Supplied'
    <3> SUFFICES ASSUME NEW k \in CopiedOf(m)' PROVE Pending(m, k)'
      BY <1>5, <2>2 DEF Supplied
    <3>1. 1 <= k BY DEF CopiedOf, CopiedAt
    <3> QED BY <2>3, <3>1 DEF Pending
  <2> QED BY <1>3, <1>4, <1>5, <2>4, <2>5, <2>6 DEF TreeInv
<1> QED BY <1>6, <1>7

(* Nothing is pending when the walk through main is at its end.            *)
LEMMA NothingPending ==
    ASSUME TreeInv, Walking, AtEnd, InMain, NEW v \in MainOf(mod) \cup Clones, NEW k \in CopiedOf(v)
    PROVE  ~Pending(v, k)
<1> SUFFICES ASSUME NEW i \in DOMAIN walks, walks[i].fun = v, walks[i].k <= k PROVE FALSE
  BY DEF Pending
<1>1. CloneInv /\ FunsInv BY DEF TreeInv, CloneInv
<1>2. DOMAIN walks = 1 .. Len(walks) /\ Len(walks) = 1
  BY <1>1, WalkingFacts, WalkFacts DEF InMain
<1>3. i \in 1 .. Len(walks) /\ i = 1 BY <1>2
<1>4. walks[i] = Walk /\ walks[i].k > Len(Fun(funs, v).body)
  BY <1>2, <1>3 DEF AtEnd, Self, Walk
<1>5. v \in Numbers(funs) BY <1>1, FunFacts DEF Clones
<1>6. k \in 1 .. Len(Fun(funs, v).body) /\ Len(Fun(funs, v).body) \in Nat BY <1>1, <1>5, CopyFacts
<1>7. walks[i].k \in Nat BY <1>1, <1>3, WalkFacts
<1> QED BY <1>4, <1>6, <1>7

LEMMA EndMainInTree == ASSUME TreeInv, EndMain PROVE TreeInv'
<1>1. /\ Walking /\ AtEnd /\ InMain /\ pc = "clone" /\ walks' = <<>> /\ pc' = "done"
      /\ UNCHANGED <<sccVars, mod, fullClone, funs>> /\ id' = id
  BY DEF EndMain, sccVars, Walking
<1>2. CloneInv' BY EndMainInv DEF TreeInv
<1>3. SearchKept' BY <1>1, SearchStays DEF TreeInv
<1>4. /\ OneForEach' /\ EnteredBy' /\ Descending'
      /\ Clones' = Clones /\ MainOf(mod)' = MainOf(mod)
      /\ \A v \in Numbers(funs) : /\ Pair(v)' = Pair(v) /\ CopiedOf(v)' = CopiedOf(v)
                                  /\ \A k : CopyFor(v, k)' = CopyFor(v, k)
      /\ MainOf(mod) \cup Clones \subseteq Numbers(funs)
  BY <1>1, ModuleStays
<1>5. Supplied'
  <2> SUFFICES ASSUME NEW v \in MainOf(mod) \cup Clones, NEW k \in CopiedOf(v)
               PROVE  \E c \in Clones : Pair(c) = CopyFor(v, k)
    BY <1>4 DEF Supplied
  <2> QED BY <1>1, NothingPending DEF TreeInv, Supplied
<1> QED BY <1>1, <1>2, <1>3, <1>4, <1>5, WithoutWalks DEF TreeInv

LEMMA InitInTree == ASSUME Init PROVE TreeInv
<1>1. /\ mod \in Modules /\ walks = <<>> /\ pc = "scc" /\ cg = CallGraph(mod)
      /\ funs = [n \in DOMAIN mod |->
                    [name |-> mod[n].name, kind |-> mod[n].kind, body |-> mod[n].body,
                     of |-> n - 1, context |-> <<>>]]
  BY DEF Init
<1>2. CloneInv BY InitInv
<1>3. Len(funs) = V /\ V \in Nat /\ Clones = {} /\ Originals = 0 .. V - 1 /\ Numbers(funs) = Originals
  <2>1. Len(funs) = V BY <1>1, <1>2 DEF CloneInv, Phases
  <2>2. Clones = V .. Len(funs) - 1 /\ V \in Nat /\ Originals = 0 .. V - 1
        /\ Numbers(funs) = 0 .. Len(funs) - 1
    BY <1>2, FunFacts DEF CloneInv
  <2> QED BY <2>1, <2>2
<1>4. \A v \in Originals : Fun(funs, v).kind = Fun(mod, v).kind /\ Fun(funs, v).context = <<>>
  BY <1>1, ModuleFacts DEF Fun, Originals
<1>5. \A v \in Originals : Fun(funs, v).of = v BY <1>2 DEF CloneInv, FunsInv, NamedAfter
<1>6. OneForEach BY <1>3, <1>4, <1>5 DEF OneForEach
<1>7. SearchKept BY <1>1, SearchInit DEF SearchKept
<1>8. Counted /\ WaitsForCopy
  <2>1. Len(walks) = 0 /\ 1 .. 0 = {} /\ 1 .. 0 - 1 = {} BY <1>1
  <2> QED BY <2>1 DEF Counted, WaitsForCopy
<1>9. Supplied /\ Descending BY <1>1, <1>3 DEF Supplied, Descending
<1>10. EnteredBy BY <1>3 DEF EnteredBy
<1> QED BY <1>2, <1>6, <1>7, <1>8, <1>9, <1>10 DEF TreeInv

-----------------------------------------------------------------------------
(***************************************************************************)
(* The pass keeps to the tree of contexts: each clone is the one copy of a *)
(* function for a context, a walk counts as the tree does and waits for    *)
(* the copy it asks for, and no copy that was asked for is missing.        *)
(***************************************************************************)
THEOREM TreeInvariant == Spec => []TreeInv
<1>1. ASSUME TreeInv, [Next]_vars PROVE TreeInv'
  <2>1. CASE BuildSCC BY <1>1, <2>1, BuildSCCInTree
  <2>2. CASE StartMain BY <1>1, <2>2, StartMainInTree
  <2>3. CASE VisitPlain BY <1>1, <2>3, VisitPlainInTree
  <2>4. CASE PassOver BY <1>1, <2>4, PassOverInTree
  <2>5. CASE LookUpUnknown BY <1>1, <2>5, LookUpUnknownInTree
  <2>6. CASE Redirect BY <1>1, <2>6, RedirectInTree
  <2>7. CASE Create BY <1>1, <2>7, CreateInTree
  <2>8. CASE Return BY <1>1, <2>8, ReturnInTree
  <2>9. CASE EndMain BY <1>1, <2>9, EndMainInTree
  <2>10. CASE UNCHANGED vars BY <1>1, <2>10, StutterInTree
  <2> QED BY <1>1, <2>1, <2>2, <2>3, <2>4, <2>5, <2>6, <2>7, <2>8, <2>9, <2>10 DEF Next
<1> QED BY <1>1, InitInTree, PTL DEF Spec

(***************************************************************************)
(* Cloning has a bound: below main, each call in a context is made in a    *)
(* later component of the call graph than the calls before it.             *)
(***************************************************************************)
THEOREM CloningLeavesComponents == Spec => []ContextsAcyclic
<1>1. TreeInv => ContextsAcyclic
  <2> SUFFICES ASSUME TreeInv, NEW c \in Clones,
                      NEW i \in DOMAIN Callers(Fun(funs, c).context),
                      NEW j \in DOMAIN Callers(Fun(funs, c).context), 1 < i, i < j
               PROVE  id[Callers(Fun(funs, c).context)[i]] # id[Callers(Fun(funs, c).context)[j]]
    BY DEF ContextsAcyclic
  <2> DEFINE context == Fun(funs, c).context
  <2>1. /\ i \in 1 .. Len(context) \div 2 /\ j \in 1 .. Len(context) \div 2
        /\ Callers(context)[i] = context[2 * i - 1] /\ Callers(context)[j] = context[2 * j - 1]
    BY DEF Callers
  <2>2. DescendsTo(id, context, Fun(funs, c).of) BY DEF TreeInv, Descending
  <2>3. pc # "scc" /\ mod \in Modules /\ SearchKept
    BY NothingCloned, FunFacts DEF TreeInv, CloneInv
  <2> HIDE DEF context
  <2>4. /\ context[2 * i - 1] \in DOMAIN id /\ context[2 * j - 1] \in DOMAIN id
        /\ id[context[2 * j - 1]] < id[context[2 * i - 1]]
    BY <2>1, <2>2 DEF DescendsTo
  <2>5. id[context[2 * i - 1]] \in Nat /\ id[context[2 * j - 1]] \in Nat BY <2>3, <2>4, IdFacts
  <2> QED BY <2>1, <2>4, <2>5 DEF context
<1> QED BY <1>1, TreeInvariant, PTL

-----------------------------------------------------------------------------
(* What a call of a clone from outside of its component says.              *)
LEMMA CallFromOutside ==
    ASSUME TreeInv, ~MainIsCalled(mod), NEW c \in Clones,
           NEW v \in Numbers(funs), NEW k \in DOMAIN Fun(funs, v).body,
           Fun(funs, v).body[k] = c, id[Fun(funs, v).of] # id[Fun(funs, c).of]
    PROVE  /\ v \in MainOf(mod) \cup Clones /\ k \in Nat \ {0}
           /\ CountedIn(mod, fullClone, Pair(v), BodyIn(mod, Pair(v))[k])
           /\ Fun(funs, v).context \in Contextual /\ Fun(funs, v).of \in Nat
           /\ Fun(funs, c).context = Stitch(Fun(funs, v).context, Fun(funs, v).of,
                                               OrdinalIn(mod, fullClone, Pair(v), k))
<1>1. CloneInv /\ FunsInv BY DEF TreeInv, CloneInv
<1>2. /\ pc # "scc" /\ mod \in Modules /\ SearchKept /\ Originals = Numbers(mod)
      /\ k \in 1 .. Len(Fun(funs, v).body) /\ Fun(funs, v).of \in Originals
      /\ Fun(funs, c).of \in Originals
  BY <1>1, NothingCloned, FunFacts DEF TreeInv, Originals, Clones
<1>3. v \in MainOf(mod) \cup Clones
  <2> SUFFICES ASSUME v \in Originals, v \notin MainOf(mod) PROVE FALSE BY DEF Clones
  <2>1. Fun(funs, v).body = Fun(mod, v).body BY <1>1 DEF CloneInv, OriginalsKept
  <2>2. c \in Program
    <3>1. k \in 1 .. Len(Fun(mod, v).body) BY <1>2, <2>1
    <3> QED BY <1>2, <2>1, <3>1, BodyFacts
  <2>3. c \in Nat /\ c \notin Originals BY <1>1, FunFacts DEF Clones
  <2> QED BY <2>2, <2>3, InstsAssumption DEF Program
<1>4. k \in CopiedOf(v) /\ Pair(c) = CopyFor(v, k)
  BY <1>2, <1>3 DEF TreeInv, EnteredBy
<1>5. CountedIn(mod, fullClone, Pair(v), BodyIn(mod, Pair(v))[k]) /\ k \in Nat \ {0}
  BY <1>4 DEF CopiedOf, CopiedAt, CountedIn
<1>6. Fun(funs, v).context \in Contextual /\ Fun(funs, v).of \in Nat
  <2>1. Fun(funs, v).of \in Nat BY <1>2, ModuleFacts
  <2>2. CASE v \in MainOf(mod)
    <3>1. Fun(funs, v).context = <<>> BY <1>1, <2>2, FunFacts DEF TreeInv, OneForEach
    <3>2. <<>> \in Seq(Nat) /\ Len(<<>>) = 0 /\ 0 % 2 = 0 OBVIOUS
    <3> QED BY <2>1, <3>1, <3>2 DEF Contextual
  <2>3. CASE v \in Clones BY <1>1, <2>1, <2>3 DEF FunsInv, NamedAfter
  <2> QED BY <1>3, <2>2, <2>3
<1>7. Fun(funs, c).of = BodyIn(mod, Pair(v))[k]
      /\ Fun(funs, c).context = ContextIn(mod, Pair(v), BodyIn(mod, Pair(v))[k],
                                          OrdinalIn(mod, fullClone, Pair(v), k))
  BY <1>4 DEF Pair, CopyFor, CopyIn
<1>8. ~SameIn(mod, Fun(funs, v).of, Fun(funs, c).of) BY <1>2, IdsAreComponents
<1>9. Pair(v)[1] = Fun(funs, v).of /\ Pair(v)[2] = Fun(funs, v).context BY DEF Pair
<1> QED BY <1>3, <1>5, <1>6, <1>7, <1>8, <1>9 DEF ContextIn, Stitch

(* A context says where it was opened.                                     *)
LEMMA ContextsUndone ==
    ASSUME NEW c \in Contextual, NEW d \in Contextual, NEW a \in Nat, NEW b \in Nat,
           NEW x \in Nat, NEW y \in Nat, Stitch(c, a, x) = Stitch(d, b, y)
    PROVE  c = d /\ a = b /\ x = y
<1>0. c \o <<a, x>> = d \o <<b, y>> BY DEF Stitch
<1>1. c \in Seq(Nat) /\ d \in Seq(Nat) /\ Len(c) \in Nat /\ Len(d) \in Nat
  BY LenProperties DEF Contextual
<1>2. Len(c) = Len(d)
  <2>1. Len(c \o <<a, x>>) = Len(c) + 2 /\ Len(d \o <<b, y>>) = Len(d) + 2 BY LengthsOfContexts
  <2> QED BY <1>0, <1>1, <2>1
<1>3. \A i \in 1 .. Len(c) : c[i] = d[i]
  <2>1. \A i \in 1 .. Len(c) : (c \o <<a, x>>)[i] = c[i] /\ (d \o <<b, y>>)[i] = d[i]
    BY <1>2, LengthsOfContexts
  <2> QED BY <1>0, <2>1
<1>4. a = b /\ x = y
  <2>1. (c \o <<a, x>>)[Len(c) + 1] = a /\ (c \o <<a, x>>)[Len(c) + 2] = x BY LengthsOfContexts
  <2>2. (d \o <<b, y>>)[Len(d) + 1] = b /\ (d \o <<b, y>>)[Len(d) + 2] = y BY LengthsOfContexts
  <2> QED BY <1>0, <1>2, <2>1, <2>2
<1>5. c = d BY <1>1, <1>2, <1>3, SeqEqual
<1> QED BY <1>4, <1>5

(* A set without two different elements.                                   *)
LEMMA AtMostOne ==
    ASSUME NEW S, \A x, y \in S : x = y
    PROVE  Cardinality(S) <= 1
<1>1. CASE S = {}
  <2>1. Cardinality(S) = 0 BY <1>1, FS_EmptySet
  <2> QED BY <2>1
<1>2. CASE S # {}
  <2>1. PICK x : S = {x} BY <1>2
  <2>2. Cardinality(S) = 1 BY <2>1, FS_Singleton
  <2> QED BY <2>2
<1> QED BY <1>1, <1>2

(***************************************************************************)
(* A clone is entered from one place only, besides its own component: two  *)
(* calls never share a copy, so what is found out about a clone holds for  *)
(* one calling context. Main is not called.                                *)
(***************************************************************************)
THEOREM CloningSeparatesContexts == Spec => []ContextsApart
<1>1. TreeInv => ContextsApart
  <2> SUFFICES ASSUME TreeInv, ~MainIsCalled(mod), NEW c \in Clones
               PROVE  Cardinality(CallsOf(c)) <= 1
    BY DEF ContextsApart
  <2>1. ASSUME NEW u \in Numbers(funs), NEW j \in DOMAIN Fun(funs, u).body,
               NEW v \in Numbers(funs), NEW k \in DOMAIN Fun(funs, v).body,
               Fun(funs, u).body[j] = c, id[Fun(funs, u).of] # id[Fun(funs, c).of],
               Fun(funs, v).body[k] = c, id[Fun(funs, v).of] # id[Fun(funs, c).of]
        PROVE  u = v /\ j = k
    <3>1. /\ u \in MainOf(mod) \cup Clones /\ j \in Nat \ {0}
          /\ CountedIn(mod, fullClone, Pair(u), BodyIn(mod, Pair(u))[j])
          /\ Fun(funs, u).context \in Contextual /\ Fun(funs, u).of \in Nat
          /\ Fun(funs, c).context = Stitch(Fun(funs, u).context, Fun(funs, u).of,
                                               OrdinalIn(mod, fullClone, Pair(u), j))
      BY <2>1, CallFromOutside
    <3>2. /\ v \in MainOf(mod) \cup Clones /\ k \in Nat \ {0}
          /\ CountedIn(mod, fullClone, Pair(v), BodyIn(mod, Pair(v))[k])
          /\ Fun(funs, v).context \in Contextual /\ Fun(funs, v).of \in Nat
          /\ Fun(funs, c).context = Stitch(Fun(funs, v).context, Fun(funs, v).of,
                                               OrdinalIn(mod, fullClone, Pair(v), k))
      BY <2>1, CallFromOutside
    <3>3. OrdinalIn(mod, fullClone, Pair(u), j) \in Nat /\ OrdinalIn(mod, fullClone, Pair(v), k) \in Nat
      BY <3>1, <3>2, OrdinalFacts
    <3>4. /\ Fun(funs, u).context = Fun(funs, v).context /\ Fun(funs, u).of = Fun(funs, v).of
          /\ OrdinalIn(mod, fullClone, Pair(u), j) = OrdinalIn(mod, fullClone, Pair(v), k)
      <4> DEFINE a == Fun(funs, u).of
                 b == Fun(funs, v).of
                 x == OrdinalIn(mod, fullClone, Pair(u), j)
                 y == OrdinalIn(mod, fullClone, Pair(v), k)
                 d == Fun(funs, u).context
                 e == Fun(funs, v).context
      <4>1. /\ d \in Contextual /\ e \in Contextual /\ a \in Nat /\ b \in Nat
            /\ x \in Nat /\ y \in Nat /\ Stitch(d, a, x) = Stitch(e, b, y)
        BY <3>1, <3>2, <3>3
      <4> HIDE DEF a, b, x, y, d, e
      <4>2. d = e /\ a = b /\ x = y BY <4>1, ContextsUndone
      <4> QED BY <4>2 DEF a, b, x, y, d, e
    <3>5. Pair(u) = Pair(v) BY <3>4 DEF Pair
    <3>6. u = v
      <4>1. \A m \in MainOf(mod) : Fun(funs, m).of = m /\ Fun(funs, m).context = <<>>
        <5>1. MainOf(mod) \subseteq Originals BY FunFacts DEF TreeInv, CloneInv
        <5> QED BY <5>1 DEF TreeInv, OneForEach, CloneInv, FunsInv, NamedAfter
      <4>2. \A d \in Clones : Fun(funs, d).context # <<>> BY DEF TreeInv, OneForEach
      <4>3. CASE u \in Clones /\ v \in Clones BY <3>5, <4>3 DEF TreeInv, OneForEach
      <4>4. CASE u \in MainOf(mod) /\ v \in MainOf(mod) BY <3>4, <4>1, <4>4
      <4> QED BY <3>1, <3>2, <3>4, <4>1, <4>2, <4>3, <4>4
    <3>7. ~(j < k) /\ ~(k < j) BY <3>1, <3>2, <3>4, <3>6, OrdinalGrows
    <3> QED BY <3>1, <3>2, <3>6, <3>7
  <2>2. \A x, y \in CallsOf(c) : x = y
    <3> SUFFICES ASSUME NEW x \in CallsOf(c), NEW y \in CallsOf(c) PROVE x = y OBVIOUS
    <3>1. PICK u \in Numbers(funs) :
             /\ id[Fun(funs, u).of] # id[Fun(funs, c).of]
             /\ \E j \in DOMAIN Fun(funs, u).body : Fun(funs, u).body[j] = c /\ x = <<u, j>>
      BY DEF CallsOf
    <3>2. PICK v \in Numbers(funs) :
             /\ id[Fun(funs, v).of] # id[Fun(funs, c).of]
             /\ \E k \in DOMAIN Fun(funs, v).body : Fun(funs, v).body[k] = c /\ y = <<v, k>>
      BY DEF CallsOf
    <3> QED BY <2>1, <3>1, <3>2
  <2> QED BY <2>2, AtMostOne
<1> QED BY <1>1, TreeInvariant, PTL

-----------------------------------------------------------------------------
(* The copies that the tree knows of.                                      *)
Made == {<<v, <<>>>> : v \in MainOf(mod)}
            \cup {<<Fun(funs, c).of, Fun(funs, c).context>> : c \in Clones}

LEMMA MadeIs ==
    ASSUME TreeInv
    PROVE  Made = {Pair(v) : v \in MainOf(mod) \cup Clones}
<1>1. \A v \in MainOf(mod) : Pair(v) = <<v, <<>>>>
  <2>1. MainOf(mod) \subseteq Originals BY FunFacts DEF TreeInv, CloneInv
  <2> QED BY <2>1 DEF TreeInv, OneForEach, CloneInv, FunsInv, NamedAfter, Pair
<1>2. \A c \in Clones : Pair(c) = <<Fun(funs, c).of, Fun(funs, c).context>> BY DEF Pair
<1> QED BY <1>1, <1>2 DEF Made

LEMMA MadeStays ==
    ASSUME TreeInv, TreeInv', Clones' = Clones, MainOf(mod)' = MainOf(mod),
           \A v \in Numbers(funs) : Pair(v)' = Pair(v)
    PROVE  Made' = Made
<1>1. \A c \in Clones : <<Fun(funs', c).of, Fun(funs', c).context>> = <<Fun(funs, c).of, Fun(funs, c).context>>
  BY DEF Pair, Clones
<1> QED BY <1>1 DEF Made

(* The copies that a copy in the module asks for.                          *)
LEMMA CopiesOfPair ==
    ASSUME TreeInv, NEW v \in MainOf(mod) \cup Clones
    PROVE  Contexts!CopiesFor(Pair(v)) = {CopyFor(v, k) : k \in CopiedOf(v)}
<1>1. v \in Numbers(funs) BY FunFacts DEF TreeInv, CloneInv, Clones
<1>2. Fun(funs, v).of \in Originals /\ mod \in Modules BY <1>1, FunFacts DEF TreeInv, CloneInv
<1> QED BY <1>2, TreeCopies DEF Pair, CopyFor, CopiedOf

LEMMA TreeBegins == ASSUME Init PROVE Contexts!Init
<1>1. /\ mod \in Modules /\ fullClone \in BOOLEAN /\ pc = "scc" BY DEF Init
<1>2. Clones = {} BY <1>1, InitInTree, NothingCloned
<1>3. Contexts!MainOf(mod) = MainOf(mod)
  BY DEF Contexts!MainOf, MainOf, Contexts!Named, Named, Contexts!Numbers, Numbers,
         Contexts!Fun, Fun, Contexts!Name, Name
<1>4. Made = {<<v, <<>>>> : v \in MainOf(mod)} BY <1>2 DEF Made
<1> QED BY <1>1, <1>3, <1>4 DEF Contexts!Init, Made

(* A clone is made when a copy asks for it.                                *)
LEMMA CreateCopies ==
    ASSUME TreeInv, Create
    PROVE  Contexts!Copy \/ UNCHANGED <<mod, fullClone, Made, pc>>
<1> DEFINE p == Pair(Walk.fun)
           copy == CopyFor(Walk.fun, Walk.k)
<1>1. /\ AtCall /\ InCallGraph /\ ~LeftAlone /\ pc = "clone"
      /\ UNCHANGED <<mod, fullClone, pc>>
      /\ Clones' = Clones \cup {Len(funs)} /\ MainOf(mod)' = MainOf(mod)
      /\ \A c \in Clones : Fun(funs', c) = Fun(funs, c)
      /\ <<Fun(funs', Len(funs)).of, Fun(funs', Len(funs)).context>> = <<Inst, CalleeContext(Inst)>>
  BY CreateFacts DEF Walking
<1>2. /\ Walk.fun \in MainOf(mod) \cup Clones /\ Walk.k \in CopiedOf(Walk.fun)
      /\ copy = <<Inst, CalleeContext(Inst)>>
  BY <1>1, CallInTree
<1>3. Made' = Made \cup {copy} BY <1>1, <1>2 DEF Made
<1>4. p \in Made BY <1>2, MadeIs
<1>5. copy \in Contexts!CopiesFor(p) BY <1>2, CopiesOfPair
<1> HIDE DEF p, copy
<1>6. CASE copy \in Made BY <1>1, <1>3, <1>6
<1>7. CASE copy \notin Made
  <2>1. copy \in Contexts!CopiesFor(p) \ Made BY <1>5, <1>7
  <2>2. \E q \in Made : \E c \in Contexts!CopiesFor(q) \ Made : Made' = Made \cup {c}
    BY <1>3, <1>4, <2>1
  <2>3. ~(pc = "done") /\ (pc = "done")' = (pc = "done") BY <1>1
  <2> QED BY <1>1, <2>2, <2>3 DEF Contexts!Copy, Made
<1> QED BY <1>6, <1>7

(* The pass ends when no copy that was asked for is missing.               *)
LEMMA EndMainFinishes == ASSUME TreeInv, EndMain PROVE Contexts!Finish
<1>1. /\ Walking /\ AtEnd /\ InMain /\ pc = "clone" /\ pc' = "done"
      /\ UNCHANGED <<mod, fullClone, funs>>
  BY DEF EndMain, Walking
<1>2. Made' = Made BY <1>1 DEF Made, Clones, Originals, MainOf, Named
<1>3. \A p \in Made : Contexts!CopiesFor(p) \subseteq Made
  <2> SUFFICES ASSUME NEW v \in MainOf(mod) \cup Clones, NEW k \in CopiedOf(v)
               PROVE  CopyFor(v, k) \in Made
    BY MadeIs, CopiesOfPair
  <2>1. \E c \in Clones : Pair(c) = CopyFor(v, k) BY <1>1, NothingPending DEF TreeInv, Supplied
  <2> QED BY <2>1, MadeIs
<1>4. ~(pc = "done") /\ (pc = "done")' = TRUE BY <1>1
<1> QED BY <1>1, <1>2, <1>3, <1>4 DEF Contexts!Finish, Made

(* Without main there is nothing to clone.                                 *)
LEMMA StartMainFinishes ==
    ASSUME TreeInv, StartMain
    PROVE  Contexts!Finish \/ UNCHANGED <<mod, fullClone, Made, pc = "done">>
<1>1. pc = "scc" /\ UNCHANGED <<mod, fullClone, funs>> BY DEF StartMain
<1>2. Made' = Made BY <1>1 DEF Made, Clones, Originals, MainOf, Named
<1>3. CASE MainOf(mod) = {}
  <2>1. Made = {} BY <1>1, <1>3, NothingCloned DEF Made
  <2>2. pc' = "done" BY <1>3 DEF StartMain
  <2>3. ~(pc = "done") /\ (pc = "done")' = TRUE BY <1>1, <2>2
  <2> QED BY <1>1, <1>2, <2>1, <2>3 DEF Contexts!Finish, Made
<1>4. CASE MainOf(mod) # {}
  <2>1. pc' = "clone" BY <1>4 DEF StartMain
  <2> QED BY <1>1, <1>2, <2>1
<1> QED BY <1>3, <1>4

(***************************************************************************)
(* The pass implements the tree of contexts: it makes the copies that the  *)
(* calling contexts ask for, one for each context and no others, and it    *)
(* does not end before all of them are there.                              *)
(***************************************************************************)
THEOREM CloningImplementsContexts == Spec => ImplementsContexts
<1>1. Init => Contexts!Init BY TreeBegins
<1>2. ASSUME TreeInv, TreeInv', [Next]_vars
      PROVE  [Contexts!Next]_<<mod, fullClone, Made, pc = "done">>
  <2> SUFFICES ASSUME TRUE
               PROVE  Contexts!Next \/ UNCHANGED <<mod, fullClone, Made, pc = "done">>
    OBVIOUS
  <2>1. CASE UNCHANGED <<mod, fullClone, funs>> /\ (pc = "done")' = (pc = "done")
    <3>1. Made' = Made BY <2>1 DEF Made, Clones, Originals, MainOf, Named
    <3> QED BY <2>1, <3>1
  <2>2. CASE BuildSCC BY <2>1, <2>2 DEF BuildSCC, cloneVars
  <2>3. CASE StartMain BY <1>2, <2>3, StartMainFinishes DEF Contexts!Next
  <2>4. CASE VisitPlain BY <2>1, <2>4 DEF VisitPlain
  <2>5. CASE PassOver BY <2>1, <2>5 DEF PassOver
  <2>6. CASE LookUpUnknown BY <2>1, <2>6 DEF LookUpUnknown, AtCall, Walking
  <2>7. CASE Redirect
    <3>1. UNCHANGED <<mod, fullClone, pc>> BY <2>7 DEF Redirect
    <3>2. Made' = Made BY <1>2, <2>7, RedirectInTree, MadeStays
    <3> QED BY <3>1, <3>2
  <2>8. CASE Create BY <1>2, <2>8, CreateCopies DEF Contexts!Next
  <2>9. CASE Return
    <3>1. UNCHANGED <<mod, fullClone, pc>> BY <2>9 DEF Return
    <3>2. Made' = Made BY <1>2, <2>9, ReturnInTree, MadeStays
    <3> QED BY <3>1, <3>2
  <2>10. CASE EndMain BY <1>2, <2>10, EndMainFinishes DEF Contexts!Next
  <2>11. CASE UNCHANGED vars BY <2>1, <2>11 DEF vars, cloneVars
  <2> QED BY <1>2, <2>2, <2>3, <2>4, <2>5, <2>6, <2>7, <2>8, <2>9, <2>10, <2>11 DEF Next
<1>3. ASSUME TreeInv, TreeInv', [Next]_vars
      PROVE  [Contexts!Next]_<<mod, fullClone,
                 {<<v, <<>>>> : v \in MainOf(mod)}
                    \cup {<<Fun(funs, c).of, Fun(funs, c).context>> : c \in Clones},
                 pc = "done">>
  BY <1>2, <1>3 DEF Made
<1> QED BY <1>1, <1>3, TreeInvariant, PTL DEF Spec, ImplementsContexts, Contexts!Spec
=============================================================================
