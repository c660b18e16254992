---------------------------- MODULE MemoryAnnotator ----------------------------
(***************************************************************************)
(* MemoryAnnotator::runOnModule: a walk over all functions, blocks and     *)
(* instructions that inserts, next to each allocation and each access, a   *)
(* call of the run-time library that reports it, with the casts it needs;  *)
(* and, when it comes to main, appends a copy of main that returns its     *)
(* result twice. The walk goes over what it inserts behind the iterator,   *)
(* and over the function it appends.                                       *)
(*                                                                         *)
(* A function is a record: name, blocks (sequences of instructions), and   *)
(* ids, the highest number of an instruction. An instruction is a record   *)
(*   id     its number; it stands for its value, too                       *)
(*   op     its class; "call" is a call the pass does not look for, and    *)
(*          "indirect" one of a function pointer                           *)
(*   args   the values it takes; what is not the number of an instruction  *)
(*          is defined elsewhere (a return of nothing takes a constant)    *)
(*   ty     the type of the value loaded, stored or converted              *)
(*   what   of an access: the type of its pointer; of a cast: its kind; of *)
(*          a tracker: the name of the function called                     *)
(***************************************************************************)
EXTENDS Integers, FiniteSets, SequencesExt

CONSTANT Modules    \* sequences of functions, none of them a tracker

TrackerNames ==
    <<"stack_allocation_bound_after", "heap_allocation_bound_after", "heap_free_before",
      "stack_save_after", "stack_restore_before", "load_integer_after",
      "store_integer_before">>

VARIABLES
    mod,        \* the module before the pass
    funs,       \* the module as it grows
    fn, bb, pos \* the iterators; bb = 0 in front of the first block

vars == <<mod, funs, fn, bb, pos>>

Types == {"i64", "i32", "float", "double", "ptr", "aggregate", "none"}
VoidPtrTy == "i8*"
SizeTy == "i64"
Constant == 0       \* the value of a constant, and of undef

Allocations == {"alloca", "malloc"}
Tracked == Allocations \cup {"free", "stacksave", "stackrestore", "load", "store"}
Inserted == {"cast", "gep", "track", "insertvalue"}

-----------------------------------------------------------------------------
(* Modules                                                                 *)

Classes == Tracked \cup Inserted \cup {"call", "indirect", "ret", "other"}
Marks ==
    {VoidPtrTy, "other", "none", "bitcast", "ptrtoint", "zext"} \cup Range(TrackerNames)

Insts == [id : Nat, op : Classes, args : Seq(Int), ty : Types, what : Marks]
Functions == [name : STRING, ids : Nat, blocks : Seq(Seq(Insts))]

(* How many operands the pass reads.                                       *)
Arity(op) ==
    CASE op = "store" -> 2
      [] op \in {"malloc", "free", "stackrestore", "load", "ret"} -> 1
      [] OTHER -> 0

InstsOf(f) == UNION {Range(f.blocks[b]) : b \in DOMAIN f.blocks}

(* A number stands in one place.                                           *)
NumbersApart(f) ==
    \A b, c \in DOMAIN f.blocks :
        \A p \in DOMAIN f.blocks[b], q \in DOMAIN f.blocks[c] :
            f.blocks[b][p].id = f.blocks[c][q].id => b = c /\ p = q

Uses(inst, v) == \E n \in DOMAIN inst.args : inst.args[n] = v

(* An operand from the same block stands in front of its use.              *)
UsedBehind(block, ops) ==
    \A p, q \in DOMAIN block :
        block[q].op \in ops /\ Uses(block[q], block[p].id) => p < q

(* A function of the program, in SSA form: the values are those of the     *)
(* function itself or of no instruction at all, and a return ends its      *)
(* block. Its own conversions are of no class the pass knows ("other"), as *)
(* are its phis.                                                           *)
WellFormed(f) ==
    /\ f \in Functions
    /\ NumbersApart(f)
    /\ \A b \in DOMAIN f.blocks :
          /\ f.blocks[b] # <<>>
          /\ UsedBehind(f.blocks[b], Tracked \cup {"ret"})
          /\ \A p \in DOMAIN f.blocks[b] :
                f.blocks[b][p].op = "ret" => p = Len(f.blocks[b])
    /\ \A i \in InstsOf(f) :
          /\ i.id \in 1 .. f.ids
          /\ i.op \notin Inserted
          /\ Len(i.args) >= Arity(i.op)
          /\ \A n \in DOMAIN i.args : i.args[n] <= f.ids
          /\ i.op \in {"load", "store"} => i.ty # "none"

(* The run-time library has its functions outside the module, and main     *)
(* has a body.                                                             *)
ASSUME ModulesAssumption ==
    \A m \in Modules :
        /\ m \in Seq(Functions)
        /\ \A f \in DOMAIN m :
              /\ WellFormed(m[f])
              /\ m[f].name \notin Range(TrackerNames)
              /\ m[f].name = "main" => m[f].blocks # <<>>

-----------------------------------------------------------------------------
(* Instructions                                                            *)

Instr(n, op, args, ty, what) ==
    [id |-> n, op |-> op, args |-> args, ty |-> ty, what |-> what]

CreateTracker(n, name, args) == Instr(n, "track", args, "none", name)
CreatePointerCast(n, v) == Instr(n, "cast", <<v>>, "ptr", "bitcast")
CreateGep(n, base, length) == Instr(n, "gep", <<base, length>>, "none", "none")

PosOf(block, v) == CHOOSE p \in DOMAIN block : block[p].id = v
InsertBefore(block, v, inst) == InsertAt(block, PosOf(block, v), inst)
InsertAfter(block, v, inst) == InsertAt(block, PosOf(block, v) + 1, inst)

Castable(ty) == ty # "aggregate"
BitCastable(ty) == ty \in {"i64", "double"}

(* Mutant: a pointer is extended like an integer.                          *)
CastAnyToSizeTy(n, v, ty) ==
    CASE ~Castable(ty)    -> Instr(n, "cast", <<Constant>>, SizeTy, "bitcast")
      [] BitCastable(ty)  -> Instr(n, "cast", <<v>>, ty, "bitcast")
      [] OTHER            -> Instr(n, "cast", <<v>>, ty, "zext")

(* A value that cannot be converted is replaced by a constant; what is     *)
(* neither a pointer nor of 64 bits is taken for a smaller integer.        *)
Cast2SizeTy(n, v, ty) ==
    CASE ~Castable(ty)    -> Instr(n, "cast", <<Constant>>, SizeTy, "bitcast")
      [] BitCastable(ty)  -> Instr(n, "cast", <<v>>, ty, "bitcast")
      [] ty = "ptr"       -> Instr(n, "cast", <<v>>, ty, "ptrtoint")
      [] OTHER            -> Instr(n, "cast", <<v>>, ty, "zext")

-----------------------------------------------------------------------------
(* FunctionClone.cpp                                                       *)

(* Mutant: the result is put into the first field only.                   *)
PairedOnce(block, n) ==
    LET ret == Last(block)
    IN  Front(block) \o
            <<Instr(n + 1, "insertvalue", <<Constant, ret.args[1]>>, "none", "none"),
              [ret EXCEPT !.args = <<n + 1>>]>>

(* The result v becomes the pair of v and v, built from undef.             *)
PairedReturn(block, n) ==
    LET ret == Last(block)
        v   == ret.args[1]
    IN  Front(block) \o
            <<Instr(n + 1, "insertvalue", <<Constant, v>>, "none", "none"),
              Instr(n + 2, "insertvalue", <<n + 1, v>>, "none", "none"),
              [ret EXCEPT !.args = <<n + 2>>]>>

CloneFunction(f) ==
    [name   |-> f.name \o "_clone",
     ids    |-> f.ids + 2 * Len(f.blocks),
     blocks |-> [b \in DOMAIN f.blocks |->
                    IF Last(f.blocks[b]).op = "ret"
                    THEN PairedReturn(f.blocks[b], f.ids + 2 * (b - 1))
                    ELSE f.blocks[b]]]

-----------------------------------------------------------------------------
Declaration(name) == [name |-> name, ids |-> 0, blocks |-> <<>>]

(* setEnv declares the trackers at the end of the module.                  *)
Init ==
    /\ mod \in Modules
    /\ funs = mod \o [n \in DOMAIN TrackerNames |-> Declaration(TrackerNames[n])]
    /\ fn = 1
    /\ bb = 0
    /\ pos = 1

AtFunction == fn <= Len(funs)
Self == funs[fn]
InBlock == AtFunction /\ bb \in DOMAIN Self.blocks
Block == Self.blocks[bb]
AtInst == InBlock /\ pos <= Len(Block)
Inst == Block[pos]

(* The head of annotateFunction.                                           *)
EnterFunction ==
    /\ AtFunction
    /\ bb = 0
    /\ funs' = IF Self.name = "main" THEN Append(funs, CloneFunction(Self)) ELSE funs
    /\ bb' = 1
    /\ UNCHANGED <<mod, fn, pos>>

EndBlock ==
    /\ InBlock
    /\ pos > Len(Block)
    /\ bb' = bb + 1
    /\ pos' = 1
    /\ UNCHANGED <<mod, funs, fn>>

EndFunction ==
    /\ AtFunction
    /\ bb > Len(Self.blocks)
    /\ fn' = fn + 1
    /\ bb' = 0
    /\ UNCHANGED <<mod, funs, pos>>

(* The block after the insertions around Inst; the iterator moves on from  *)
(* Inst, so that it meets what stands behind it next.                      *)
Rewrite(block) ==
    /\ funs' = [funs EXCEPT ![fn].blocks[bb] = block, ![fn].ids = Self.ids + 3]
    /\ pos' = PosOf(block, Inst.id) + 1
    /\ UNCHANGED <<mod, fn, bb>>

Fresh(n) == Self.ids + n

(* Mutant: the base is inserted once more.                                 *)
BaseInsertedTwice(base, bound, track) == <<base, base, bound, track>>

(* What stands behind an alloca.                                           *)
AllocaTracking(base, bound, track) == <<base, bound, track>>

AnnotateAlloca ==
    /\ AtInst
    /\ Inst.op = "alloca"
    /\ LET base  == CreatePointerCast(Fresh(1), Inst.id)
           bound == CreateGep(Fresh(2), base.id, Constant)
           track == CreateTracker(Fresh(3), "stack_allocation_bound_after",
                                  <<base.id, base.id, bound.id>>)
       IN  Rewrite(SubSeq(Block, 1, pos) \o AllocaTracking(base, bound, track)
                       \o SubSeq(Block, pos + 1, Len(Block)))

AnnotateMalloc ==
    /\ AtInst
    /\ Inst.op = "malloc"
    /\ LET bound == CreateGep(Fresh(1), Inst.id, Inst.args[1])
           track == CreateTracker(Fresh(2), "heap_allocation_bound_after",
                                  <<Inst.id, Inst.id, bound.id>>)
       IN  Rewrite(InsertAfter(InsertAfter(Block, Inst.id, bound), bound.id, track))

(* Mutant: reported when it is done.                                       *)
AnnotateFreed ==
    /\ AtInst
    /\ Inst.op = "free"
    /\ Rewrite(InsertAfter(Block, Inst.id,
                  CreateTracker(Fresh(1), "heap_free_before", <<Inst.args[1]>>)))

AnnotateFree ==
    /\ AtInst
    /\ Inst.op = "free"
    /\ Rewrite(InsertBefore(Block, Inst.id,
                  CreateTracker(Fresh(1), "heap_free_before", <<Inst.args[1]>>)))

AnnotateStackSave ==
    /\ AtInst
    /\ Inst.op = "stacksave"
    /\ Rewrite(InsertAfter(Block, Inst.id,
                  CreateTracker(Fresh(1), "stack_save_after", <<Inst.id>>)))

AnnotateStackRestore ==
    /\ AtInst
    /\ Inst.op = "stackrestore"
    /\ Rewrite(InsertBefore(Block, Inst.id,
                  CreateTracker(Fresh(1), "stack_restore_before", <<Inst.args[1]>>)))

(* The pointer of an access, cast in front of it if it is no i8*.          *)
Pointer(n) == IF Inst.what # VoidPtrTy THEN Fresh(n) ELSE Inst.args[1]
WithPointer(block, n) ==
    IF Inst.what # VoidPtrTy
    THEN InsertBefore(block, Inst.id, CreatePointerCast(Fresh(n), Inst.args[1]))
    ELSE block

(* Mutant: the tracker is put right behind the load.                       *)
BehindLoad(loadee) == Inst.id

(* The instruction behind which the tracker of a load is put.              *)
LoadPos(loadee) == loadee

AnnotateLoad ==
    /\ AtInst
    /\ Inst.op = "load"
    /\ LET converted == Inst.ty # SizeTy
           loadee    == IF converted THEN Fresh(2) ELSE Inst.id
           track     == CreateTracker(Fresh(3), "load_integer_after", <<Pointer(1), loadee>>)
           block     == WithPointer(Block, 1)
           withCast  == IF converted
                        THEN InsertAfter(block, Inst.id, Cast2SizeTy(Fresh(2), Inst.id, Inst.ty))
                        ELSE block
       IN  Rewrite(InsertAfter(withCast, LoadPos(loadee), track))

AnnotateStore ==
    /\ AtInst
    /\ Inst.op = "store"
    /\ LET converted == Inst.ty # SizeTy
           storee    == IF converted THEN Fresh(2) ELSE Inst.args[2]
           track     == CreateTracker(Fresh(3), "store_integer_before", <<Pointer(1), storee>>)
           block     == WithPointer(Block, 1)
           withCast  == IF converted
                        THEN InsertBefore(block, Inst.id,
                                          Cast2SizeTy(Fresh(2), Inst.args[2], Inst.ty))
                        ELSE block
       IN  Rewrite(InsertBefore(withCast, Inst.id, track))

(* Mutant: the iterator stays where it is.                                 *)
PassAgain ==
    /\ AtInst
    /\ Inst.op \notin Tracked
    /\ UNCHANGED vars

(* Anything else, what the pass has inserted included.                     *)
PassOver ==
    /\ AtInst
    /\ Inst.op \notin Tracked
    /\ pos' = pos + 1
    /\ UNCHANGED <<mod, funs, fn, bb>>

Next ==
    \/ EnterFunction
    \/ EndBlock
    \/ EndFunction
    \/ AnnotateAlloca
    \/ AnnotateMalloc
    \/ AnnotateFree
    \/ AnnotateStackSave
    \/ AnnotateStackRestore
    \/ AnnotateLoad
    \/ AnnotateStore
    \/ PassOver

Spec == Init /\ [][Next]_vars /\ WF_vars(Next)

Done == fn > Len(funs)

-----------------------------------------------------------------------------
(***************************************************************************)
(* The iterators are in the module, and a number stands in one place: an   *)
(* instruction is inserted once (inserting it again breaks the list).      *)
(***************************************************************************)
TypeOK ==
    /\ fn \in 1 .. Len(funs) + 1
    /\ AtFunction => bb \in 0 .. Len(Self.blocks) + 1
    /\ InBlock => pos \in 1 .. Len(Block) + 1
    /\ \A f \in DOMAIN funs :
          /\ NumbersApart(funs[f])
          /\ \A i \in InstsOf(funs[f]) : i.id \in 1 .. funs[f].ids /\ i.ty \in Types

(***************************************************************************)
(* An instruction that was inserted takes only values that are there: an   *)
(* operand from the same block stands in front of it.                      *)
(***************************************************************************)
DefinedBeforeUse ==
    \A f \in DOMAIN funs : \A b \in DOMAIN funs[f].blocks :
        UsedBehind(funs[f].blocks[b], Inserted)

(***************************************************************************)
(* What a block reports, in order: the instructions of the program, and    *)
(* the trackers with the values of the program they are given.             *)
(***************************************************************************)
(* The instruction of one of these classes with the number v, if any.      *)
By(f, v, ops) == {i \in InstsOf(f) : i.id = v /\ i.op \in ops}
OperandOf(f, v, ops, n) == (CHOOSE i \in By(f, v, ops) : TRUE).args[n]

(* The value a cast or a getelementptr is made from, in at most two steps. *)
Conversions == {"cast", "gep"}
Origin(f, v) == IF By(f, v, Conversions) = {} THEN v ELSE OperandOf(f, v, Conversions, 1)
Resolve(f, v) == Origin(f, Origin(f, v))

(* The values insertvalue has put together, at most two.                   *)
Pairings == {"insertvalue"}
PutTogether(f, v) == IF By(f, v, Pairings) = {} THEN <<>> ELSE <<OperandOf(f, v, Pairings, 2)>>
Returned(f, v) ==
    IF By(f, v, Pairings) = {} THEN <<v>>
    ELSE PutTogether(f, OperandOf(f, v, Pairings, 1)) \o PutTogether(f, v)

Event(does, of) == [does |-> does, of |-> of]

Reported(f, inst) ==
    CASE inst.op = "track" ->
            <<Event(inst.what, [n \in DOMAIN inst.args |-> Resolve(f, inst.args[n])])>>
      [] inst.op = "ret"   -> <<Event("ret", Returned(f, inst.args[1]))>>
      [] inst.op \in Conversions \cup Pairings -> <<>>
      [] OTHER             -> <<Event(inst.op, <<inst.id>>)>>

Reports(f, block) == FlattenSeq([n \in DOMAIN block |-> Reported(f, block[n])])

(* What it should report: the name of a tracker says where it belongs.     *)
Value(inst, v) == IF Castable(inst.ty) THEN v ELSE Constant

Expected(inst, results) ==
    LET self == Event(inst.op, <<inst.id>>)
        n    == inst.id
        p    == inst.args[1]
    IN  CASE inst.op = "alloca" ->
                <<self, Event("stack_allocation_bound_after", <<n, n, n>>)>>
          [] inst.op = "malloc" ->
                <<self, Event("heap_allocation_bound_after", <<n, n, n>>)>>
          [] inst.op = "free" -> <<Event("heap_free_before", <<p>>), self>>
          [] inst.op = "stacksave" -> <<self, Event("stack_save_after", <<n>>)>>
          [] inst.op = "stackrestore" -> <<Event("stack_restore_before", <<p>>), self>>
          [] inst.op = "load" ->
                <<self, Event("load_integer_after", <<p, Value(inst, n)>>)>>
          [] inst.op = "store" ->
                <<Event("store_integer_before", <<p, Value(inst, inst.args[2])>>), self>>
          [] inst.op = "ret" -> <<Event("ret", [k \in 1 .. results |-> p])>>
          [] OTHER -> <<self>>

ExpectedOf(block, results) ==
    FlattenSeq([k \in DOMAIN block |-> Expected(block[k], results)])

Behind(f, b) == f < fn \/ (f = fn /\ b < bb)

(***************************************************************************)
(* Behind the iterators, every allocation, release, load and store has one *)
(* tracker, on the side its name says, given the values of the program;    *)
(* nothing else has one, and the program's own instructions are untouched. *)
(***************************************************************************)
TrackersInPlace ==
    \A f \in DOMAIN mod : \A b \in DOMAIN mod[f].blocks :
        Behind(f, b) => Reports(funs[f], funs[f].blocks[b]) = ExpectedOf(mod[f].blocks[b], 1)

(***************************************************************************)
(* The copy of main, which the pass annotates after everything else,       *)
(* reports what main reports, once, and returns the result of main twice.  *)
(***************************************************************************)
CloneReportsAsMain ==
    Done => \A f \in DOMAIN mod : mod[f].name = "main" =>
        \E c \in DOMAIN funs \ DOMAIN mod :
            /\ funs[c].name = mod[f].name \o "_clone"
            /\ \A b \in DOMAIN mod[f].blocks :
                  Reports(funs[c], funs[c].blocks[b]) = ExpectedOf(mod[f].blocks[b], 2)

ValidCast(i) ==
    \/ i.what = "bitcast"  /\ (BitCastable(i.ty) \/ i.ty = "ptr")
    \/ i.what = "ptrtoint" /\ i.ty = "ptr"
    \/ i.what = "zext"     /\ i.ty = "i32"

(***************************************************************************)
(* A cast to the 64 bits that a tracker takes is one the IR knows, if the  *)
(* value is no float (which cast2SizeTy takes for an integer).             *)
(***************************************************************************)
CastsValid ==
    \A f \in DOMAIN funs : \A i \in InstsOf(funs[f]) :
        i.op = "cast" /\ i.ty # "float" => ValidCast(i)

(* The walk ends, although blocks and module grow under it.                *)
AnnotationEnds == <>Done
=============================================================================
