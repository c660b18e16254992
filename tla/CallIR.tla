-------------------------------- MODULE CallIR ---------------------------------
(***************************************************************************)
(* Modules as FunctionClonePass sees them: functions that call each other. *)
(*                                                                         *)
(* A module is the tuple of its functions, in the order in which buildSCC  *)
(* numbers them from 0. A function is a record                             *)
(*   name   its name, see below                                            *)
(*   kind   "defined", "declared" (no body) or "intrinsic" (no body, and   *)
(*          no node is entered from a call of it)                          *)
(*   body   its instructions in layout order: the number of the function   *)
(*          that is called, External for the call of a function pointer,   *)
(*          Load, or Plain for everything else                             *)
(*                                                                         *)
(* The numbers at the end of a name are cut off at the underscores:        *)
(* [base |-> "f", pieces |-> <<1>>] is f_1. An Empty piece stands between  *)
(* two underscores or behind the last one.                                 *)
(***************************************************************************)
EXTENDS Integers, Sequences, FiniteSets

CONSTANTS External, Load, Plain

ASSUME InstsAssumption == {External, Load, Plain} \cap Nat = {} /\ External \notin {Load, Plain}

Empty == -1
Name(base) == [base |-> base, pieces |-> <<>>]

IsCall(inst) == inst \notin {Load, Plain}
CallsIn(body) == {k \in DOMAIN body : IsCall(body[k])}

(* The function with number v.                                             *)
Fun(mod, v) == mod[v + 1]
Numbers(mod) == 0 .. Len(mod) - 1
Named(mod, name) == {v \in Numbers(mod) : Fun(mod, v).name = name}

IsDefined(mod, inst) == inst # External /\ Fun(mod, inst).kind = "defined"

Insts(mod) == Numbers(mod) \cup {External, Load, Plain}
Kinds == {"defined", "declared", "intrinsic"}
Names(mod) == {mod[n].name : n \in DOMAIN mod}

WellFormedModule(mod) ==
    /\ mod \in Seq([name : Names(mod), kind : Kinds, body : Seq(Insts(mod))])
    /\ \A v \in Numbers(mod) :
          /\ Fun(mod, v).name = [base   |-> Fun(mod, v).name.base,
                                 pieces |-> Fun(mod, v).name.pieces]
          /\ Fun(mod, v).name.pieces \in Seq(Nat \cup {Empty})
          /\ Fun(mod, v).kind # "defined" => Fun(mod, v).body = <<>>
    /\ \A u, v \in Numbers(mod) : Fun(mod, u).name = Fun(mod, v).name => u = v

(***************************************************************************)
(* No name of the program looks like the name of a clone: none ends in an  *)
(* underscore, and no two names differ by an even number of pieces, such   *)
(* as f and f_1_2 do.                                                      *)
(***************************************************************************)
NamesApart(mod) ==
    \A u, v \in Numbers(mod) :
        LET a == Fun(mod, u).name
            b == Fun(mod, v).name
        IN  /\ a.pieces # <<>> => a.pieces[Len(a.pieces)] # Empty
            /\ a.base = b.base /\ Len(a.pieces) < Len(b.pieces)
                  => (Len(b.pieces) - Len(a.pieces)) % 2 = 1

(***************************************************************************)
(* LLVM's call graph: a function points to what it calls, save intrinsics; *)
(* a call of a function pointer, and whatever a declared function does,    *)
(* leads to the node of no function.                                       *)
(***************************************************************************)
CallGraph(mod) ==
    [n \in DOMAIN mod |->
        {mod[n].body[k] : k \in {j \in CallsIn(mod[n].body) :
            mod[n].body[j] = External \/ Fun(mod, mod[n].body[j]).kind # "intrinsic"}}
        \cup (IF mod[n].kind = "declared" THEN {External} ELSE {})]

MainOf(mod) == Named(mod, Name("main"))
MainIsCalled(mod) ==
    \E v \in Numbers(mod) : \E k \in CallsIn(Fun(mod, v).body) :
        Fun(mod, v).body[k] \in MainOf(mod)
=============================================================================
