------------------------------ MODULE FunctionDB -------------------------------
(***************************************************************************)
(* FunctionDB: which calls the cloning leaves alone. It asks only when the *)
(* option full_clone is switched off.                                      *)
(***************************************************************************)
EXTENDS CallIR

CONSTANTS
    Threshold,  \* threshold: 10 in the code
    K,          \* 10 in the code
    NoopFuncs   \* the names of the table noopFuncs

ASSUME LimitsAssumption == Threshold \in Nat /\ K \in Nat

(* cdb: a load counts as the store of the second test as well.             *)
Weight(fun) ==
    LET loads == Cardinality({k \in DOMAIN fun.body : fun.body[k] = Load})
    IN  loads + 2 * loads + 10 * Cardinality(CallsIn(fun.body))

(* skip(funct), for the calls in main.                                     *)
SkipInMain(fullClone, fun) ==
    ~fullClone /\ (Weight(fun) <= Threshold \/ fun.name \in NoopFuncs)

(* skip(funct, context), for the calls in a clone.                         *)
Skip(fullClone, fun, context) ==
    ~fullClone /\ (Len(context) \div 2 > K \/ fun.name \in NoopFuncs)
=============================================================================
