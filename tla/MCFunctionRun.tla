---------------------------- MODULE MCFunctionRun ----------------------------
(* FunctionRun on the well-typed ones of the sample functions.             *)
EXTENDS FunctionRun, SampleFunctions

(* A phi and its operands have one pointee type: here, pointee size.       *)
Typed(body) ==
    \A v \in DOMAIN body : body[v].op = "phi" =>
        \A k \in {1, 2} : LET u == body[v].operands[k]
                          IN  u # Outside => body[u].deref = body[v].deref

TypedForward3 ==
    [n \in {m \in DOMAIN Forward3 : Typed(Forward3[m])} |-> Forward3[n]]
=============================================================================
