--------------------------- MODULE BoundInference ----------------------------
(***************************************************************************)
(* What contextFreeAnalysis promises, without sweeps or a changed flag:    *)
(* starting from nothing, derive one justified fact after the other, in    *)
(* any order, and stop only when there is nothing left to derive.          *)
(***************************************************************************)
EXTENDS FunctionCode

VARIABLES fn, done, inbounds, transitives, bounds

vars == <<fn, done, inbounds, transitives, bounds>>

Underivable(v) ==
    /\ EarnsInbound(Code[fn][v], inbounds, transitives, bounds) => v \in inbounds
    /\ EarnsExact(Code[fn][v], inbounds, transitives, bounds) => v \in transitives

Init ==
    /\ fn \in Functions
    /\ done = FALSE
    /\ inbounds = {}
    /\ transitives = {}
    /\ bounds = [v \in Values(fn) |-> 0]

DeriveInbound(v) ==
    /\ v \notin inbounds
    /\ EarnsInbound(Code[fn][v], inbounds, transitives, bounds)
    /\ ~EarnsExact(Code[fn][v], inbounds, transitives, bounds)
    /\ inbounds' = inbounds \cup {v}
    /\ UNCHANGED <<fn, done, transitives, bounds>>

DeriveExact(v) ==
    /\ v \notin transitives
    /\ EarnsExact(Code[fn][v], inbounds, transitives, bounds)
    /\ inbounds' = inbounds \cup {v}
    /\ transitives' = transitives \cup {v}
    /\ bounds' = [bounds EXCEPT ![v] = ExactBound(Code[fn][v], bounds)]
    /\ UNCHANGED <<fn, done>>

Stop ==
    /\ \A v \in Positions(fn) : Underivable(v)
    /\ done' = TRUE
    /\ UNCHANGED <<fn, inbounds, transitives, bounds>>

Next ==
    \/ ~done /\ \E v \in Positions(fn) : DeriveInbound(v) \/ DeriveExact(v)
    \/ ~done /\ Stop

Spec == Init /\ [][Next]_vars
=============================================================================
