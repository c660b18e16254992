----------------------------- MODULE MCDataFlow ------------------------------
(***************************************************************************)
(* DataFlow on every flow graph with three nodes, solving a must-analysis  *)
(* of one fact in both directions. The client's data say for every node    *)
(* whether it generates the fact, kills it or leaves it alone.             *)
(***************************************************************************)
EXTENDS DataFlow

Fact == {"fact"}
Facts == SUBSET Fact
None == {}
MeetFacts(a, b) == a \cap b

GenKill(client, n, v) ==
    CASE client[n] = "gen"  -> Fact
      [] client[n] = "kill" -> {}
      [] client[n] = "keep" -> v

(* The entry node has no predecessor; exits are the nodes without          *)
(* successors, and a function may have none.                               *)
Problem(p2, p3, client, direction) ==
    LET preds == <<{}, p2, p3>>
        succs == [n \in 1 .. 3 |-> {m \in 1 .. 3 : n \in preds[m]}]
    IN  [direction |-> direction,
         preds     |-> [n \in 1 .. 3 |-> SetToSeq(preds[n])],
         succs     |-> [n \in 1 .. 3 |-> SetToSeq(succs[n])],
         boundary  |-> IF direction = FORWARD THEN {1} ELSE {n \in 1 .. 3 : succs[n] = {}},
         client    |-> client]

ThreeNodes ==
    {Problem(p2, p3, <<"keep", c2, c3>>, direction) :
        p2, p3 \in SUBSET (1 .. 3), c2, c3 \in {"gen", "kill", "keep"}, direction \in BOOLEAN}

ASSUME GenKillIsMonotone == MonotoneClient
=============================================================================
