---------------------------- MODULE MCDominators -----------------------------
(* Dominators on every flow graph with four blocks, the last of which may  *)
(* loop on itself.                                                         *)
EXTENDS Dominators

FourBlocks ==
    [g \in (SUBSET {1, 3, 4}) \X (SUBSET {1, 2, 4}) \X (SUBSET {1, 2, 3, 4}) |->
        <<{}, g[1], g[2], g[3]>>]
=============================================================================
