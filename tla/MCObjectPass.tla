---------------------------- MODULE MCObjectPass -----------------------------
(* ObjectPass on loops and recursion, and on the other sample modules.     *)
EXTENDS ObjectPass, SampleModules

AllModules ==
    [n \in (DOMAIN LoopModules) \cup {<<k>> : k \in DOMAIN OtherModules} |->
        IF n \in DOMAIN LoopModules THEN LoopModules[n] ELSE OtherModules[n[1]]]
=============================================================================
