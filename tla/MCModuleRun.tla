----------------------------- MODULE MCModuleRun -----------------------------
(* ModuleRun on loops and recursion, and on the other sample modules.      *)
EXTENDS ModuleRun, SampleModules

AllModules ==
    [n \in (DOMAIN LoopModules) \cup {<<k>> : k \in DOMAIN OtherModules} |->
        IF n \in DOMAIN LoopModules THEN LoopModules[n] ELSE OtherModules[n[1]]]

(* The theorems about ModuleRun are about these programs: all samples are  *)
(* typed and step forward, and most of them follow every call.             *)
ASSUME SamplesAssumption ==
    /\ \A m \in DOMAIN Modules : WellTyped(m) /\ StepsForward(m)
    /\ Cardinality(DOMAIN Modules) > 1 =>
          2 * Cardinality({m \in DOMAIN Modules : FollowsCalls(m)}) > Cardinality(DOMAIN Modules)
=============================================================================
