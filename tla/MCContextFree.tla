---------------------------- MODULE MCContextFree ----------------------------
(* ContextFree on every three-instruction derivation of one array.         *)
EXTENDS ContextFree, SampleFunctions
=============================================================================
