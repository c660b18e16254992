SPECIFICATION Spec
CONSTANTS
  External = External
  Load = Load
  Plain = Plain
  Threshold = 10
  K = 2
  NoopFuncs <- Noops
  Modules <- SmallModules
INVARIANTS TypeOK SameProgram ContextsApart ContextsAcyclic AllRedirected LookupsKnown
PROPERTIES ImplementsContexts CloningEnds
CHECK_DEADLOCK FALSE
