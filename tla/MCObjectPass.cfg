SPECIFICATION Spec
CONSTANTS
  Word = 64
  IntWord = 32
  NonConst = NonConst
  Modules <- AllModules
INVARIANTS TypeOK Propagated BoundsCurrent
PROPERTIES OutsGrow AnalysisTerminates
CHECK_DEADLOCK FALSE
