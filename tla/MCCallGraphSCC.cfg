SPECIFICATION Spec
CONSTANTS
  CallGraphs <- SmallGraphs
  External = External
INVARIANTS TypeOK ComponentsClosed
PROPERTIES SearchEnds
CHECK_DEADLOCK FALSE
