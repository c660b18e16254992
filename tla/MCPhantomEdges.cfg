SPECIFICATION Spec
CONSTANTS
  CallGraphs <- PutsGraph
  External = External
INVARIANTS IdsAreSCCs
CHECK_DEADLOCK FALSE
