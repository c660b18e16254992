SPECIFICATION Spec
CONSTANTS
  FlowGraphs <- FourBlocks
INVARIANTS GreatestSolution StrictDominance
PROPERTIES Terminates
CHECK_DEADLOCK FALSE
