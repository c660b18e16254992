SPECIFICATION Spec
CONSTANTS
  FlowProblems <- ThreeNodes
  Values <- Facts
  TOP <- Fact
  boundaryValue <- None
  Meet <- MeetFacts
  Transfer <- GenKill
INVARIANTS Solved BestSolution
PROPERTIES WalkEnds
CHECK_DEADLOCK FALSE
