SPECIFICATION RunSpec
CONSTANTS
  Word = 64
  IntWord = 32
  NonConst = NonConst
  Modules <- Recursion
  ObjectSizes = {4}
  Offsets = {0, 4, 8}
  NoPointer = NoPointer
  MaxDepth = 5
INVARIANTS AccessesInBounds
CHECK_DEADLOCK FALSE
