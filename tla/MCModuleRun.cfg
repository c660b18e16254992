SPECIFICATION RunSpec
CONSTANTS
  Word = 64
  IntWord = 32
  NonConst = NonConst
  Modules <- AllModules
  ObjectSizes = {4}
  Offsets = {0, 4, 8}
  NoPointer = NoPointer
  MaxDepth = 3
INVARIANTS LocalSound AccessesInBounds
CHECK_DEADLOCK FALSE
