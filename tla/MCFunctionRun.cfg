SPECIFICATION RunSpec
CONSTANTS
  Word = 16
  NonConst = NonConst
  Code <- TypedForward3
  ObjectSizes = {4, 8}
  Offsets = {0, 4, 8}
  NoPointer = NoPointer
INVARIANTS InboundsSound
CHECK_DEADLOCK FALSE
