SPECIFICATION RunSpec
CONSTANTS
  Word = 16
  NonConst = NonConst
  Code <- StepBack
  ObjectSizes = {4, 8}
  Offsets <- BothWays
  NoPointer = NoPointer
INVARIANTS InboundsSound
CHECK_DEADLOCK FALSE
