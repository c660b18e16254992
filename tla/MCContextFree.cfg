SPECIFICATION Spec
CONSTANTS
  Word = 16
  NonConst = NonConst
  Code <- Upward4
INVARIANTS TypeOK SweptClean Justified
PROPERTIES ImplementsInference Terminates
CHECK_DEADLOCK FALSE
