SPECIFICATION Spec
CONSTANTS
  Modules <- SmallModules
INVARIANTS TypeOK DefinedBeforeUse TrackersInPlace CloneReportsAsMain CastsValid
PROPERTIES AnnotationEnds
CHECK_DEADLOCK FALSE
