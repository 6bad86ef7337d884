SPECIFICATION Spec
CONSTANTS
  P = 7
  ShapeOf <- MCShapeOf
  Vocabularies <- MCVocabularies
INVARIANTS
  KirTypeOK
  ShapesAreHonest
  PassesKeepMeaning
  FusionIsComplete
  OnlyDeadCodeGoes
  MetalMatchesRun
  MetalRaisesOnlyOnChains
PROPERTIES
  GradIsDerivative
CHECK_DEADLOCK FALSE
