SPECIFICATION Spec
CONSTANTS
  P = 7
  ShapeOf <- MCShapeOf
  Vocabularies <- MCVocabularies
INVARIANT MetalNeverRaises
CHECK_DEADLOCK FALSE
