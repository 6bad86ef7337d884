SPECIFICATION ClipSpec
CONSTANTS
  Programs <- MCPrograms
  MaxOps = 2
  MaxBlocks = 2
  MaxBackwards = 2
  MaxClips = 1
  Coefficient = 1009
INVARIANTS
  AutogradTypeOK
  GradIsDue
  TopoIsSorted
  NoGradRestores
PROPERTIES
  ConsumedIsFinal
  HeldGradientsKeep
  BackwardReturns
CHECK_DEADLOCK FALSE
