SPECIFICATION Spec
CONSTANTS
  P = 7
  Levels = 127
  Untraced = Untraced
  Architectures <- MCArchitectures
  Plans <- MCPlans
  Loaders <- MCLoaders
  Iterators = {"main", "peek"}
  Dropouts <- MCDropouts
  Masks <- MCMasks
  Gradients <- MCGradients
INVARIANTS
  LoadedIsSaved
  RefusedLoadIsAPrefix
  LearningReachesTheModel
  JitMatchesEager
  MomentumIsDecayedSum
  BiasIsCorrected
  ScheduleIsClosedForm
  EverySampleOnce
  QuantizedIsClose
PROPERTY TrainingEnds
CHECK_DEADLOCK FALSE
