SPECIFICATION Spec
CONSTANTS
  P = 7
  ShapeOf <- MCShapeOf
  fails1 = fails1
  fails2 = fails2
  fails3 = fails3
  ShapeError = ShapeError
  MeshError = MeshError
  None = None
  Pending = Pending
  DeviceErrors <- MCDeviceErrors
  Errors <- MCErrors
  Outcomes <- MCOutcomes
  Jobs <- MCJobs
INVARIANTS
  ParallelTypeOK
  NobodyLeftBehind
  ResultsInOrder
  FirstErrorIsRaised
  ShardsAreTheArgument
PROPERTY AnswersLikeOneDevice
CHECK_DEADLOCK FALSE
