SPECIFICATION ClipSpec
CONSTANTS
  Programs <- CheckpointedData
  MaxBlocks = 1
  MaxBackwards = 1
  MaxClips = 1
  Coefficient = 1009
PROPERTY
  CheckpointMatchesPlain
CHECK_DEADLOCK FALSE
