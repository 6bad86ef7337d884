SPECIFICATION ClipSpec
CONSTANTS
  Programs <- CheckpointedParameter
  MaxBlocks = 1
  MaxBackwards = 1
  MaxClips = 1
  Coefficient = 1009
PROPERTY
  NoTapeInNoGrad
CHECK_DEADLOCK FALSE
