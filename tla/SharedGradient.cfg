SPECIFICATION ClipSpec
CONSTANTS
  Programs <- SharedGradient
  MaxBlocks = 1
  MaxBackwards = 1
  MaxClips = 1
  Coefficient = 1009
PROPERTY
  ClipScalesOnce
CHECK_DEADLOCK FALSE
