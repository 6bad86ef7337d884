SPECIFICATION Spec
CONSTANTS
  Graphs <- MCGraphs
  MaxNodes = 4
  MaxBytes = 2
  MaxCalls = 2
INVARIANTS
  TypeOK
  LastUseIsLast
  SlotsDisjoint
  SlotsArePeak
  NoAliasing
  ValuesMatchRun
  ResultsStable
PROPERTIES
  PoolGrowsWithinPlan
  RefinesReference
CHECK_DEADLOCK FALSE
