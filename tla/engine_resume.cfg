SPECIFICATION Spec
CONSTANTS
  AppTypes <- AllAppTypes
  Modes <- AllModes
  MaxExecutions = 2
PROPERTIES
  ConfirmedNotPausedAgain
CHECK_DEADLOCK FALSE
