SPECIFICATION FairSpec
CONSTANTS
  AppTypes <- AllAppTypes
  Modes <- AllModes
  MaxExecutions = 3
INVARIANTS
  TypeOK
  
  VerdictMatchesStages
  ApprovalGate
PROPERTIES
  ExecutionEnds
CHECK_DEADLOCK FALSE
