SPECIFICATION FairSpec
CONSTANTS
    MaxCalls = 3
    Stop = Stop
    None = None
PROPERTIES KeepsContract OperationsEnd NoOrphan
CHECK_DEADLOCK FALSE
