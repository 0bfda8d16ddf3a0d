SPECIFICATION Spec
CONSTANTS
    MaxCalls = 3
    Stop = Stop
    None = None
INVARIANT OnlyOneOutstanding
CHECK_DEADLOCK FALSE
