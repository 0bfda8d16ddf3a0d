SPECIFICATION Spec
CONSTANTS
    Runs = {r1, r2, r3}
    Workers = 2
    None = None
INVARIANT RunDrainsAll
CHECK_DEADLOCK FALSE
