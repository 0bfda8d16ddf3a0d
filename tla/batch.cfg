SPECIFICATION MCSpec
CONSTANTS
    Runs = {r1, r2, r3}
    Workers = 2
    None = None
INVARIANTS BooksAgree RunDrains
PROPERTIES KeepsContract OperationsEnd
CHECK_DEADLOCK FALSE
