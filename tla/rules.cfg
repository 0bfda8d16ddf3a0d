SPECIFICATION Spec
CONSTANTS
    Stages = {s1, s2, s3}
    Artifacts = {a, b}
    None = None
SYMMETRY Names
INVARIANT VerdictExact
CHECK_DEADLOCK FALSE
