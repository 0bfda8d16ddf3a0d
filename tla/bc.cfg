SPECIFICATION FairSpec
CONSTANTS
    a = a
    Conditions = {a}
    Reports <- ThreeReports
    Rounds = 3
    Epochs = 2
    Interval = 1
    Rows = 2
    MaxCrashes = 2
    Torn = Torn
    None = None
INVARIANT ResumeExact BestOfAll
PROPERTY KeepsContract Finishes
