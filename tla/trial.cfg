SPECIFICATION TrialSpec
CONSTANTS
    Arms = {pretrained}
    Batches = 3
    EvalEvery = 1
    Top = 2
    Episodes = 2
    Epochs = 2
    Losses = {1, 2}
    MaxCrashes = 3
    None = None
INVARIANTS BestKept
PROPERTIES NothingRepeated Finishes
