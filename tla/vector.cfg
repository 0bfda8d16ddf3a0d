SPECIFICATION VectorSpec
CONSTANTS
    Slots = 2
    Workers = 2
    Generations = 1
    Runs <- TwoByTwo
    Seeds = {0, 1}
    FirstSeed = 0
    Start = 1
    Cycles = 2
    None = None
INVARIANTS EpisodeSound WaveExact CloseComplete
