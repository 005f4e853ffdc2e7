SPECIFICATION FairSpec
CONSTANTS
    Pipes = 2
    Stages = 1
    Config = "diamond"
    BurstSize = 1
    Repetitions = 3
INVARIANTS SinkBacklogBounded
PROPERTIES MainTerminates
