SPECIFICATION Spec
CONSTANTS
    Pipes = 2
    Stages = 1
    Config = "diamond"
    BurstSize = 1
    Repetitions = 1
INVARIANT WorkloadProcessed
