SPECIFICATION Spec
CONSTANTS
    Pipes = 2
    Stages = 2
    Config = "fork"
    BurstSize = 2
    Repetitions = 2
INVARIANTS TypeOK EdgesConserveMessages DoneFollowsData NothingStranded
PROPERTIES RepetitionMeasuresItsBurst DeliverySpec
