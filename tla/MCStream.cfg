SPECIFICATION FairSpec
CONSTANTS
    CommandLines <- MCCommandLines
    BufferSize = 2
INVARIANTS TypeOK PipesInStep EndsAfterWorkload
PROPERTIES WorkloadSpec RunTerminates
