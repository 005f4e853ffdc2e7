SPECIFICATION FairSpec
CONSTANTS
    NCopy = 2
    MaxCopy = 2
    Granularity = 2
    BufferSize = 3
    MaxItems = 7
INVARIANTS TypeOK BuffersRespected MarksExact MarksCausal
PROPERTIES ProbeSpec MarksArrive
