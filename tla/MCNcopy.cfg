SPECIFICATION Spec
CONSTANTS
    Values = {v1, v2}
    Undef = undef
    Ntimes <- MCNtimes
    Buffers = 4
    BufferItems = 2
    MaxTimes = 3
INVARIANTS TypeOK CallIsChain
