SPECIFICATION Spec
CONSTANTS
    Results <- MCResults
    Listed <- MCListed
    Kind <- MCKind
    Rows <- MCRows
    RtPrio <- MCRtPrio
    MaxFaults = 2
    MaxMakes = 3
    MaxParses = 2
INVARIANTS TypeOK SettledFiles TableSound
PROPERTIES MeasuredOnce
