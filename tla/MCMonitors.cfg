SPECIFICATION Spec
CONSTANTS
    k1 = k1
    k2 = k2
    h1 = h1
    h2 = h2
    Keys = {k1, k2}
    Filter = {k1}
    Handlers = {h1, h2}
    CountsFor <- MCAnyKey
    Returns = {1}
    Half = 4
    Slots = {s1, s2, s3}
    NVals = 2
    PerSecond = 2
    MaxEvents = 3
    MaxFrames = 4
INVARIANTS TypeOK SeriesShowRates ExactUnlessRaced
