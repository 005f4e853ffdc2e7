SPECIFICATION Spec
CONSTANTS
    Cpus = {c2, c3}
    FrameKeys = 4
    RingSize = 2
    MaxMisses = 2
    MaxTicks = 4
INVARIANTS TypeOK MissesShownOnce FramesAdvance
