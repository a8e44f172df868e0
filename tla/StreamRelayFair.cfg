SPECIFICATION FairSpec
CONSTANTS
    MaxBytes = 4
    Sizes = {1, 4}
    MaxOffered = 2
    IdleTimeout = 0
    Modes <- FairModes
PROPERTY NoLostWakeup
PROPERTY AttemptStops
PROPERTY RelayEnds
