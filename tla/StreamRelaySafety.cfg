SPECIFICATION Spec
CONSTANTS
    MaxBytes = 6
    Sizes = {1, 4}
    MaxOffered = 3
    IdleTimeout = 1
    Modes <- AllModes
INVARIANT TypeOK
INVARIANT DeliveredPrefix
INVARIANT SuccessIsWhole
INVARIANT StoredWithinLimit
INVARIANT CaptureIsWhole
