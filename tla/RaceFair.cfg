SPECIFICATION FairSpec
CONSTANTS
    Configs <- FairConfigs
    MaxBytes = 1
PROPERTIES ResolvedByDeadline ResolvedByTicks AttemptsStop
CHECK_DEADLOCK FALSE
