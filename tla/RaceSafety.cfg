SPECIFICATION Spec
CONSTANTS
    Configs <- SafetyConfigs
    MaxBytes = 1
INVARIANTS TypeOK NoOrphans RaceBounded SpawnsJustified WinnerKept
CHECK_DEADLOCK FALSE
