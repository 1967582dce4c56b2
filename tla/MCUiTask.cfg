SPECIFICATION MCSpec
CONSTANTS
    ENC_DETENT_STEPS = 2
    AccumMax = 4
    OneCore = FALSE
    QueueLength = 2
    MaxSeq = 3
    MaxNetworks = 2
    Task = {"time", "net"}
    LED_TASK_STALE_MS = 1
    LED_TASK_PANIC_RESTART_MS = 2
    Plays <- MCPlays
INVARIANTS TypeOK StepsAreTraced CursorInList RestartIsDeserved
PROPERTIES ScanDialogEnds StuckTaskRestarts
CHECK_DEADLOCK FALSE
