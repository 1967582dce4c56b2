CONSTANTS
    CLK_RESIDUAL_RELOCK_MS = 30
    CLK_RESIDUAL_WARN_MS = 50
    CLK_RESIDUAL_FAIL_MS = 100
    CLK_LOCKED_SLEW_MS = 5
    CLK_RELOCK_COUNT = 3
    CLK_PPS_INTERVAL_MAX_ERR = 5
    CLK_PPS_RESUME_GAP = 1500
    CLK_PPS_UNSTABLE_COUNT = 3
    CLK_PPS_MISS_UNSYNC = 3
    CLK_PPS_EDGE_RING = 3
    CLK_HOLDOVER_ENTRY_MS = 100
    CLK_HOLDOVER_MAX_QUALITY_MS = 2000
    CLK_HOLDOVER_PPM = 50
    RESIDUAL_MAX = 1000000
    GPS_PPS_ISR_QUEUE = 3
    GPS_FIX_MAX_AGE_MS = 5000
    NmeaFreshFor = 3000
    PpsFreshFor = 1500
    Settings <- MCBoth
    Faults = {"pps", "line", "zda", "glitch", "label", "delay", "loop"}
    MaxFaults = 2
    MaxNow = 14000
SPECIFICATION MCSpec
INVARIANTS ServedTimeIsHonest RelocksInTime PulseCountsAgree
