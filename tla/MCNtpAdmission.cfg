CONSTANTS
    Client = {c1, c2, c3}
    NTP_CLIENT_SLOTS = 2
    NTP_RATE_PER_IP_PER_SEC = 1
    NTP_GLOBAL_RATE_PER_SEC = 2
    NTP_RATE_WINDOW_MS = 4
    NTP_RATE_TO_DENY_MS = 6
    NTP_DENY_COOLDOWN_MS = 8
    NTP_MAX_PACKETS_PER_LOOP = 1
    Wrap = 64
    AccessLists <- MCLists
    Starts = {53}
    TimeSteps = {2}
    MaxNow = 67
SPECIFICATION MCSpec
SYMMETRY MCSymmetry
INVARIANTS TypeOK RatesBounded TableHoldsLatest
PROPERTIES RefusalIsDeserved DenyIsWarnedAndSilent
