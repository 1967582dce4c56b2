CONSTANTS
    Task <- MCNet
    ChangesOf <- MCChangesOf
    TimeZones <- MCTimeZones
    PresetHold <- MCPresetHold
    CLK_HOLDOVER_SHORT_SEC = 30
    CLK_HOLDOVER_SEC_MAX = 7200
    FirstFlash <- MCFlashes
    MaxCommits = 2
    MaxCrashes = 2
SPECIFICATION MCSpec
INVARIANTS TypeOK RestartKeepsSettings
PROPERTIES LoadedWasSaved LoadSettles
