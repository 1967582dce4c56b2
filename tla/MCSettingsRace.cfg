CONSTANTS
    Task <- MCBoth
    ChangesOf <- MCChangesOf
    TimeZones <- MCTimeZones
    PresetHold <- MCPresetHold
    CLK_HOLDOVER_SHORT_SEC = 30
    CLK_HOLDOVER_SEC_MAX = 7200
    FirstFlash <- MCConfigured
    MaxCommits = 2
    MaxCrashes = 0
SPECIFICATION MCSpec
INVARIANT RestartKeepsSettings
