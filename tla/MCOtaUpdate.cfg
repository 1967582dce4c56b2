CONSTANTS
    Uploads <- MCUploads
    FirstImages <- MCOld
    Buffers = 3
    OTA_FAIL_LED_MS = 2
    OTA_MARK_VALID_AFTER_MS = 3
SPECIFICATION Spec
INVARIANTS TypeOK SessionAgrees BootIsSafe
PROPERTY UploadsEnd
