CONSTANTS
    Ssids = {home}
    NoSsid = NoSsid
    Requests = {"connect", "portal", "web scan"}
    MaxRequests = 1
    WIFI_CONNECT_TIMEOUT = 1
    WIFI_SCAN_TIMEOUT = 1
    WIFI_SCAN_UI_TIMEOUT = 1
    WIFI_SCAN_CACHE = 1
    IP_CONFLICT_TIMEOUT = 1
    Backoff <- MCBackoff
    WIFI_RECONNECT_MAX_ATTEMPTS = 1
    WIFI_RECONNECT_GIVEUP = 0
    WIFI_LINK_LOSS_RETRY_FOREVER = TRUE
SPECIFICATION WifiSpec
PROPERTIES RetriesForEver LinkIsNoticed PortalIsAsked
