SPECIFICATION Spec
CONSTANTS
    Configs <- MCConfigs
    RandomIds = {"r1", "r2"}
    None = None
    Retries = 1
    MaxFailures = 2
    MaxCalls = 3
    MaxRestarts = 1
    MaxAccidents = 1
INVARIANTS
    StopReleasesEverything
    HubKeyIsOnDisk
PROPERTIES
    CleanStartupBinds
    EveryCallEnds
CHECK_DEADLOCK FALSE
