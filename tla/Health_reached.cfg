\* The default configuration and the probe of the chart, in units of 30 seconds
SPECIFICATION Spec
CONSTANTS
    ScanInterval = 2
    SyncInterval = 10
    HeartbeatInterval = 1
    ScanTime = 1
    RequestTime = 1
    Passes = 17
    LiveLimit = 20
    Patience = 1
INVARIANTS
    LiveMeansReached
