CONSTANTS
    Timeout = 5
    CheckCap = 2
    Horizon = 7
SPECIFICATION Spec
PROPERTIES
    ClientGetsTimeout
    AbandonedDaemonStops
