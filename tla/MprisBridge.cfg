CONSTANTS
    t1 = t1
    t2 = t2
    NoTrack = NoTrack
    Tracks = {t1, t2}
    TrackDuration <- NoDuration
    TrackGain <- NoGain
    Volumes = {100}
    FullVolume = 100
    RestartThreshold = 0
    ScrobbleCap = 1
    MaxQueue = 2
    MaxBatch = 1
    MaxPos = 0
    Offsets <- OneBack
    EventBound = 1
SYMMETRY TrackSymmetry
SPECIFICATION BridgeSpec
INVARIANTS
    BusAgrees
CHECK_DEADLOCK FALSE
