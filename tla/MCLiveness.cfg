CONSTANTS
    t1 = t1
    NoTrack = NoTrack
    Tracks = {t1}
    TrackDuration <- NoDuration
    TrackGain <- NoGain
    Volumes = {100}
    FullVolume = 100
    RestartThreshold = 0
    ScrobbleCap = 1
    MaxQueue = 3
    MaxBatch = 1
    MaxPos = 0
SPECIFICATION LiveSpec
PROPERTIES
    PlaysToTheEnd
    VisitsEveryEntry
CHECK_DEADLOCK FALSE
