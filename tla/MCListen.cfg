CONSTANTS
    t1 = t1
    t2 = t2
    NoTrack = NoTrack
    Tracks = {t1, t2}
    TrackDuration <- ShortAndLong
    TrackGain <- MixedGain
    Volumes = {50, 100}
    FullVolume = 100
    RestartThreshold = 1
    ScrobbleCap = 2
    MaxQueue = 2
    MaxBatch = 1
    MaxPos = 2
SPECIFICATION Spec
INVARIANTS
    VolumeFollowsTrack
PROPERTIES
    NoListenLost
