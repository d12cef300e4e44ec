CONSTANTS
    t1 = t1
    t2 = t2
    NoTrack = NoTrack
    Tracks = {t1, t2}
    TrackDuration <- NoDuration
    TrackGain <- NoGain
    Volumes = {100}
    FullVolume = 100
    RestartThreshold = 0
    ScrobbleCap = 1
    MaxQueue = 3
    MaxBatch = 2
    MaxPos = 0
SYMMETRY TrackSymmetry
SPECIFICATION Spec
INVARIANTS
    TypeOK
    PlayOrderInv
    NowPlayingIsQueueEntry
    StatusMatchesSink
    SnapshotLocatesTrack
PROPERTIES
    EditsKeepUpcoming
    RemoveKeepsUpcoming
    ShuffleLeavesAllToCome
    ChangesAreAnnounced
    ImplementsPlayLine
    EditsArePublished
