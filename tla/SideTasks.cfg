CONSTANTS
    s1 = s1
    s2 = s2
    Songs = {s1, s2}
    NoSong = NoSong
    NoKey = NoKey
    ArtUrl <- SecondHasNoArt
    LogLines = 1
    MaxFetches = 1
    MaxTasks = 2
    MaxQueued = 2
SPECIFICATION Spec
INVARIANTS
    PanelsShowCurrentSong
    LoadingIsUnderWay
    StateIsThatOfTask
    AppliedMeansBoth
PROPERTIES
    ResultsLand
