CONSTANTS
    s1 = s1
    s2 = s2
    Songs = {s1, s2}
    Playlists = {p1, p2}
    Albums = {al}
    Artists = {ar1, ar2}
    Genres = {ge}
    NativeLists <- ThreeLists
    PreviewRows = 2
    NoFilter = NoFilter
    NoPlaylist = NoPlaylist
    MaxRows = 2
SPECIFICATION Spec
INVARIANTS
    TypeOK
    OneTakesKeys
    SelectionOnRows
    RowsArePlaylist
PROPERTIES
    RemovesWhatIsMarked
