CONSTANTS
    MaxLength = 5
    MaxCount = 3
SPECIFICATION CheckSpec
INVARIANTS
    MatchesSource
PROPERTIES
    EditsKeepLine
