CONSTANTS
    Length = 4
    MaxOffset = 6
    MaxBuffer = 2
    ChunkSize = 2
SPECIFICATION Spec
INVARIANTS
    TypeOK
PROPERTIES
    ImplementsByteStream
    ReadsReturn
