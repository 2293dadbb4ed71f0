SPECIFICATION Spec
CONSTANTS
    Base = 6
    Host = "MSB"
    IdentSize = 2
    MaxCalls = 4
    HeaderSize <- MCHeaderSize
    Files <- MCFiles
    ShStrTab <- MCShStrTab
    Names <- MCNames
    Contents <- MCContents
INVARIANTS
    AsFiled
    NamesInTable
    EditsInBuffer
    SegmentsApart
PROPERTIES
    Inserted
CHECK_DEADLOCK FALSE
