\* Detection and images with every fault: boards of 1 and 2 banks of two chunks.
CONSTANTS
    Probes = 3
    Chunks = 2
    ByteMax = 1
    Boards = {1, 2}
    Contents = {0, 1}
    RegContents = {0}
    Drawn = {0}
    Settings = {}
    Faults = TRUE
SPECIFICATION Spec
INVARIANTS
    TypeOK
    PagesDistinct
    LinkExists
    WritePrefix
    VerdictRight
PROPERTIES
    MemoryOnlyBy
    WriteIsolation
    WriteOrMessage
    ReadAllOrNothing
