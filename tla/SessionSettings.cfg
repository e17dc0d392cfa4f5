\* Settings with every fault: one bank of one chunk, flags beyond 0 and 1.
CONSTANTS
    Probes = 2
    Chunks = 1
    ByteMax = 3
    Boards = {1}
    Contents = {0}
    RegContents = {0, 3}
    Drawn = {}
    Settings = {2}
    Faults = TRUE
SPECIFICATION FairSpec
INVARIANTS
    MirrorShown
PROPERTIES
    HandlersReturn
