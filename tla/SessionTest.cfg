\* The port test in a connected session, no faults.
CONSTANTS
    Probes = 3
    Chunks = 1
    ByteMax = 1
    Boards = {1}
    Contents = {0}
    RegContents = {0}
    Drawn = {}
    Settings = {}
    Faults = FALSE
SPECIFICATION Spec
INVARIANTS
    ReadyToGo
