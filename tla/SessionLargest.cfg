\* A board of the largest size Connect probes for, no faults.
CONSTANTS
    Probes = 3
    Chunks = 1
    ByteMax = 1
    Boards = {4}
    Contents = {0}
    RegContents = {0}
    Drawn = {}
    Settings = {}
    Faults = FALSE
SPECIFICATION Spec
INVARIANTS
    LargestFound
