\* A two-bank board whose banks differ in their first byte, no faults.
CONSTANTS
    Probes = 3
    Chunks = 1
    ByteMax = 1
    Boards = {2}
    Contents = {0, 1}
    RegContents = {0}
    Drawn = {}
    Settings = {}
    Faults = FALSE
SPECIFICATION Spec
PROPERTIES
    InvertsOneByte
