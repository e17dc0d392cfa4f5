\* Eight rows of four bytes, twelve degrees to a turn, a press with one stroke.
CONSTANTS
    Rows = 8
    Pictures <- SomePictures
    Strays <- SomeStrays
    Degrees = 12
    Fine = 2
    NumLeds = 30
    Distances <- SomeDistances
    Hands <- Plain
    MaxMarks = 2
SPECIFICATION HandSpec
INVARIANTS
    HandTypeOK
    RoundTrip
    RingDrawn
    UnderMouse
    PointsAgreeOnWheel
PROPERTIES
    DrawEnds
CHECK_DEADLOCK FALSE
