\* A road wheel of eight rows, a press anywhere on or near it.
CONSTANTS
    Rows = 8
    Pictures <- Plain
    Strays <- SomeStrays
    Degrees = 12
    Fine = 2
    NumLeds = 30
    Distances <- SomeDistances
    Hands <- Plain
    MaxMarks = 1
SPECIFICATION HandSpec
INVARIANTS
    PressOnWheel
CHECK_DEADLOCK FALSE
