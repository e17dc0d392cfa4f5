\* A wheel of two rows and one or two LEDs, one file.
CONSTANTS
    Rows = 2
    Width = 2
    Sizes = {1, 2}
    Files = {"a.dat"}
    Looks <- FewLooks
    Reads <- AllOrNothing
SPECIFICATION Spec
INVARIANTS
    TypeOK
    ControlsMatch
    PictureStored
PROPERTIES
    RoadRoundTrip
