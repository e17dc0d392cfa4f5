\* A wheel of one row: what there is to drag.
CONSTANTS
    Rows = 1
    Width = 2
    Sizes = {1, 2}
    Files = {"a.dat"}
    Looks <- FewLooks
    Reads <- AllOrNothing
SPECIFICATION Spec
INVARIANTS
    ImageToDrag
