---------------------------- MODULE MCWheelPanel ----------------------------
(***************************************************************************)
(* Instances of WheelPanel for TLC, and what the program's own texts say   *)
(* of it that the code does not do.                                        *)
(***************************************************************************)
EXTENDS WheelPanel

\* A read of an erased board (bytes of ones, nothing lit) or of zeros.
AllOrNothing == {[r \in RowIds |-> [k \in ColIds |-> b]] : b \in BOOLEAN}

\* A picture that covers the wheel, one cell or nothing of it.
FewLooks == {Wheel(Width), {<<0, 0>>}, {}}

\* The text beside Done, wheelpanel.cpp:47: "You can now resize (drag the corner
\* boxes) or move (use the 'hand' tool) the image around": there is one to drag.
ImageToDrag == adjust => origimg = "ok"

============================================================================
