----------------------------- MODULE WheelHand -----------------------------
(***************************************************************************)
(* Drawing by hand, from the mouse to the arcs: OnLeftDown and OnMotion    *)
(* turn points into cells (WheelPoints), Draw turns cells into arcs        *)
(* (WheelImage).  Do the arcs lie where the mouse was?                     *)
(*                                                                         *)
(* One press with the strokes that follow it on a wheel that is blank or   *)
(* full, then a ring is drawn.  WheelPanel has the same handlers among all *)
(* others of the panel, with cells in place of points.                     *)
(***************************************************************************)
EXTENDS WheelImage, FiniteSets

CONSTANTS
    Degrees, Fine,  \* of WheelPoints
    NumLeds,        \* num_leds of the panel
    Distances,      \* how far from the hub's rim the mouse may be, in half LEDs
    Hands,          \* models that are drawn on by hand
    MaxMarks        \* bound on the points of a press and its strokes

INSTANCE WheelPoints

ASSUME HandAssumption ==
    /\ Degrees \in Nat /\ Degrees % 4 = 0 /\ Degrees > Rows /\ Rows % 2 = 0
    /\ Fine \in Nat /\ Fine > 1
    /\ NumLeds \in 1..30
    /\ Distances \subseteq Int
    /\ Hands \subseteq Model
    /\ MaxMarks \in Nat

VARIABLES
    drawstate,  \* "NONE", "DRAWING" or "ERASING"
    marks,      \* history: the points that were taken, <<angle, distance>>
    ground      \* history: the model before the press

hand == <<drawstate, marks, ground>>
handVars == <<vars, hand>>

Points == Angles \X Distances

HandInit == Init /\ drawstate = "NONE" /\ marks = {} /\ ground = model

Editable == stage = "new" /\ ring = -1 /\ Cardinality(marks) < MaxMarks

LitAt(m, point) == m[RowOf(point[1])][LedOf(point[2])]

Toggle(point) ==
    /\ model' = [model EXCEPT ![RowOf(point[1])][LedOf(point[2])] = ~@]
    /\ marks' = marks \cup {point}

\* The cell of a point is one that is allocated.
HasCell(point) == RowOf(point[1]) \in RowIds /\ LedOf(point[2]) \in ColIds

\* OnLeftDown: the checks let lednum = num_leds through, and would let
\* rownum = ROWS_PER_WHEEL.
PressRowUnchecked(lednum, rownum) == lednum \in 0..NumLeds /\ rownum >= 0  \* mutant
PressChecked(lednum, rownum) == lednum \in 0..NumLeds /\ rownum \in 0..Rows
OnLeftDown(point) ==
    /\ Editable /\ drawstate = "NONE" /\ marks = {} /\ model \in Hands
    /\ PressChecked(LedOf(point[2]), RowOf(point[1]))
    /\ HasCell(point)
    /\ drawstate' = IF LitAt(model, point) THEN "ERASING" ELSE "DRAWING"
    /\ Toggle(point)
    /\ UNCHANGED <<ground, bytes, drawing>>

\* The same where there is no cell: it reads anything there, and what it writes
\* is not in the model.
OnLeftDownPast(point) ==
    /\ Editable /\ drawstate = "NONE" /\ marks = {} /\ model \in Hands
    /\ PressChecked(LedOf(point[2]), RowOf(point[1]))
    /\ ~HasCell(point)
    /\ drawstate' \in {"DRAWING", "ERASING"}
    /\ marks' = {point}
    /\ UNCHANGED <<model, ground, bytes, drawing>>

\* OnMotion: a cell is lit or put out if it is not yet.
MotionChecked(lednum, rownum) == lednum \in 0..(NumLeds - 1) /\ rownum \in RowIds
OnMotion(point) ==
    /\ Editable /\ drawstate # "NONE"
    /\ MotionChecked(LedOf(point[2]), RowOf(point[1]))
    /\ LitAt(model, point) = (drawstate = "ERASING")
    /\ Toggle(point)
    /\ UNCHANGED <<drawstate, ground, bytes, drawing>>

\* OnLeftUp.
OnLeftUp ==
    /\ drawstate # "NONE"
    /\ drawstate' = "NONE"
    /\ UNCHANGED <<model, marks, ground, bytes, drawing>>

\* What WheelImage does; of a wheel that was drawn on, a ring the mouse was in.
Others ==
    /\ marks # {} => drawstate = "NONE" /\ stage' = stage
    /\ Next
    /\ marks # {} => \E p \in marks : ring' = LedOf(p[2]) /\ ring' < NumLeds
    /\ UNCHANGED hand

HandNext ==
    \/ \E point \in Points : OnLeftDown(point) \/ OnLeftDownPast(point) \/ OnMotion(point)
    \/ OnLeftUp \/ Others

HandSpec == HandInit /\ [][HandNext]_handVars /\ WF_vars(Skip \/ Mark)

----------------------------------------------------------------------------
(* Properties. *)

\* Pointing and drawing agree on this wheel, but for straight down and what is
\* just left of it (getLEDForXYPoint, getXYPointForLED, Draw).  This depends on no
\* variable and is asked where a behaviour begins.
PointsAgreeOnWheel == stage = "new" /\ marks = {} /\ ring = -1 => PointsAgree

\* The variables of the mouse have their types, and the mouse stays in bounds:
\* although the check of a press allows one row too many, whatever is touched is
\* in a row of the model, in a column of it or, by the press alone and only where
\* it is just outside of the wheel, one column further (OnLeftDown, OnMotion).
TouchedBounds ==
    /\ \A p \in marks : RowOf(p[1]) \in RowIds /\ LedOf(p[2]) \in 0..NumLeds
    /\ \A p, q \in marks : LedOf(p[2]) = NumLeds /\ LedOf(q[2]) = NumLeds => p = q
HandTypeOK ==
    /\ TypeOK
    /\ drawstate \in {"NONE", "DRAWING", "ERASING"}
    /\ marks \subseteq Points
    /\ ground \in Model
    /\ TouchedBounds

\* On a road wheel the arcs that drawing by hand adds to a ring, or takes from
\* it, lie where the mouse was, and it has some wherever the mouse was: but for
\* straight down, and the last row, which Draw has no place for.  (A smaller
\* wheel shows a column 30 - num_leds rings further in than it was clicked.)
Changed(r) == Drawn(r) # ground[r][ring]
UnderMouse ==
    phase = "done" /\ ring # -1 /\ NumLeds = 30 =>
        LET here == {p \in marks : LedOf(p[2]) = ring}
        IN /\ \A r \in 0..(Rows - 2) : Changed(r) =>
                 \E p \in here : StraightDown(p[1]) \/ Near(r, p[1])
           /\ \A p \in here : StraightDown(p[1]) \/ RowOf(p[1]) = Rows - 1
                 \/ \E r \in 0..(Rows - 2) : Changed(r) /\ Near(r, p[1])

============================================================================
