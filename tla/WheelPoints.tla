---------------------------- MODULE WheelPoints ----------------------------
(***************************************************************************)
(* Points of the window and cells of the wheel: getLEDForXYPoint, and the  *)
(* point that getXYPointForLED gives to a cell.  Operators only: WheelHand *)
(* has the mouse.                                                          *)
(*                                                                         *)
(* A point is an angle, clockwise from straight up in parts of a degree,   *)
(* and a distance from the hub's rim, outwards in half LEDs.  asin and the *)
(* square roots are exact; that PI is 3.141592, the rounding of floats and *)
(* that of points to whole pixels are left out.                            *)
(***************************************************************************)
EXTENDS Integers

CONSTANTS
    Rows,       \* ROWS_PER_WHEEL (256 in the code)
    Degrees,    \* of a full turn (360 in the code)
    Fine        \* parts of a degree

PointRows == 0..(Rows - 1)
Turn   == Degrees * Fine
Angles == 0..(Turn - 1)

Right(a) == 0 < a /\ a < Turn \div 2                    \* x > 0
Left(a)  == a > Turn \div 2                             \* x < 0
Below(a) == Turn \div 4 < a /\ a < 3 * (Turn \div 4)    \* y > 0

\* (int) of a quotient.
Truncated(n, d) == IF n < 0 THEN -((-n) \div d) ELSE n \div d

\* asin(x / radius), in parts of a degree.
ArcSine(a) == IF a <= Turn \div 4 THEN a
              ELSE IF Below(a) THEN Turn \div 2 - a ELSE a - Turn

\* angle = ((int) angle + 360) % 360, and its place in the lower half.
AngleOfUpper(a) ==                      \* mutant: the lower right is left out
    LET whole == (Truncated(ArcSine(a), Fine) + Degrees) % Degrees
    IN IF Left(a) /\ Below(a) THEN Degrees - whole + Degrees \div 2 ELSE whole
AngleOf(a) ==
    LET whole == (Truncated(ArcSine(a), Fine) + Degrees) % Degrees
    IN IF Right(a) /\ Below(a) THEN Degrees \div 2 - whole
       ELSE IF Left(a) /\ Below(a) THEN Degrees - whole + Degrees \div 2
       ELSE whole

\* rownum and lednum.
RowOf(a) == (AngleOf(a) * Rows) \div Degrees
LedOf(d) == Truncated(d, 2)

\* getXYPointForLED: the middle of a row, the middle of a ring.
Middle(row) == ((2 * row + 1) * Turn) \div (2 * Rows)
MiddleRing(led) == 2 * led + 1

----------------------------------------------------------------------------
(* What the points should agree on. *)

\* Where Draw has the angle: row r is from r to r + 1 of 255 parts of the ring.
Place(a) == (a * (Rows - 1)) \div Turn

\* A row of a hit is drawn where the mouse was, or up to two rows from there: an
\* angle is cut to whole degrees towards the vertical, and a wheel of 256 rows
\* is drawn on 255 parts.
Near(row, a) == (row - Place(a)) % Rows \in {0, 1, 2, Rows - 1}

\* Straight down is taken for straight up, and less than a degree to the left of
\* it for no row at all.
StraightDown(a) == a = Turn \div 2
NoRow(a) == Turn \div 2 < a /\ a < Turn \div 2 + Fine

\* Pointing and drawing agree, but for these angles: a point's row is a row of
\* the wheel, and near to it; every row has points; the point that a row is
\* painted from when a picture is imported is a point of it or of the next
\* (getLEDForXYPoint, getXYPointForLED, Draw).
PointsAgree ==
    /\ \A a \in Angles : IF NoRow(a) THEN RowOf(a) > Rows
                         ELSE RowOf(a) \in PointRows /\ (StraightDown(a) \/ Near(RowOf(a), a))
    /\ PointRows \subseteq {RowOf(a) : a \in Angles}
    /\ \A row \in PointRows :
          NoRow(Middle(row)) \/ (RowOf(Middle(row)) - row) % Rows \in {0, 1, Rows - 1}

============================================================================
