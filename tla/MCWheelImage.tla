---------------------------- MODULE MCWheelImage ----------------------------
(***************************************************************************)
(* Instances of WheelImage and WheelHand for TLC, and what a message of the*)
(* program says of its wheels.                                             *)
(***************************************************************************)
EXTENDS WheelHand

\* Pictures with at most one cell, lit or unlit, that is not like the others, at
\* the ends of bytes and of rows, and every picture that is the same in all
\* columns.
EndColumns == {0, 1, 7, 8, 16, 29}
SomePictures ==
    {[r \in RowIds |-> [k \in ColIds |-> b # (<<r, k>> = c)]] :
        b \in BOOLEAN, c \in RowIds \X EndColumns}
    \cup {[r \in RowIds |-> [k \in ColIds |-> s[r]]] : s \in [RowIds -> BOOLEAN]}

\* Past the rows the even ones are lit, or the odd ones.
SomeStrays == {[r \in RowIds |-> [k \in ByteCols \ ColIds |-> r % 2 = n]] : n \in {0, 1}}

\* A blank wheel and a full one.
Plain == {[r \in RowIds |-> [k \in ColIds |-> b]] : b \in BOOLEAN}

\* In the hub; in it, but less than a LED from its rim (led 0); in the last ring;
\* just outside of it; outside.
SomeDistances == {-2, -1, 59, 60, 62}

\* wheelpanel.cpp:157, "this SpokePOV only supports %d leds", of num_leds: a press
\* touches one of them.
PressOnWheel == \A p \in marks : LedOf(p[2]) \in 0..(NumLeds - 1)

============================================================================
