----------------------------- MODULE WheelImage -----------------------------
(***************************************************************************)
(* What becomes of the cells of a panel's model: the bytes that GetModel   *)
(* makes of them for the board, the model that SetModel makes of the bytes *)
(* of the board, and the arcs that Draw makes of a ring of LEDs.           *)
(*                                                                         *)
(* A row of the model has four bytes in the board, a column of it is one   *)
(* bit of them, and a lit LED is a bit of zero.  Four bytes have two bits  *)
(* more than the 30 cells that a row is allocated with: GetModel reads and *)
(* SetModel writes past its end.  What it reads there may be anything, what*)
(* it writes there is not part of the model; what else that write may break*)
(* is beyond this module.                                                  *)
(***************************************************************************)
EXTENDS Integers

CONSTANTS
    Rows,       \* ROWS_PER_WHEEL (256 in the code)
    Pictures,   \* models to begin with
    Strays      \* what GetModel may find past the rows

RowIds  == 0..(Rows - 1)
Width   == 30                           \* new bool[30]
ColIds  == 0..(Width - 1)
ByteCols == 0..31                       \* four bytes of eight bits
Model   == [RowIds -> [ColIds -> BOOLEAN]]
Reached == [RowIds -> [ByteCols -> BOOLEAN]]
BuffIds == 0..(4 * Rows - 1)
Buff    == [BuffIds -> 0..255]

ASSUME ImageAssumption ==
    /\ Rows \in Nat /\ Rows > 1
    /\ Pictures \subseteq Model
    /\ Strays \subseteq [RowIds -> [ByteCols \ ColIds -> BOOLEAN]]

VARIABLES
    model,      \* the panel's model
    buff,       \* buff of OnButtonWrite and OnButtonRead, the bank's bytes
    copy,       \* the model of the panel that reads the bank
    stage,      \* "new", "got" (buff is made) or "set" (copy is made)
    ring,       \* the column that Draw draws, -1 before
    phase,      \* its loop: "skip" (unlit rows), "mark" (lit rows) or "done"
    row,        \* the loop's row
    start,      \* the row an arc begins with
    arcs        \* the arcs drawn, <<start, end>>

bytes == <<buff, copy, stage>>
drawing == <<ring, phase, row, start, arcs>>
vars == <<model, bytes, drawing>>

----------------------------------------------------------------------------
(* Bytes. *)

\* Weight of bit n: 1 << n.
Mask(n) == <<1, 2, 4, 8, 16, 32, 64, 128>>[n + 1]

\* The bit of a cell.
BitOf(lit) == IF lit THEN 0 ELSE 1

\* t <<= 1, t |= 1 over the eight cells from column col on.
ByteOf(m, r, col) ==
    128 * BitOf(m[r][col])     + 64 * BitOf(m[r][col + 1])
  + 32 * BitOf(m[r][col + 2])  + 16 * BitOf(m[r][col + 3])
  + 8 * BitOf(m[r][col + 4])   + 4 * BitOf(m[r][col + 5])
  + 2 * BitOf(m[r][col + 6])   + BitOf(m[r][col + 7])

\* The rows of a model with what lies past them, and the rows alone.
WithPast(m, past) ==
    [r \in RowIds |-> [k \in ByteCols |-> IF k \in ColIds THEN m[r][k] ELSE past[r][k]]]
RowsOf(m) == [r \in RowIds |-> [k \in ColIds |-> m[r][k]]]

\* GetModel: buff[4 * row + j] holds columns 8 * j to 8 * j + 7.
GetModel(m) == [n \in BuffIds |-> ByteOf(m, n \div 4, 8 * (n % 4))]

\* SetModel: column k is bit 7 - k % 8 of its byte.
SetModelReversed(b) ==                  \* mutant: 1 << j
    [r \in RowIds |-> [k \in ByteCols |->
        (b[4 * r + (k \div 8)] \div Mask(k % 8)) % 2 = 0]]
SetModel(b) ==
    [r \in RowIds |-> [k \in ByteCols |->
        (b[4 * r + (k \div 8)] \div Mask(7 - (k % 8))) % 2 = 0]]

----------------------------------------------------------------------------

Init ==
    /\ model \in Pictures
    /\ buff = [n \in BuffIds |-> 0]
    /\ copy = [r \in RowIds |-> [k \in ColIds |-> FALSE]]
    /\ stage = "new"
    /\ ring = -1 /\ phase = "done" /\ row = 0 /\ start = 0 /\ arcs = {}

Get ==
    /\ stage = "new"
    /\ \E past \in Strays : buff' = GetModel(WithPast(model, past))
    /\ stage' = "got"
    /\ UNCHANGED <<model, copy, drawing>>

Set ==
    /\ stage = "got"
    /\ copy' = RowsOf(SetModel(buff))
    /\ stage' = "set"
    /\ UNCHANGED <<model, buff, drawing>>

----------------------------------------------------------------------------
(* Arcs. *)

\* Draw goes through the rings one after the other; any of them is taken here.
DrawRing(led) ==
    /\ phase = "done" /\ ring = -1
    /\ ring' = led
    /\ phase' = "skip" /\ row' = 0 /\ start' = 0 /\ arcs' = {}
    /\ UNCHANGED <<model, bytes>>

\* The outer loop goes on while row < ROWS_PER_WHEEL.
Outer(p) == phase' = IF row' < Rows THEN p ELSE "done"

\* while (... (model[row++][...] == 0)): a lit row ends it, unless it was the
\* last one.
SkipStays ==                            \* mutant: no row++ on an unlit row
    /\ phase = "skip" /\ model[row][ring]
    /\ row' = row + 1
    /\ Outer("mark")
    /\ start' = row
    /\ UNCHANGED <<model, bytes, ring, arcs>>
Skip ==
    /\ phase = "skip"
    /\ row' = row + 1
    /\ Outer(IF model[row][ring] THEN "mark" ELSE "skip")
    /\ start' = IF model[row][ring] THEN row ELSE start
    /\ UNCHANGED <<model, bytes, ring, arcs>>

\* while (... (model[row++][...] != 0)), and the arc: it ends with the first
\* unlit row, or with the last row.
ArcEndLate == row + 1                   \* mutant
ArcEnd == row                           \* end = row-1, after row++
Arcs(end) == arcs \cup {<<start, end>>}
Mark ==
    /\ phase = "mark"
    /\ row' = row + 1
    /\ IF model[row][ring]
       THEN /\ Outer("mark")
            /\ arcs' = IF row' = Rows THEN Arcs(row' - 1) ELSE arcs
       ELSE /\ Outer("skip")
            /\ arcs' = Arcs(ArcEnd)
    /\ UNCHANGED <<model, bytes, ring, start>>

Next ==
    \/ Get \/ Set
    \/ \E led \in ColIds : DrawRing(led)
    \/ Skip \/ Mark

Spec == Init /\ [][Next]_vars

\* Draw is one call: its loop goes on by itself.
FairSpec == Spec /\ WF_vars(Skip \/ Mark)

----------------------------------------------------------------------------
(* Properties. *)

\* Every variable has its type, and a loop that goes on is within the wheel.
TypeOK ==
    /\ model \in Model
    /\ buff \in Buff
    /\ copy \in Model
    /\ stage \in {"new", "got", "set"}
    /\ ring \in ColIds \cup {-1}
    /\ phase \in {"skip", "mark", "done"}
    /\ row \in 0..Rows
    /\ phase # "done" => row < Rows /\ ring # -1
    /\ start \in RowIds
    /\ arcs \subseteq RowIds \X RowIds

\* A picture written to a bank and read back is the same picture, whatever lies
\* past its rows (GetModel, SetModel).
RoundTrip == stage = "set" => copy = model

\* Draw lights exactly the rows that are lit, each on a 255th of the ring from
\* row r to row r + 1, but for the last row, which has no place on the ring.
Drawn(r) == \E a \in arcs : a[1] <= r /\ r < a[2]
RingDrawn ==
    phase = "done" /\ ring # -1 =>
        \A r \in 0..(Rows - 2) : Drawn(r) <=> model[r][ring]

\* The loop over the rows of a ring ends.
DrawEnds == (phase # "done") ~> (phase = "done")

============================================================================
