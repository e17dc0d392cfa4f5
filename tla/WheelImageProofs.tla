-------------------------- MODULE WheelImageProofs --------------------------
(***************************************************************************)
(* For a wheel of any number of rows and any picture: a picture comes back *)
(* from the board as it was sent, and Draw lights the rows that are lit.   *)
(***************************************************************************)
EXTENDS WheelImage, TLAPS

----------------------------------------------------------------------------
(* Bytes. *)

LEMMA BitType == ASSUME NEW b \in BOOLEAN PROVE BitOf(b) \in {0, 1}
BY DEF BitOf

\* The bits of a sum of weighted bits.
LEMMA BitsOfSum ==
    ASSUME NEW b \in [0..7 -> {0, 1}], NEW t,
           t = 128 * b[0] + 64 * b[1] + 32 * b[2] + 16 * b[3] + 8 * b[4] + 4 * b[5] + 2 * b[6] + b[7]
    PROVE  /\ t \in 0..255
           /\ (t \div 128) % 2 = b[0] /\ (t \div 64) % 2 = b[1]
           /\ (t \div 32) % 2 = b[2]  /\ (t \div 16) % 2 = b[3]
           /\ (t \div 8) % 2 = b[4]   /\ (t \div 4) % 2 = b[5]
           /\ (t \div 2) % 2 = b[6]   /\ (t \div 1) % 2 = b[7]
<1>0. /\ b[0] \in {0, 1} /\ b[1] \in {0, 1} /\ b[2] \in {0, 1} /\ b[3] \in {0, 1}
      /\ b[4] \in {0, 1} /\ b[5] \in {0, 1} /\ b[6] \in {0, 1} /\ b[7] \in {0, 1}
  OBVIOUS
<1>1. t \in 0..255
  BY <1>0
<1>2. (t \div 128) % 2 = b[0]
  BY <1>0
<1>3. (t \div 64) % 2 = b[1]
  <2>1. t \div 64 = 2 * (b[0]) + b[1]
    BY <1>0
  <2> QED
    BY <1>0, <2>1
<1>4. (t \div 32) % 2 = b[2]
  <2>1. t \div 32 = 2 * (2 * b[0] + b[1]) + b[2]
    BY <1>0
  <2> QED
    BY <1>0, <2>1
<1>5. (t \div 16) % 2 = b[3]
  <2>1. t \div 16 = 2 * (4 * b[0] + 2 * b[1] + b[2]) + b[3]
    BY <1>0
  <2> QED
    BY <1>0, <2>1
<1>6. (t \div 8) % 2 = b[4]
  <2>1. t \div 8 = 2 * (8 * b[0] + 4 * b[1] + 2 * b[2] + b[3]) + b[4]
    BY <1>0
  <2> QED
    BY <1>0, <2>1
<1>7. (t \div 4) % 2 = b[5]
  <2>1. t \div 4 = 2 * (16 * b[0] + 8 * b[1] + 4 * b[2] + 2 * b[3] + b[4]) + b[5]
    BY <1>0
  <2> QED
    BY <1>0, <2>1
<1>8. (t \div 2) % 2 = b[6]
  <2>1. t \div 2 = 2 * (32 * b[0] + 16 * b[1] + 8 * b[2] + 4 * b[3] + 2 * b[4] + b[5]) + b[6]
    BY <1>0
  <2> QED
    BY <1>0, <2>1
<1>9. (t \div 1) % 2 = b[7]
  <2>1. t \div 1 = 2 * (64 * b[0] + 32 * b[1] + 16 * b[2] + 8 * b[3] + 4 * b[4] + 2 * b[5] + b[6]) + b[7]
    BY <1>0
  <2> QED
    BY <1>0, <2>1
<1> QED
  BY <1>0, <1>1, <1>2, <1>3, <1>4, <1>5, <1>6, <1>7, <1>8, <1>9

\* Bit 7 - k of a byte is the cell k columns on.
LEMMA BitOfByte ==
    ASSUME NEW m \in Reached, NEW r \in RowIds, NEW j \in 0..3, NEW k \in 0..7
    PROVE  /\ ByteOf(m, r, 8 * j) \in 0..255
           /\ (ByteOf(m, r, 8 * j) \div Mask(7 - k)) % 2 = BitOf(m[r][8 * j + k])
<1> DEFINE b == [n \in 0..7 |-> BitOf(m[r][8 * j + n])]
           t == ByteOf(m, r, 8 * j)
<1>1. b \in [0..7 -> {0, 1}]
  <2> SUFFICES ASSUME NEW n \in 0..7 PROVE BitOf(m[r][8 * j + n]) \in {0, 1}
    OBVIOUS
  <2>1. 8 * j + n \in ByteCols
    BY DEF ByteCols
  <2>2. m[r][8 * j + n] \in BOOLEAN
    BY <2>1 DEF Reached
  <2> QED
    BY <2>2, BitType
<1>2. t = 128 * b[0] + 64 * b[1] + 32 * b[2] + 16 * b[3] + 8 * b[4] + 4 * b[5] + 2 * b[6] + b[7]
  <2>1. /\ b[0] = BitOf(m[r][8 * j])     /\ b[1] = BitOf(m[r][8 * j + 1])
        /\ b[2] = BitOf(m[r][8 * j + 2]) /\ b[3] = BitOf(m[r][8 * j + 3])
        /\ b[4] = BitOf(m[r][8 * j + 4]) /\ b[5] = BitOf(m[r][8 * j + 5])
        /\ b[6] = BitOf(m[r][8 * j + 6]) /\ b[7] = BitOf(m[r][8 * j + 7])
    <3>1. 8 * j + 0 = 8 * j
      OBVIOUS
    <3> QED
      BY <3>1
  <2> QED
    BY <2>1, Zenon DEF ByteOf
<1> HIDE DEF b, t
<1>3. /\ t \in 0..255
      /\ (t \div 128) % 2 = b[0] /\ (t \div 64) % 2 = b[1]
      /\ (t \div 32) % 2 = b[2]  /\ (t \div 16) % 2 = b[3]
      /\ (t \div 8) % 2 = b[4]   /\ (t \div 4) % 2 = b[5]
      /\ (t \div 2) % 2 = b[6]   /\ (t \div 1) % 2 = b[7]
  BY <1>1, <1>2, BitsOfSum
<1>4. /\ Mask(7) = 128 /\ Mask(6) = 64 /\ Mask(5) = 32 /\ Mask(4) = 16
      /\ Mask(3) = 8 /\ Mask(2) = 4 /\ Mask(1) = 2 /\ Mask(0) = 1
  BY DEF Mask
<1>5. (t \div Mask(7 - k)) % 2 = b[k]
  <2>1. k = 0 \/ k = 1 \/ k = 2 \/ k = 3 \/ k = 4 \/ k = 5 \/ k = 6 \/ k = 7
    OBVIOUS
  <2>2. CASE k = 0 BY <1>3, <1>4, <2>2
  <2>3. CASE k = 1 BY <1>3, <1>4, <2>3
  <2>4. CASE k = 2 BY <1>3, <1>4, <2>4
  <2>5. CASE k = 3 BY <1>3, <1>4, <2>5
  <2>6. CASE k = 4 BY <1>3, <1>4, <2>6
  <2>7. CASE k = 5 BY <1>3, <1>4, <2>7
  <2>8. CASE k = 6 BY <1>3, <1>4, <2>8
  <2>9. CASE k = 7 BY <1>3, <1>4, <2>9
  <2> QED
    BY <2>1, <2>2, <2>3, <2>4, <2>5, <2>6, <2>7, <2>8, <2>9, Zenon
<1> QED
  BY <1>3, <1>5 DEF b, t

\* Where GetModel and SetModel find a cell: their loops count differently.
LEMMA PlaceOfCell ==
    ASSUME NEW r \in RowIds, NEW k \in ByteCols
    PROVE  LET n == 4 * r + (k \div 8)
           IN  /\ n \in BuffIds /\ n \div 4 = r /\ n % 4 = k \div 8
               /\ k \div 8 \in 0..3 /\ k % 8 \in 0..7
               /\ 8 * (k \div 8) + (k % 8) = k
<1>1. /\ k \div 8 \in 0..3 /\ k % 8 \in 0..7
      /\ 8 * (k \div 8) + (k % 8) = k
  BY DEF ByteCols
<1> DEFINE j == k \div 8
<1>2. j \in 0..3
  BY <1>1
<1> HIDE DEF j
<1>3. 4 * r + j \in BuffIds /\ (4 * r + j) \div 4 = r /\ (4 * r + j) % 4 = j
  BY <1>2, ImageAssumption DEF RowIds, BuffIds
<1> QED
  BY <1>1, <1>3 DEF j

LEMMA BuffIndex ==
    ASSUME NEW n \in BuffIds PROVE n \div 4 \in RowIds /\ n % 4 \in 0..3
BY ImageAssumption DEF BuffIds, RowIds

LEMMA GetModelType == ASSUME NEW m \in Reached PROVE GetModel(m) \in Buff
<1> SUFFICES ASSUME NEW n \in BuffIds PROVE ByteOf(m, n \div 4, 8 * (n % 4)) \in 0..255
  BY DEF GetModel, Buff
<1> QED
  BY BuffIndex, BitOfByte

LEMMA SetModelType == ASSUME NEW b PROVE SetModel(b) \in Reached
BY DEF SetModel, Reached

\* SetModel is the inverse of GetModel.
LEMMA SetModelOfGetModel ==
    ASSUME NEW m \in Reached PROVE SetModel(GetModel(m)) = m
<1>1. ASSUME NEW r \in RowIds, NEW k \in ByteCols PROVE SetModel(GetModel(m))[r][k] = m[r][k]
  <2> DEFINE n == 4 * r + (k \div 8)
             v == ByteOf(m, r, 8 * (k \div 8))
  <2>2. /\ n \in BuffIds /\ n \div 4 = r /\ n % 4 = k \div 8
        /\ k \div 8 \in 0..3 /\ k % 8 \in 0..7
        /\ 8 * (k \div 8) + (k % 8) = k
    BY PlaceOfCell
  <2>3. GetModel(m)[n] = v
    BY <2>2, Zenon DEF GetModel
  <2>4. (v \div Mask(7 - (k % 8))) % 2 = BitOf(m[r][8 * (k \div 8) + (k % 8)])
    BY <2>2, BitOfByte
  <2>5. SetModel(GetModel(m))[r][k] = ((GetModel(m)[n] \div Mask(7 - (k % 8))) % 2 = 0)
    BY Zenon DEF SetModel
  <2>6. SetModel(GetModel(m))[r][k] = (BitOf(m[r][k]) = 0)
    BY <2>2, <2>3, <2>4, <2>5, Zenon
  <2>7. m[r][k] \in BOOLEAN
    BY DEF Reached
  <2>8. (BitOf(m[r][k]) = 0) = m[r][k]
    BY <2>7 DEF BitOf
  <2> QED
    BY <2>6, <2>8, Zenon
<1>2. SetModel(GetModel(m)) \in Reached
  BY SetModelType
<1> QED
  BY <1>1, <1>2 DEF Reached

\* Whatever lies past the rows, the rows of what comes back are the model's.
LEMMA WithPastType ==
    ASSUME NEW m \in Model, NEW past \in Strays PROVE WithPast(m, past) \in Reached
<1>1. past \in [RowIds -> [ByteCols \ ColIds -> BOOLEAN]]
  BY ImageAssumption
<1>2. ASSUME NEW r \in RowIds, NEW k \in ByteCols
      PROVE  (IF k \in ColIds THEN m[r][k] ELSE past[r][k]) \in BOOLEAN
  BY <1>1 DEF Model
<1> QED
  BY <1>2 DEF WithPast, Reached

LEMMA RowsOfType == ASSUME NEW w \in Reached PROVE RowsOf(w) \in Model
<1>1. \A k \in ColIds : k \in ByteCols
  BY DEF ColIds, ByteCols, Width
<1> QED
  BY <1>1 DEF RowsOf, Reached, Model

LEMMA RowsOfWithPast == ASSUME NEW m \in Model, NEW past PROVE RowsOf(WithPast(m, past)) = m
<1>1. \A k \in ColIds : k \in ByteCols
  BY DEF ColIds, ByteCols, Width
<1>2. \A r \in RowIds, k \in ColIds : RowsOf(WithPast(m, past))[r][k] = m[r][k]
  BY <1>1 DEF RowsOf, WithPast
<1>3. RowsOf(WithPast(m, past)) = [r \in RowIds |-> [k \in ColIds |-> m[r][k]]]
  BY <1>2 DEF RowsOf
<1> QED
  BY <1>3 DEF Model

----------------------------------------------------------------------------
(* Types. *)

LEMMA TypesInit == Init => TypeOK
<1> SUFFICES ASSUME Init PROVE TypeOK
  OBVIOUS
<1> QED
  BY ImageAssumption DEF Init, TypeOK, Buff, Model, RowIds

LEMMA TypesNext == TypeOK /\ [Next]_vars => TypeOK'
<1> SUFFICES ASSUME TypeOK, [Next]_vars PROVE TypeOK'
  OBVIOUS
<1> USE ImageAssumption DEF TypeOK, bytes, drawing
<1>1. CASE Get
  BY <1>1, GetModelType, WithPastType DEF Get
<1>2. CASE Set
  BY <1>2, SetModelType, RowsOfType DEF Set
<1>3. ASSUME NEW led \in ColIds, DrawRing(led) PROVE TypeOK'
  BY <1>3 DEF DrawRing, RowIds, ColIds
<1>4. CASE Skip
  BY <1>4 DEF Skip, Outer, RowIds
<1>5. CASE Mark
  BY <1>5 DEF Mark, Outer, Arcs, ArcEnd, RowIds
<1>6. CASE UNCHANGED vars
  BY <1>6 DEF vars
<1> QED
  BY <1>1, <1>2, <1>3, <1>4, <1>5, <1>6 DEF Next

\* The variables keep their types.
THEOREM ImageTypes == Spec => []TypeOK
BY TypesInit, TypesNext, PTL DEF Spec

----------------------------------------------------------------------------
(* There and back. *)

\* What the stages of a transfer leave.
TransferInv ==
    /\ stage = "got" => \E past \in Strays : buff = GetModel(WithPast(model, past))
    /\ RoundTrip

LEMMA TransferNext == TypeOK /\ TransferInv /\ [Next]_vars => TransferInv'
<1> SUFFICES ASSUME TypeOK, TransferInv, [Next]_vars PROVE TransferInv'
  OBVIOUS
<1> USE DEF TransferInv, RoundTrip, bytes, drawing
<1>1. CASE Get
  BY <1>1 DEF Get
<1>2. CASE Set
  <2>1. PICK past \in Strays : buff = GetModel(WithPast(model, past))
    BY <1>2 DEF Set
  <2>2. SetModel(buff) = WithPast(model, past)
    BY <2>1, WithPastType, SetModelOfGetModel DEF TypeOK
  <2>3. copy' = model
    BY <1>2, <2>2, RowsOfWithPast DEF Set, TypeOK
  <2> QED
    BY <1>2, <2>3 DEF Set
<1>3. ASSUME NEW led \in ColIds, DrawRing(led) PROVE TransferInv'
  BY <1>3 DEF DrawRing
<1>4. CASE Skip
  BY <1>4 DEF Skip
<1>5. CASE Mark
  BY <1>5 DEF Mark
<1>6. CASE UNCHANGED vars
  BY <1>6 DEF vars
<1> QED
  BY <1>1, <1>2, <1>3, <1>4, <1>5, <1>6 DEF Next

\* A picture written to a bank and read back is the same picture.
THEOREM ImageRoundTrip == Spec => []RoundTrip
<1>1. Init => TransferInv
  BY DEF Init, TransferInv, RoundTrip
<1>2. TransferInv => RoundTrip
  BY DEF TransferInv
<1> QED
  BY <1>1, <1>2, ImageTypes, TransferNext, PTL DEF Spec

----------------------------------------------------------------------------
(* Arcs. *)

\* The arcs drawn so far are right for the rows before h, the one the open arc
\* begins with or else the one the loop is at, and the rows from h on to the
\* loop's are lit.
Horizon == IF phase = "mark" THEN start ELSE row
RightUpTo(h) ==
    /\ \A a \in arcs : a[2] <= h
    /\ \A r \in RowIds : r < h => (Drawn(r) <=> model[r][ring])
LoopInv ==
    /\ phase # "done" => RightUpTo(Horizon)
    /\ phase = "mark" => /\ start < row
                         /\ \A r \in start..(row - 1) : model[r][ring]
    /\ RingDrawn

\* An arc to the first unlit row end is right up to that row and past it.
LEMMA OneMoreArc ==
    ASSUME TypeOK, phase = "mark", LoopInv, NEW end \in RowIds, end >= row,
           \A r \in row..(end - 1) : model[r][ring],
           arcs' = Arcs(end), UNCHANGED <<model, ring>>
    PROVE  /\ \A a \in arcs' : a[2] <= end
           /\ \A r \in RowIds : r < end => (Drawn(r)' <=> model[r][ring])
           /\ ~ Drawn(end)'
<1> USE DEF TypeOK, LoopInv, RightUpTo, Horizon
<1>1. \A a \in arcs : a[1] \in Int /\ a[2] \in Int /\ a[2] <= start
  BY DEF RowIds
<1>2. ASSUME NEW r PROVE Drawn(r)' <=> (Drawn(r) \/ (start <= r /\ r < end))
  <2>1. \A a : a \in arcs' <=> a \in arcs \/ a = <<start, end>>
    BY DEF Arcs
  <2>2. <<start, end>>[1] = start /\ <<start, end>>[2] = end
    OBVIOUS
  <2> QED
    BY <2>1, <2>2, Zenon DEF Drawn
<1>3. \A r \in RowIds : r >= start => ~ Drawn(r)
  BY <1>1 DEF Drawn, RowIds
<1>4. start \in Int /\ row \in Int /\ end \in Int /\ start < row /\ row <= end
  BY DEF RowIds
<1>5. \A a \in arcs' : a[2] <= end
  BY <1>1, <1>4 DEF Arcs
<1>6. ASSUME NEW r \in RowIds, r < end PROVE Drawn(r)' <=> model[r][ring]
  <2>1. CASE r < start
    BY <1>2, <1>4, <2>1 DEF RowIds
  <2>2. CASE r >= start
    <3>1. model[r][ring]
      BY <1>4, <1>6, <2>2 DEF RowIds
    <3> QED
      BY <1>2, <1>6, <2>2, <3>1
  <2> QED
    BY <1>4, <2>1, <2>2 DEF RowIds
<1>7. ~ Drawn(end)'
  BY <1>2, <1>3, <1>4
<1> QED
  BY <1>5, <1>6, <1>7

LEMMA LoopNext == TypeOK /\ LoopInv /\ [Next]_vars => LoopInv'
<1> SUFFICES ASSUME TypeOK, LoopInv, [Next]_vars PROVE LoopInv'
  OBVIOUS
<1>1. CASE Get
  BY <1>1 DEF Get, LoopInv, RightUpTo, Horizon, Drawn, RingDrawn, drawing
<1>2. CASE Set
  BY <1>2 DEF Set, LoopInv, RightUpTo, Horizon, Drawn, RingDrawn, drawing
<1>3. ASSUME NEW led \in ColIds, DrawRing(led) PROVE LoopInv'
  BY <1>3, ImageAssumption DEF DrawRing, LoopInv, RightUpTo, Horizon, RingDrawn, RowIds
<1>4. CASE Skip
  <2> USE <1>4, ImageAssumption DEF Skip, TypeOK, LoopInv, RightUpTo, Horizon, Outer
  <2>1. row \in Nat /\ row' = row + 1 /\ row < Rows /\ ring \in ColIds
    BY DEF RowIds, ColIds
  <2>2. \A r \in RowIds : r >= row => ~ Drawn(r)
    BY <2>1 DEF Drawn, RowIds
  <2>3. \A r : Drawn(r)' <=> Drawn(r)
    BY DEF Drawn
  <2>4. CASE model[row][ring]
    <3>1. phase' # "done" => phase' = "mark" /\ start' = row
      BY <2>4
    <3>2. RingDrawn'
      BY <2>1, <2>3, <2>4 DEF RingDrawn, RowIds
    <3>3. phase' # "done" => RightUpTo(Horizon)'
      BY <2>1, <2>3, <3>1
    <3>4. phase' = "mark" => start' < row' /\ \A r \in start'..(row' - 1) : model'[r][ring']
      BY <2>1, <2>4
    <3> QED
      BY <3>2, <3>3, <3>4
  <2>5. CASE ~ model[row][ring]
    <3>1. phase' # "mark"
      BY <2>5
    <3>2. \A r \in RowIds : r < row + 1 => (Drawn(r) <=> model[r][ring])
      BY <2>1, <2>2, <2>5 DEF RowIds
    <3>3. \A a \in arcs : a[2] <= row + 1
      BY <2>1 DEF RowIds
    <3>4. RingDrawn'
      BY <2>1, <2>3, <3>2 DEF RingDrawn, RowIds
    <3>5. phase' # "done" => RightUpTo(Horizon)'
      BY <2>1, <2>3, <3>1, <3>2, <3>3
    <3> QED
      BY <3>1, <3>4, <3>5
  <2> QED
    BY <2>4, <2>5
<1>5. CASE Mark
  <2> USE <1>5, ImageAssumption DEF Mark, TypeOK, Outer
  <2>1. row \in RowIds /\ row \in Nat /\ row' = row + 1 /\ row < Rows /\ start \in Nat
    BY DEF RowIds
  <2>0. PICK e \in RowIds : e = row
    BY <2>1
  <2>5. UNCHANGED <<model, ring>>
    BY DEF bytes
  <2>6. \A r \in row..(row - 1) : model[r][ring]
    BY <2>1
  <2>2. CASE model[row][ring] /\ row' = Rows
    <3>1. phase' = "done" /\ arcs' = Arcs(row)
      BY <2>1, <2>2
    <3>2. \A r \in RowIds : r < row => (Drawn(r)' <=> model[r][ring])
      BY <2>1, <2>5, <2>6, <3>1, OneMoreArc
    <3> QED
      BY <2>1, <2>2, <3>1, <3>2 DEF LoopInv, RingDrawn, RowIds
  <2>3. CASE model[row][ring] /\ row' # Rows
    <3>1. phase' = "mark" /\ arcs' = arcs /\ start' = start
      BY <2>1, <2>3
    <3>2. \A r : Drawn(r)' <=> Drawn(r)
      BY <3>1 DEF Drawn
    <3>3. \A r \in start..row : model[r][ring]
      BY <2>1, <2>3 DEF LoopInv
    <3>4. RightUpTo(Horizon)'
      BY <2>1, <2>5, <3>1, <3>2 DEF LoopInv, RightUpTo, Horizon
    <3>5. start' < row' /\ \A r \in start'..(row' - 1) : model'[r][ring']
      BY <2>1, <2>5, <3>1, <3>3 DEF LoopInv
    <3>6. RingDrawn'
      BY <3>1 DEF RingDrawn
    <3> QED
      BY <3>1, <3>4, <3>5, <3>6 DEF LoopInv
  <2>4. CASE ~ model[row][ring]
    <3>1. phase' # "mark" /\ arcs' = Arcs(row)
      BY <2>4 DEF ArcEnd
    <3>2. /\ \A a \in arcs' : a[2] <= row
          /\ \A r \in RowIds : r < row => (Drawn(r)' <=> model[r][ring])
          /\ ~ Drawn(e)'
      BY <2>0, <2>1, <2>5, <2>6, <3>1, OneMoreArc
    <3>3. \A r \in RowIds : r < row + 1 => (Drawn(r)' <=> model[r][ring])
      <4> SUFFICES ASSUME NEW r \in RowIds, r < row + 1 PROVE Drawn(r)' <=> model[r][ring]
        OBVIOUS
      <4>1. CASE r < row BY <3>2, <4>1
      <4>2. CASE r = row BY <2>0, <2>4, <3>2, <4>2
      <4> QED
        BY <2>1, <4>1, <4>2 DEF RowIds
    <3>4. arcs' \subseteq RowIds \X RowIds
      BY <2>1, <3>1 DEF Arcs
    <3>5. \A a \in arcs' : a[2] <= row + 1
      BY <2>1, <3>2, <3>4 DEF RowIds
    <3>6. RingDrawn'
      BY <2>1, <3>3 DEF RingDrawn, RowIds
    <3>7. phase' # "done" => RightUpTo(Horizon)'
      BY <2>1, <3>1, <3>3, <3>5 DEF RightUpTo, Horizon
    <3> QED
      BY <3>1, <3>6, <3>7 DEF LoopInv
  <2> QED
    BY <2>2, <2>3, <2>4
<1>6. CASE UNCHANGED vars
  BY <1>6 DEF vars, LoopInv, RightUpTo, Horizon, Drawn, RingDrawn, drawing
<1> QED
  BY <1>1, <1>2, <1>3, <1>4, <1>5, <1>6 DEF Next

\* Draw lights exactly the rows that are lit, but for the last one.
THEOREM ImageRingDrawn == Spec => []RingDrawn
<1>1. Init => LoopInv
  BY DEF Init, LoopInv, RingDrawn
<1>2. LoopInv => RingDrawn
  BY DEF LoopInv
<1> QED
  BY <1>1, <1>2, ImageTypes, LoopNext, PTL DEF Spec

============================================================================
