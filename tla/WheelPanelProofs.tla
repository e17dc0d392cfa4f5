-------------------------- MODULE WheelPanelProofs --------------------------
(***************************************************************************)
(* For wheels, pictures and files of any number: the types of the panel's  *)
(* variables, the match of its buttons with its mouse, and what becomes of *)
(* a picture that is adjusted, or saved and opened again.                  *)
(***************************************************************************)
EXTENDS WheelPanel, TLAPS

----------------------------------------------------------------------------
(* Types of the values. *)

LEMMA SizesAreWidths == ASSUME NEW n \in Sizes PROVE n \in 1..Width /\ n \in Nat
BY PanelAssumption

\* A cell of a wheel is a row and a column of the model, under the LED's number
\* and under the column it is drawn from.
LEMMA WheelCells ==
    ASSUME NEW n \in 0..Width, NEW c \in Wheel(n)
    PROVE  /\ c[1] \in RowIds /\ c[2] \in 0..(n - 1) /\ c = <<c[1], c[2]>>
           /\ c[2] \in ColIds /\ Width - n + c[2] \in ColIds
           /\ c \in Wheel(Width)
BY PanelAssumption DEF Wheel, ColIds

LEMMA PicturesOf ==
    ASSUME NEW n \in 0..Width, NEW p \in [Wheel(n) -> BOOLEAN] PROVE p \in Pictures
BY DEF Pictures

LEMMA NoCells == [c \in {} |-> FALSE] \in Pictures
<1>1. Wheel(0) = {}
  BY DEF Wheel
<1>2. [c \in {} |-> FALSE] \in [Wheel(0) -> BOOLEAN]
  BY <1>1
<1>3. 0 \in 0..Width
  BY PanelAssumption
<1> QED
  BY <1>2, <1>3, PicturesOf

LEMMA FoundType == Found \subseteq FileType
<1>1. NotImage("none") \in FileType /\ NotImage("other") \in FileType
  <2>1. 0 \in 0..Width
    BY PanelAssumption
  <2> QED
    BY <2>1, NoCells DEF NotImage, FileType
<1>2. ASSUME NEW v \in {<<1, 2>>, <<1, 3>>, <<2, 1>>}, NEW n \in Sizes,
             NEW rs \in {Rows, 2 * Rows}
      PROVE  Image(v, n, rs, [c \in Wheel(n) |-> TRUE]) \in FileType
  <2>1. n \in 0..Width
    BY SizesAreWidths, PanelAssumption
  <2>2. [c \in Wheel(n) |-> TRUE] \in Pictures
    BY <2>1, PicturesOf
  <2>3. v \in (0..2) \X (0..3)
    OBVIOUS
  <2>4. rs \in Nat
    BY PanelAssumption
  <2> QED
    BY <2>1, <2>2, <2>3, <2>4 DEF Image, FileType
<1> SUFFICES ASSUME NEW d \in Found PROVE d \in FileType
  OBVIOUS
<1>3. CASE d \in {NotImage("none"), NotImage("other")}
  BY <1>1, <1>3
<1>4. CASE d \in FoundImages
  <2>1. PICK v \in {<<1, 2>>, <<1, 3>>, <<2, 1>>}, n \in Sizes, rs \in {Rows, 2 * Rows} :
           d = Image(v, n, rs, [c \in Wheel(n) |-> TRUE])
    BY <1>4 DEF FoundImages
  <2> QED
    BY <1>2, <2>1
<1> QED
  BY <1>3, <1>4 DEF Found

\* What is saved and what is shown are pictures of the wheel.
LEMMA SavedType ==
    ASSUME TypeOK
    PROVE  /\ Saved \in FileType
           /\ Shown \in [Wheel(numLeds) -> BOOLEAN]
           /\ [leds |-> numLeds, shown |-> Shown] \in [leds : 0..Width, shown : Pictures]
<1>1. numLeds \in 0..Width
  BY SizesAreWidths, PanelAssumption DEF TypeOK
<1>2. ASSUME NEW c \in Wheel(numLeds)
      PROVE  model[c[1]][c[2]] \in BOOLEAN /\ model[c[1]][Column(c[2])] \in BOOLEAN
  <2>1. c[1] \in RowIds /\ c[2] \in ColIds /\ Column(c[2]) \in ColIds
    BY <1>1, WheelCells DEF Column
  <2> QED
    BY <2>1 DEF TypeOK, Model
<1>3. [c \in Wheel(numLeds) |-> model[c[1]][c[2]]] \in Pictures
  BY <1>1, <1>2, PicturesOf
<1>4. Shown \in [Wheel(numLeds) -> BOOLEAN]
  BY <1>2 DEF Shown
<1>5. Shown \in Pictures
  BY <1>1, <1>4, PicturesOf
<1>6. Width \in 0..Width /\ Rows \in Nat /\ <<1, 2>> \in (0..2) \X (0..3)
  BY PanelAssumption
<1> QED
  BY <1>1, <1>3, <1>4, <1>5, <1>6 DEF Saved, Image, FileType

LEMMA LooksType == ASSUME NEW i, NEW l \in LooksOf(i) PROVE l \subseteq Wheel(Width)
BY PanelAssumption DEF LooksOf

----------------------------------------------------------------------------
(* Types of the variables, and the controls. *)

PanelInv == TypeOK /\ ControlsMatch

LEMMA PanelInit == Init => PanelInv
<1> SUFFICES ASSUME Init PROVE PanelInv
  OBVIOUS
<1>1. model \in Model
  BY DEF Init, Blank, Model
<1>2. disk \in [Files -> FileType]
  BY FoundType DEF Init
<1>3. kept \in [Files -> [leds : 0..Width, shown : Pictures]]
  <2>1. Unsaved \in [leds : 0..Width, shown : Pictures]
    BY NoCells, PanelAssumption DEF Unsaved
  <2> QED
    BY <2>1 DEF Init
<1>4. ControlsMatch /\ ~Adjusting /\ drawstate \in DrawStates
  BY DEF Init, ControlsMatch, Adjusting, DrawStates
<1>5. /\ numLeds \in Sizes /\ look \subseteq Wheel(Width) /\ dirty \in BOOLEAN
      /\ origimg = "none" /\ currimg = "none" /\ transfer \in BOOLEAN /\ adjust \in BOOLEAN
      /\ savedname \in Files \cup {NoName}
  BY DEF Init
<1> QED
  BY <1>1, <1>2, <1>3, <1>4, <1>5 DEF PanelInv, TypeOK

\* Turning one LED on or off.
LEMMA FlipType ==
    ASSUME TypeOK, NEW r \in RowIds, NEW k \in ColIds
    PROVE  [model EXCEPT ![r][k] = ~model[r][k]] \in Model
<1>1. [model[r] EXCEPT ![k] = ~model[r][k]] \in [ColIds -> BOOLEAN]
  BY DEF TypeOK, Model
<1> QED
  BY <1>1 DEF TypeOK, Model

LEMMA SaveType ==
    ASSUME TypeOK, NEW f \in Files, SaveModel(f)
    PROVE  /\ disk' \in [Files -> FileType]
           /\ kept' \in [Files -> [leds : 0..Width, shown : Pictures]]
BY SavedType DEF SaveModel, TypeOK

\* A new panel is as the first one was.
LEMMA NewPanelInv == ASSUME PanelInv, NewPanel PROVE PanelInv'
<1>1. model' \in Model
  BY DEF NewPanel, Blank, Model
<1>2. ControlsMatch' /\ ~Adjusting' /\ drawstate' \in DrawStates
  BY DEF NewPanel, ControlsMatch, Adjusting, DrawStates
<1>3. /\ numLeds' \in Sizes /\ look' \subseteq Wheel(Width) /\ dirty' \in BOOLEAN
      /\ origimg' = "none" /\ currimg' = "none" /\ transfer' \in BOOLEAN /\ adjust' \in BOOLEAN
      /\ savedname' \in Files \cup {NoName} /\ disk' = disk /\ kept' = kept
  BY DEF NewPanel
<1> QED
  BY <1>1, <1>2, <1>3 DEF PanelInv, TypeOK

LEMMA PanelNext == PanelInv /\ [Next]_vars => PanelInv'
<1> SUFFICES ASSUME PanelInv, [Next]_vars PROVE PanelInv'
  OBVIOUS
<1> USE DEF PanelInv, ControlsMatch, Adjusting, image, controls, files
<1>1. ASSUME NEW r \in RowIds, NEW k \in ColIds, HandEdit(r, k) PROVE PanelInv'
  <2>1. model' \in Model
    BY <1>1, FlipType DEF HandEdit
  <2>2. drawstate' \in {"DRAWING", "ERASING"}
    BY <1>1 DEF HandEdit
  <2> QED
    BY <1>1, <2>1, <2>2 DEF HandEdit, TypeOK, DrawStates
<1>2. ASSUME NEW r \in RowIds, NEW k \in ColIds, Stroke(r, k) PROVE PanelInv'
  BY <1>2, FlipType DEF Stroke, TypeOK
<1>3. CASE Grab
  BY <1>3 DEF Grab, TypeOK, DrawStates
<1>4. CASE Move
  BY <1>4, LooksType DEF Move, TypeOK
<1>5. CASE Resize
  BY <1>5, LooksType DEF Resize, Resizing, TypeOK
<1>6. CASE Release
  BY <1>6 DEF Release, TypeOK, DrawStates
<1>7. CASE Paint
  <2>1. model' \in Model
    <3>1. CASE Adjusting
      <4>1. model' = [r \in RowIds |-> [k \in ColIds |->
                        IF k \in Column(0)..(Width - 1)
                        THEN <<r, k - Column(0)>> \in look
                        ELSE model[r][k]]]
        BY <1>7, <3>1 DEF Paint
      <4>2. \A r \in RowIds, k \in ColIds :
              (IF k \in Column(0)..(Width - 1)
               THEN <<r, k - Column(0)>> \in look
               ELSE model[r][k]) \in BOOLEAN
        <5> SUFFICES ASSUME NEW r \in RowIds, NEW k \in ColIds
                     PROVE  (IF k \in Column(0)..(Width - 1)
                             THEN <<r, k - Column(0)>> \in look
                             ELSE model[r][k]) \in BOOLEAN
          OBVIOUS
        <5>1. model[r][k] \in BOOLEAN
          BY DEF TypeOK, Model
        <5> DEFINE lit == <<r, k - Column(0)>> \in look
        <5>2. lit \in BOOLEAN
          OBVIOUS
        <5> QED
          BY <5>1, <5>2, Zenon
      <4> QED
        BY <4>1, <4>2 DEF Model
    <3>2. CASE ~Adjusting
      BY <1>7, <3>2 DEF Paint, TypeOK
    <3> QED
      BY <3>1, <3>2
  <2> QED
    BY <1>7, <2>1 DEF Paint, TypeOK
<1>8. CASE Import
  BY <1>8, PanelAssumption DEF Import, TypeOK, DrawStates
<1>9. CASE ImportFails
  BY <1>9 DEF ImportFails, TypeOK
<1>10. CASE Done
  <2>1. drawstate' = "NONE" /\ transfer' = TRUE /\ adjust' = FALSE /\ dirty' = TRUE
    BY <1>10 DEF Done
  <2> QED
    BY <1>10, <2>1 DEF Done, TypeOK, DrawStates
<1>11. ASSUME NEW f \in Files, Open(f) PROVE PanelInv'
  <2>1. model' \in Model
    <3>1. PICK got \in [Wheel(numLeds) -> BOOLEAN] :
             model' = [r \in RowIds |-> [k \in ColIds |->
                         IF k < numLeds THEN got[<<r, k>>] ELSE model[r][k]]]
      BY <1>11 DEF Open
    <3>2. \A r \in RowIds, k \in ColIds : k < numLeds => <<r, k>> \in Wheel(numLeds)
      BY SizesAreWidths DEF TypeOK, Wheel, ColIds
    <3> QED
      BY <3>1, <3>2 DEF TypeOK, Model
  <2> QED
    BY <1>11, <2>1 DEF Open, TypeOK
<1>12. ASSUME NEW f \in Files, Save(f) PROVE PanelInv'
  BY <1>12, SaveType DEF Save, TypeOK
<1>13. ASSUME NEW f \in Files, SaveAs(f) PROVE PanelInv'
  BY <1>13, SaveType DEF SaveAs, TypeOK
<1>14. ASSUME NEW m \in Reads, Read(m) PROVE PanelInv'
  BY <1>14, PanelAssumption DEF Read, TypeOK
<1>15. ASSUME NEW n \in Sizes, WheelSize(n) PROVE PanelInv'
  BY <1>15, LooksType DEF WheelSize, TypeOK
<1>16. CASE UNCHANGED vars
  BY <1>16 DEF vars, TypeOK
<1>17. CASE HandEditPast
  BY <1>17 DEF HandEditPast, TypeOK, DrawStates
<1>18. CASE ResizeNull \/ Reconnect
  BY <1>18, NewPanelInv DEF ResizeNull, Reconnect
<1> QED
  BY <1>1, <1>2, <1>3, <1>4, <1>5, <1>6, <1>7, <1>8, <1>9, <1>10, <1>11, <1>12, <1>13,
     <1>14, <1>15, <1>16, <1>17, <1>18 DEF Next, Mouse

LEMMA PanelAlways == Spec => []PanelInv
BY PanelInit, PanelNext, PTL DEF Spec

\* The variables keep their types.
THEOREM PanelTypes == Spec => []TypeOK
<1>1. PanelInv => TypeOK
  BY DEF PanelInv
<1> QED
  BY <1>1, PanelAlways, PTL

\* The buttons follow the mouse through every order of events.
THEOREM PanelControlsMatch == Spec => []ControlsMatch
<1>1. PanelInv => ControlsMatch
  BY DEF PanelInv
<1> QED
  BY <1>1, PanelAlways, PTL

----------------------------------------------------------------------------
(* Adjusting a picture. *)

\* A repaint stores the picture.
LEMMA PaintStores ==
    ASSUME TypeOK, Paint, Adjusting, NEW c \in Wheel(numLeds)
    PROVE  Shown[c]' <=> c \in look
<1>1. numLeds \in 0..Width /\ numLeds' = numLeds
  BY SizesAreWidths, PanelAssumption DEF TypeOK, Paint
<1>2. /\ c[1] \in RowIds /\ c[2] \in 0..(numLeds - 1) /\ c = <<c[1], c[2]>>
      /\ Column(c[2]) \in ColIds
  BY <1>1, WheelCells DEF Column
<1>3. /\ Column(c[2]) \in Column(0)..(Width - 1)
      /\ Column(c[2]) - Column(0) = c[2]
  BY <1>1, <1>2, PanelAssumption DEF Column
<1>4. model'[c[1]][Column(c[2])] = (<<c[1], Column(c[2]) - Column(0)>> \in look)
  BY <1>2, <1>3 DEF Paint
<1>5. Shown[c]' = model'[c[1]][Column(c[2])]
  BY <1>1 DEF Shown, Column
<1> QED
  BY <1>2, <1>3, <1>4, <1>5

LEMMA StoredNext == PanelInv /\ PictureStored /\ [Next]_vars => PictureStored'
<1> SUFFICES ASSUME PanelInv, PictureStored, [Next]_vars PROVE PictureStored'
  OBVIOUS
<1> USE DEF PanelInv, Adjusting, image, controls, files
<1>1. CASE dirty'
  BY <1>1 DEF PictureStored
<1>2. CASE Paint
  <2>1. Adjusting' = Adjusting /\ numLeds' = numLeds /\ look' = look
    BY <1>2 DEF Paint
  <2> QED
    BY <1>2, <2>1, PaintStores DEF PictureStored
<1>3. CASE UNCHANGED <<numLeds, model, look, dirty>> /\ (Adjusting' => Adjusting)
  BY <1>3 DEF PictureStored, Shown, Column
<1>4. CASE ~Adjusting'
  BY <1>4 DEF PictureStored
<1>5. ASSUME NEW r \in RowIds, NEW k \in ColIds, HandEdit(r, k) PROVE dirty'
  BY <1>5 DEF HandEdit
<1>6. ASSUME NEW r \in RowIds, NEW k \in ColIds, Stroke(r, k) PROVE dirty'
  BY <1>6 DEF Stroke
<1>7. Grab => UNCHANGED <<numLeds, model, look, dirty>> /\ Adjusting
  BY DEF Grab
<1>8. Move \/ Resize \/ Import \/ Done \/ HandEditPast \/ ResizeNull \/ Reconnect => dirty'
  BY DEF Move, Resize, Import, Done, HandEditPast, ResizeNull, Reconnect, NewPanel
<1>9. Release => UNCHANGED <<numLeds, model, look, dirty>> /\ (Adjusting' => Adjusting)
  BY DEF Release
<1>10. ImportFails => UNCHANGED <<numLeds, model, look, dirty>> /\ (Adjusting' => Adjusting)
  BY DEF ImportFails
<1>11. ASSUME NEW f \in Files, Open(f) PROVE dirty'
  BY <1>11 DEF Open
<1>12. ASSUME NEW f \in Files, Save(f) \/ SaveAs(f)
       PROVE  UNCHANGED <<numLeds, model, look, dirty>> /\ (Adjusting' => Adjusting)
  BY <1>12 DEF Save, SaveAs
<1>13. ASSUME NEW m \in Reads, Read(m) PROVE dirty'
  BY <1>13 DEF Read
<1>14. ASSUME NEW n \in Sizes, WheelSize(n) PROVE dirty'
  BY <1>14 DEF WheelSize
<1>15. CASE UNCHANGED vars
  BY <1>15 DEF vars, PictureStored, Shown, Column
<1> QED
  BY <1>1, <1>2, <1>3, <1>4, <1>5, <1>6, <1>7, <1>8, <1>9, <1>10, <1>11, <1>12, <1>13,
     <1>14, <1>15 DEF Next, Mouse

\* When no repaint is due the model has the picture as it lies on the wheel.
THEOREM PanelPictureStored == Spec => []PictureStored
<1>1. Init => PictureStored
  BY DEF Init, PictureStored
<1> QED
  BY <1>1, PanelAlways, StoredNext, PTL DEF Spec

----------------------------------------------------------------------------
(* Saving and opening. *)

\* A file that a road wheel saved holds the picture that was shown.
KeptInv ==
    \A f \in Files :
        kept[f].leds = Width => disk[f].data = kept[f].shown
                              /\ kept[f].shown \in [Wheel(Width) -> BOOLEAN]

\* On a road wheel the first columns are the ones that are shown.
LEMMA RoadColumns ==
    ASSUME TypeOK, numLeds = Width
    PROVE  Shown = [c \in Wheel(Width) |-> model[c[1]][c[2]]]
<1>1. \A c \in Wheel(Width) : Column(c[2]) = c[2]
  BY PanelAssumption DEF Column, Wheel
<1> QED
  BY <1>1 DEF Shown

LEMMA KeptBySave ==
    ASSUME TypeOK, KeptInv, NEW f \in Files, SaveModel(f) PROVE KeptInv'
<1>1. CASE /\ disk' = [disk EXCEPT ![f] = Saved]
           /\ kept' = [kept EXCEPT ![f] = [leds |-> numLeds, shown |-> Shown]]
  <2> SUFFICES ASSUME NEW g \in Files, kept'[g].leds = Width
               PROVE  disk'[g].data = kept'[g].shown
                      /\ kept'[g].shown \in [Wheel(Width) -> BOOLEAN]
    BY DEF KeptInv
  <2>1. CASE g = f
    <3>1. kept'[g] = [leds |-> numLeds, shown |-> Shown] /\ disk'[g] = Saved
      BY <1>1, <2>1 DEF TypeOK
    <3>2. numLeds = Width
      BY <3>1
    <3>3. Saved.data = Shown
      BY <3>2, RoadColumns DEF Saved, Image
    <3> QED
      BY <3>1, <3>2, <3>3, SavedType
  <2>2. CASE g # f
    BY <1>1, <2>2 DEF TypeOK, KeptInv
  <2> QED
    BY <2>1, <2>2
<1>2. CASE UNCHANGED <<disk, kept>>
  BY <1>2 DEF KeptInv
<1> QED
  BY <1>1, <1>2 DEF SaveModel

LEMMA KeptNext == PanelInv /\ KeptInv /\ [Next]_vars => KeptInv'
<1> SUFFICES ASSUME PanelInv, KeptInv, [Next]_vars PROVE KeptInv'
  OBVIOUS
<1>1. CASE UNCHANGED <<disk, kept>>
  BY <1>1 DEF KeptInv
<1>2. ASSUME NEW f \in Files, Save(f) \/ SaveAs(f) PROVE KeptInv'
  BY <1>2, KeptBySave DEF Save, SaveAs, PanelInv
<1>3. Mouse \/ Paint \/ Import \/ ImportFails \/ Done \/ Reconnect => UNCHANGED <<disk, kept>>
  BY DEF Mouse, HandEdit, Stroke, Grab, Move, Resize, Release, Paint, Import, ImportFails,
         Done, HandEditPast, ResizeNull, Reconnect, NewPanel, files
<1>4. ASSUME NEW f \in Files, Open(f) PROVE UNCHANGED <<disk, kept>>
  BY <1>4 DEF Open
<1>5. ASSUME NEW m \in Reads, Read(m) PROVE UNCHANGED <<disk, kept>>
  BY <1>5 DEF Read, files
<1>6. ASSUME NEW n \in Sizes, WheelSize(n) PROVE UNCHANGED <<disk, kept>>
  BY <1>6 DEF WheelSize, files
<1>7. CASE UNCHANGED vars
  BY <1>7 DEF vars, files, KeptInv
<1> QED
  BY <1>1, <1>2, <1>3, <1>4, <1>5, <1>6, <1>7 DEF Next

\* What a road wheel opens of a file it can open is the data of the file.
LEMMA OpenShows ==
    ASSUME PanelInv, KeptInv, NEW f \in Files, Open(f), numLeds = Width, kept[f].leds = Width
    PROVE  Shown' = kept[f].shown
<1> DEFINE d == kept[f].shown
<1>1. disk[f].data = d /\ d \in [Wheel(Width) -> BOOLEAN]
  BY DEF KeptInv
<1>2. PICK got \in [Wheel(Width) -> BOOLEAN] :
         /\ \A c \in Wheel(Width) : c \in DOMAIN disk[f].data => got[c] = disk[f].data[c]
         /\ model' = [r \in RowIds |-> [k \in ColIds |->
                        IF k < Width THEN got[<<r, k>>] ELSE model[r][k]]]
  BY DEF Open
<1>3. got = d
  BY <1>1, <1>2
<1>4. \A c \in Wheel(Width) : model'[c[1]][c[2]] = d[c]
  <2> SUFFICES ASSUME NEW c \in Wheel(Width) PROVE model'[c[1]][c[2]] = d[c]
    OBVIOUS
  <2>1. c[1] \in RowIds /\ c[2] \in ColIds /\ c[2] < Width /\ c = <<c[1], c[2]>>
    BY WheelCells, PanelAssumption DEF Wheel, ColIds
  <2> QED
    BY <1>2, <1>3, <2>1
<1>5. TypeOK'
  BY PanelNext DEF PanelInv, Next
<1>6. numLeds' = Width
  BY DEF Open
<1>7. Shown' = [c \in Wheel(Width) |-> model'[c[1]][c[2]]]
  BY <1>5, <1>6, RoadColumns, PanelAssumption DEF Shown, Column, Wheel
<1> HIDE DEF d
<1> QED
  BY <1>1, <1>4, <1>7 DEF d

\* A road wheel's file brings back the picture that was shown when it was saved.
THEOREM PanelRoadRoundTrip == Spec => RoadRoundTrip
<1>1. Init => KeptInv
  BY PanelAssumption DEF Init, KeptInv, Unsaved
<1>2. PanelInv /\ KeptInv /\ [Next]_vars =>
        [\A f \in Files :
           Open(f) /\ numLeds = Width /\ kept[f].leds = Width => Shown' = kept[f].shown]_vars
  BY OpenShows
<1> QED
  BY <1>1, <1>2, PanelAlways, KeptNext, PTL DEF Spec, RoadRoundTrip

============================================================================
