----------------------------- MODULE WheelPanel -----------------------------
(***************************************************************************)
(* The panel of one bank: drawing by hand, adjusting an imported picture,  *)
(* opening and saving files, and what a read puts in.                      *)
(*                                                                         *)
(* The panel is called back in any order by the mouse, the menus, the      *)
(* frame's buttons and the repaints that Refresh asks for; a dialog opened *)
(* by a keyboard shortcut comes in the middle of a drag.  Two of its       *)
(* habits make the order matter.  A repaint, while a picture is being      *)
(* adjusted, stores the picture in the model; and the model of a wheel with*)
(* fewer LEDs than Width is drawn from its outer columns, but drawn on and *)
(* saved from its inner ones.                                              *)
(*                                                                         *)
(* Points of the window are replaced by what they hit: a cell of the wheel,*)
(* the inside or a corner of the picture.  The place and size of the       *)
(* picture are replaced by look, the cells it would light.  The four corner*)
(* states of a resize differ only in that geometry and are one state here. *)
(*                                                                         *)
(* A row has the Width cells that are allocated.  What is past them belongs*)
(* to nobody: a read of it gives anything, a write to it is not kept, and  *)
(* what else it may break is beyond this module.                           *)
(***************************************************************************)
EXTENDS Integers

CONSTANTS
    Rows,       \* ROWS_PER_WHEEL (256 in the code)
    Width,      \* columns that a row of the model is allocated with (30)
    Sizes,      \* numbers of LEDs of the wheels (22 and 30)
    Files,      \* names of files
    Looks,      \* sets of cells <<row, led>> a picture may light
    Reads       \* models a read of the board may bring

RowIds   == 0..(Rows - 1)
ColIds   == 0..(Width - 1)
Model    == [RowIds -> [ColIds -> BOOLEAN]]
Wheel(n) == RowIds \X (0..(n - 1))      \* what a wheel of n LEDs shows
NoName   == "untitled"                  \* an empty savedname

ASSUME PanelAssumption ==
    /\ Rows \in Nat \ {0} /\ Width \in Nat \ {0}
    /\ Sizes \subseteq 1..Width
    /\ \A l \in Looks : l \subseteq Wheel(Width)
    /\ Reads \subseteq Model
    /\ NoName \notin Files

DrawStates == {"NONE", "DRAWING", "ERASING",
               "IMAGEFOLLOW", "IMAGEMOVE", "IMAGERESIZE"}

VARIABLES
    numLeds,    \* num_leds, LEDs of the wheel
    drawstate,  \* what the mouse does
    model,      \* which LED is lit when, all the columns of it
    origimg,    \* "none" (NULL), "bad" (an invalid image) or "ok"
    currimg,    \* the scaled copy of it: "none" (never set), "bad" or "ok"
    look,       \* the cells currimg lights where it is
    dirty,      \* a repaint has been asked for
    transfer,   \* the Read, Write and Verify buttons are shown
    adjust,     \* the Done button and its text are shown
    savedname,  \* name of the file that Save writes, or NoName
    disk,       \* the files
    kept        \* history: wheel and picture on it when a file was saved

image == <<origimg, currimg, look>>
controls == <<transfer, adjust>>
files == <<savedname, disk, kept>>
vars == <<numLeds, drawstate, model, image, dirty, controls, files>>

Resizing  == drawstate = "IMAGERESIZE"
Adjusting == drawstate \in {"IMAGEFOLLOW", "IMAGEMOVE", "IMAGERESIZE"}

----------------------------------------------------------------------------

\* The column that Draw shows as LED led.
Column(led) == Width - numLeds + led

\* The wheel as it is drawn.
Shown == [c \in Wheel(numLeds) |-> model[c[1]][Column(c[2])]]

\* A moved or resized picture lights any cells; an invalid image lights none.
LooksOf(image1) == IF image1 = "ok" THEN Looks ELSE {{}}

\* A file as SaveModel writes it: the header says Width LEDs, the cells that
\* follow are those of the first columns.
NotImage(k) ==
    [kind |-> k, ver |-> <<0, 0>>, leds |-> 0, rows |-> 0, data |-> [c \in {} |-> FALSE]]
Image(v, n, rs, d) == [kind |-> "SpokePOV", ver |-> v, leds |-> n, rows |-> rs, data |-> d]

SavedBackwards == Image(<<1, 2>>, Width, Rows,       \* mutant
                        [c \in Wheel(numLeds) |-> model[c[1]][numLeds - 1 - c[2]]])
Saved == Image(<<1, 2>>, Width, Rows, [c \in Wheel(numLeds) |-> model[c[1]][c[2]]])

\* Files that may be there before: none, of something else, of this program, of
\* another version of it or for a wheel of twice as many rows.
FoundImages == {Image(v, n, rs, [c \in Wheel(n) |-> TRUE]) :
                  v \in {<<1, 2>>, <<1, 3>>, <<2, 1>>}, n \in Sizes, rs \in {Rows, 2 * Rows}}
Found == {NotImage("none"), NotImage("other")} \cup FoundImages

Unsaved == [leds |-> 0, shown |-> [c \in {} |-> FALSE]]

Blank == [r \in RowIds |-> [k \in ColIds |-> FALSE]]

\* WheelPanel::WheelPanel.
Init ==
    /\ numLeds \in Sizes
    /\ drawstate = "NONE"
    /\ model = Blank
    /\ origimg = "none" /\ currimg = "none" /\ look = {}
    /\ dirty = TRUE
    /\ transfer = TRUE /\ adjust = FALSE
    /\ savedname = NoName
    /\ disk \in [Files -> Found]
    /\ kept = [f \in Files |-> Unsaved]

\* A new panel in place of this one; the files stay.
NewPanel ==
    /\ numLeds' \in Sizes
    /\ drawstate' = "NONE"
    /\ model' = Blank
    /\ origimg' = "none" /\ currimg' = "none" /\ look' = {}
    /\ dirty' = TRUE
    /\ transfer' = TRUE /\ adjust' = FALSE
    /\ savedname' = NoName
    /\ UNCHANGED <<disk, kept>>

----------------------------------------------------------------------------
(* The mouse. *)

\* OnLeftDown on the cell that getLEDForXYPoint finds.
HandEdit(row, led) ==
    /\ drawstate = "NONE"
    /\ led < Width /\ led <= numLeds
    /\ model' = [model EXCEPT ![row][led] = ~model[row][led]]
    /\ drawstate' = IF model[row][led] THEN "ERASING" ELSE "DRAWING"
    /\ dirty' = TRUE
    /\ UNCHANGED <<numLeds, image, controls, files>>

\* OnLeftDown just outside of a wheel of Width LEDs: lednum = num_leds is let
\* through, and is past the row.
HandEditPast ==
    /\ drawstate = "NONE"
    /\ numLeds = Width
    /\ drawstate' \in {"DRAWING", "ERASING"}
    /\ dirty' = TRUE
    /\ UNCHANGED <<numLeds, model, image, controls, files>>

\* OnMotion of a drag that draws or erases.
Stroke(row, led) ==
    /\ drawstate \in {"DRAWING", "ERASING"}
    /\ led < numLeds
    /\ model[row][led] = (drawstate = "ERASING")
    /\ model' = [model EXCEPT ![row][led] = ~model[row][led]]
    /\ dirty' = TRUE
    /\ UNCHANGED <<numLeds, drawstate, image, controls, files>>

\* OnLeftDown inside the picture, or in one of its corners.
Grab ==
    /\ drawstate = "IMAGEFOLLOW" /\ origimg # "none"
    /\ drawstate' \in {"IMAGERESIZE"}
                      \cup (IF currimg = "ok" THEN {"IMAGEMOVE"} ELSE {})
    /\ UNCHANGED <<numLeds, model, image, dirty, controls, files>>

\* OnMotion of a drag of the picture.
Move ==
    /\ drawstate = "IMAGEMOVE"
    /\ look' \in LooksOf(currimg)
    /\ dirty' = TRUE
    /\ UNCHANGED <<numLeds, drawstate, model, origimg, currimg, controls, files>>

\* OnMotion of a drag of a corner: origimg->Scale, which makes an invalid image
\* of an invalid one.
Resize ==
    /\ Resizing /\ origimg # "none"
    /\ currimg' = origimg
    /\ look' \in LooksOf(origimg)
    /\ dirty' = TRUE
    /\ UNCHANGED <<numLeds, drawstate, model, origimg, controls, files>>

\* The same when Open has deleted the image during the drag: the null origimg is
\* used, the program ends, and the next one has a new panel.
ResizeNull == Resizing /\ origimg = "none" /\ NewPanel

\* OnLeftUp.
Release ==
    /\ drawstate \in {"DRAWING", "ERASING", "IMAGEMOVE", "IMAGERESIZE"}
    /\ drawstate' = IF Adjusting THEN "IMAGEFOLLOW" ELSE "NONE"
    /\ UNCHANGED <<numLeds, model, image, dirty, controls, files>>

----------------------------------------------------------------------------
(* Repaints, pictures and files. *)

\* OnPaint, Draw: a picture being adjusted is stored in the columns shown.
Paint ==
    /\ model' = IF Adjusting
                THEN [r \in RowIds |-> [k \in ColIds |->
                        IF k \in Column(0)..(Width - 1)
                        THEN <<r, k - Column(0)>> \in look
                        ELSE model[r][k]]]
                ELSE model
    /\ dirty' = FALSE
    /\ UNCHANGED <<numLeds, drawstate, image, controls, files>>

\* ImportBMP of a file that is an image.
ImportKeepsButtons ==                \* mutant
    /\ origimg' = "ok" /\ currimg' = "ok" /\ look' \in Looks
    /\ drawstate' = "IMAGEFOLLOW"
    /\ adjust' = TRUE
    /\ dirty' = TRUE
    /\ UNCHANGED <<numLeds, model, transfer, files>>
Import ==
    /\ origimg' = "ok" /\ currimg' = "ok" /\ look' \in Looks
    /\ drawstate' = "IMAGEFOLLOW"
    /\ transfer' = FALSE /\ adjust' = TRUE
    /\ dirty' = TRUE
    /\ UNCHANGED <<numLeds, model, files>>

\* ImportBMP of anything else: the former image is gone.
ImportFailsLate ==                   \* mutant: the controls set up first
    /\ origimg' = "bad"
    /\ drawstate' = "IMAGEFOLLOW"
    /\ transfer' = FALSE /\ adjust' = TRUE
    /\ UNCHANGED <<numLeds, model, currimg, look, dirty, files>>
ImportFails ==
    /\ origimg' = "bad"
    /\ UNCHANGED <<numLeds, drawstate, model, currimg, look, dirty, controls, files>>

\* OnButtonDone, setupRWVcontrols.
Done ==
    /\ adjust
    /\ drawstate' = "NONE"
    /\ transfer' = TRUE /\ adjust' = FALSE
    /\ dirty' = TRUE
    /\ UNCHANGED <<numLeds, model, image, files>>

\* LoadModel goes past its checks: a version is refused only when both of its
\* numbers are other than 1.2's.
Loadable(f) ==
    /\ disk[f].kind = "SpokePOV"
    /\ ~(disk[f].ver[1] # 1 /\ disk[f].ver[2] # 2)
    /\ disk[f].leds = numLeds
    /\ disk[f].rows = Rows

\* LoadModel: past the end of a file that is too short Read8 returns anything.
\* The mouse goes on with what it was doing.
Open(f) ==
    /\ Loadable(f)
    /\ \E got \in [Wheel(numLeds) -> BOOLEAN] :
          /\ \A c \in Wheel(numLeds) :
                c \in DOMAIN disk[f].data => got[c] = disk[f].data[c]
          /\ model' = [r \in RowIds |-> [k \in ColIds |->
                         IF k < numLeds THEN got[<<r, k>>] ELSE model[r][k]]]
    /\ origimg' = "none"
    /\ dirty' = TRUE
    /\ savedname' = f
    /\ UNCHANGED <<numLeds, drawstate, currimg, look, controls, disk, kept>>

\* SaveModel, or its failure to open the file, of which nobody is told.
SaveModel(f) ==
    \/ /\ disk' = [disk EXCEPT ![f] = Saved]
       /\ kept' = [kept EXCEPT ![f] = [leds |-> numLeds, shown |-> Shown]]
    \/ UNCHANGED <<disk, kept>>

\* OnSave asks for a name if there is none, OnSaveAs always.
Save(f) ==
    /\ savedname \in {NoName, f}
    /\ savedname' = f
    /\ SaveModel(f)
    /\ UNCHANGED <<numLeds, drawstate, model, image, dirty, controls>>

SaveAs(f) ==
    /\ savedname' = f
    /\ SaveModel(f)
    /\ UNCHANGED <<numLeds, drawstate, model, image, dirty, controls>>

\* OnButtonRead, once all has come: SetModel, of which the two columns past the
\* row are not kept.
Read(m) ==
    /\ transfer
    /\ model' = m
    /\ dirty' = TRUE
    /\ UNCHANGED <<numLeds, drawstate, image, controls, files>>

\* OnWheelSizeBMX, OnWheelSizeRoad (and OnHubSize, for n = numLeds): the wheel
\* is drawn anew, and the picture lies on other cells of it.
WheelSizeUnseen(n) ==                \* mutant: no Refresh
    /\ numLeds' = n
    /\ look' \in LooksOf(currimg)
    /\ UNCHANGED <<drawstate, model, origimg, currimg, dirty, controls, files>>
WheelSize(n) ==
    /\ numLeds' = n
    /\ look' \in LooksOf(currimg)
    /\ dirty' = TRUE
    /\ UNCHANGED <<drawstate, model, origimg, currimg, controls, files>>

\* OnConnect ends a session and another is begun: the pages are deleted, and
\* Connect makes new ones.
Reconnect == NewPanel

----------------------------------------------------------------------------

Mouse ==
    \/ \E row \in RowIds, led \in ColIds : HandEdit(row, led)
    \/ HandEditPast
    \/ \E row \in RowIds, led \in ColIds : Stroke(row, led)
    \/ Grab \/ Move \/ Resize \/ ResizeNull \/ Release

Next ==
    \/ Mouse
    \/ Paint \/ Import \/ ImportFails \/ Done
    \/ \E f \in Files : Open(f) \/ Save(f) \/ SaveAs(f)
    \/ \E m \in Reads : Read(m)
    \/ \E n \in Sizes : WheelSize(n)
    \/ Reconnect

Spec == Init /\ [][Next]_vars

----------------------------------------------------------------------------
(* Properties. *)

Pictures == UNION {[Wheel(n) -> BOOLEAN] : n \in 0..Width}
FileType == [kind : {"none", "other", "SpokePOV"}, ver : (0..2) \X (0..3),
             leds : 0..Width, rows : Nat, data : Pictures]

\* Every variable has its type, and a picture being adjusted has been there.
TypeOK ==
    /\ numLeds \in Sizes
    /\ drawstate \in DrawStates
    /\ model \in Model
    /\ origimg \in {"none", "bad", "ok"} /\ currimg \in {"none", "bad", "ok"}
    /\ Adjusting => currimg # "none"
    /\ look \subseteq Wheel(Width)
    /\ dirty \in BOOLEAN
    /\ transfer \in BOOLEAN /\ adjust \in BOOLEAN
    /\ savedname \in Files \cup {NoName}
    /\ disk \in [Files -> FileType]
    /\ kept \in [Files -> [leds : 0..Width, shown : Pictures]]

\* The buttons follow the mouse through every order of events: Done is shown
\* while a picture is being adjusted, Read, Write and Verify at any other time
\* (setupRWVcontrols, setupImageControl).  So no transfer begins on a model that
\* the next repaint changes.
ControlsMatch == (adjust <=> Adjusting) /\ (transfer <=> ~Adjusting)

\* Every change of what a picture covers asks for a repaint: when none is due,
\* the model has the picture exactly as it lies on the wheel, and Done and Save
\* take that (Draw, OnMotion, ImportBMP, OnWheelSize*).
PictureStored ==
    Adjusting /\ ~dirty => \A c \in Wheel(numLeds) : Shown[c] <=> c \in look

\* Opening a file that a road wheel saved brings back, on a road wheel, the
\* picture that was shown when it was saved, whatever was opened, imported,
\* read or set in between (SaveModel, LoadModel).
RoadRoundTrip ==
    [][\A f \in Files :
         Open(f) /\ numLeds = Width /\ kept[f].leds = Width => Shown' = kept[f].shown]_vars

============================================================================
