----------------------------- MODULE WebIconPicker ------------------------------
(***************************************************************************)
(* Choosing the icon of a subscription                                     *)
(* (src/web/src/components/subscriptions/subscription-icon-picker.tsx): a  *)
(* file is loaded, moved and zoomed under a square, and what is in the     *)
(* square is drawn as the icon.                                            *)
(*                                                                         *)
(* Lengths are pixels of the preview; a zoom is a whole number.  ui is     *)
(* what the picker holds, net the files being loaded, srv the icon that    *)
(* the form has been given last.                                           *)
(***************************************************************************)
EXTENDS Integers, FiniteSets

CONSTANTS
    PreviewSize,    \* the square's side
    Images,         \* sizes of the files there are: a set of <<width, height>>
    MaxZoom,        \* the slider's end
    Steps,          \* how far the pointer moves at a time
    None            \* no file, or no icon

IconAssumption ==
    /\ PreviewSize \in Nat \ {0} /\ MaxZoom \in Nat \ {0}
    /\ IsFiniteSet(Images) /\ Images \subseteq (Nat \ {0}) \X (Nat \ {0})
    /\ Steps \subseteq Int /\ None \notin Images

VARIABLES ui, net, srv

vars == <<ui, net, srv>>

Zooms == 1 .. MaxZoom

Point == [x : Int, y : Int]
Origin == [x |-> 0, y |-> 0]

Crop == [source : Images, zoom : Zooms, offset : Point]

\* dragging: the pointer is down.  crop: what is being drawn.
Page == [source : Images \cup {None}, zoom : Zooms, offset : Point,
         dragging : BOOLEAN, crop : Crop \cup {None}]

TypeOK ==
    /\ ui \in Page
    /\ net \subseteq Images
    /\ srv \in Crop \cup {None}

Init ==
    /\ ui = [source |-> None, zoom |-> 1, offset |-> Origin,
             dragging |-> FALSE, crop |-> None]
    /\ net = {} /\ srv = None

-----------------------------------------------------------------------------
(* How the image is drawn: its shorter side fills the square. *)

Clamp(v, lo, hi) == IF v < lo THEN lo ELSE IF v > hi THEN hi ELSE v

Shorter(s) == IF s[1] < s[2] THEN s[1] ELSE s[2]

DisplayWidth(s, zoom) == (s[1] * PreviewSize * zoom) \div Shorter(s)
DisplayHeight(s, zoom) == (s[2] * PreviewSize * zoom) \div Shorter(s)

MaxX(s, zoom) == (DisplayWidth(s, zoom) - PreviewSize) \div 2
MaxY(s, zoom) == (DisplayHeight(s, zoom) - PreviewSize) \div 2

\* Mutant: nothing is done about the place when the zoom changes.
NotClamped(u) == u

\* The effect that runs when the image is drawn in another size.
Clamped(u) ==
    [u EXCEPT !.offset =
        [x |-> Clamp(@.x, -MaxX(u.source, u.zoom), MaxX(u.source, u.zoom)),
         y |-> Clamp(@.y, -MaxY(u.source, u.zoom), MaxY(u.source, u.zoom))]]

-----------------------------------------------------------------------------

\* A file of another kind, or too large a one, is a toast.
ChooseFile(s) ==
    /\ ui.source = None
    /\ net' = net \cup {s} /\ UNCHANGED <<ui, srv>>

LoadFails(s) == net' = net \ {s} /\ UNCHANGED <<ui, srv>>

\* A file that comes late takes the place of the one that is shown.
LoadReturns(s) ==
    /\ net' = net \ {s}
    /\ ui' = Clamped([ui EXCEPT !.source = s, !.zoom = 1, !.offset = Origin])
    /\ UNCHANGED srv

StartMoving ==
    /\ ui.source # None /\ ~ui.dragging
    /\ ui' = [ui EXCEPT !.dragging = TRUE] /\ UNCHANGED <<net, srv>>

MoveImage(dx, dy) ==
    /\ ui.source # None /\ ui.dragging
    /\ ui' = Clamped([ui EXCEPT !.offset = [x |-> @.x + dx, y |-> @.y + dy]])
    /\ UNCHANGED <<net, srv>>

StopMoving ==
    /\ ui.dragging
    /\ ui' = [ui EXCEPT !.dragging = FALSE] /\ UNCHANGED <<net, srv>>

Processing == ui.crop # None

SetZoom(z) ==
    /\ ui.source # None /\ ~Processing /\ z # ui.zoom
    /\ ui' = Clamped([ui EXCEPT !.zoom = z]) /\ UNCHANGED <<net, srv>>

CropModal == ui.source # None

CloseCropper ==
    /\ CropModal /\ ~Processing
    /\ ui' = [ui EXCEPT !.source = None, !.zoom = 1, !.offset = Origin,
                        !.dragging = FALSE]
    /\ UNCHANGED <<net, srv>>

\* The icon is drawn from what the handler saw, whatever is moved meanwhile.
ApplyCrop ==
    /\ CropModal /\ ~Processing
    /\ ui' = [ui EXCEPT !.crop = [source |-> ui.source, zoom |-> ui.zoom,
                                  offset |-> ui.offset]]
    /\ UNCHANGED <<net, srv>>

\* One that is too large even with less detail is a toast.
CropFails ==
    /\ Processing
    /\ ui' = [ui EXCEPT !.crop = None] /\ UNCHANGED <<net, srv>>

CropReturns ==
    /\ Processing
    /\ srv' = ui.crop
    /\ ui' = [ui EXCEPT !.crop = None, !.source = None, !.zoom = 1,
                        !.offset = Origin]
    /\ UNCHANGED net

\* The icon's own button.
ResetIcon ==
    /\ ~CropModal /\ srv # None
    /\ srv' = None /\ UNCHANGED <<ui, net>>

Next ==
    \/ StartMoving \/ StopMoving \/ CloseCropper \/ ApplyCrop
    \/ CropFails \/ CropReturns \/ ResetIcon
    \/ \E s \in Images : ChooseFile(s)
    \/ \E s \in net : LoadFails(s) \/ LoadReturns(s)
    \/ \E dx, dy \in Steps : MoveImage(dx, dy)
    \/ \E z \in Zooms : SetZoom(z)

Spec == Init /\ [][Next]_vars

-----------------------------------------------------------------------------
\* After any moves and zooms, and after files that come late, the square that
\* is drawn lies within the image: no icon has an empty border.
InsideImage ==
    srv # None =>
        /\ srv.offset.x + PreviewSize \div 2 <=
                DisplayWidth(srv.source, srv.zoom) \div 2
        /\ srv.offset.y + PreviewSize \div 2 <=
                DisplayHeight(srv.source, srv.zoom) \div 2
        /\ PreviewSize \div 2 - srv.offset.x <=
                DisplayWidth(srv.source, srv.zoom) \div 2
        /\ PreviewSize \div 2 - srv.offset.y <=
                DisplayHeight(srv.source, srv.zoom) \div 2
=============================================================================
