-------------------------- MODULE TabStripPlacement --------------------------
(***************************************************************************)
(* Where the tab strip goes (common/tab_strip_placement.cc): pure          *)
(* functions of the stored preference.  The preference is an integer a     *)
(* user may have edited on disk, so every reader clamps it.                *)
(***************************************************************************)
EXTENDS Integers

CONSTANT PositionFlag   \* the feature kTabStripPosition of this process

kTop == 0
kBottom == 1
kLeft == 2
kRight == 3

GetTabStripPlacement(stored) ==
    IF ~PositionFlag \/ stored < kTop \/ stored > kRight THEN kTop ELSE stored

ShouldDisplayVerticalTabsForPlacement(stored) ==
    GetTabStripPlacement(stored) \in {kLeft, kRight}

ShouldDockVerticalTabStripRight(stored) == GetTabStripPlacement(stored) = kRight

ShouldDockVerticalTabStripLeft(stored) == GetTabStripPlacement(stored) = kLeft

(* The side in the coordinates of the layout, which mirrors when rtl. *)
IsVerticalTabStripOnLogicalTrailingEdge(stored, rtl) ==
    /\ ShouldDockVerticalTabStripRight(stored) \/ ShouldDockVerticalTabStripLeft(stored)
    /\ ShouldDockVerticalTabStripRight(stored) # rtl

(* With the flag off the upstream preference decides. *)
IsVerticalTabStripEffectivelyEnabled(stored, upstream) ==
    IF PositionFlag THEN ShouldDisplayVerticalTabsForPlacement(stored) ELSE upstream

Clamp(n, lo, hi) == IF n < lo THEN lo ELSE IF n > hi THEN hi ELSE n

(* A client area of `height` rows from row y on is split into what stays      *)
(* above and a band at the bottom; each part is given by its top and height.  *)
ComputeBottomStripLayout(y, height, stripHeight) ==
    LET band == Clamp(stripHeight, 0, height)
    IN  [strip     |-> [top |-> y + height - band, height |-> band],
         remaining |-> [top |-> y, height |-> height - band]]
=============================================================================
