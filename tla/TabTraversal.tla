---------------------------- MODULE TabTraversal ----------------------------
(***************************************************************************)
(* The pure traversal engine, tab_traversal_controller.cc: the MRU order   *)
(* derived from the settled-visit log, and the cursor that walks a frozen  *)
(* copy of it during one gesture.                                          *)
(*                                                                         *)
(* Indices are shifted by one against the code: a sequence starts at 1, so *)
(* the anchor is position 1 and "no landable index" (-1 in the code) is 0. *)
(* A controller is a record; every method is an operator on it.            *)
(***************************************************************************)
EXTENDS Naturals, SequencesExt, Subsequences

(* Newest to oldest, each identity at its most recent position. *)
MostRecent(journal) ==
    {i \in 1..Len(journal) : \A j \in (i + 1)..Len(journal) : journal[j] # journal[i]}

DeriveMruOrder(journal) == Reverse(ElementsAt(journal, MostRecent(journal)))

(* A first Back has to land on something older than the anchor. *)
CanBeginBackTraversal(journal, reachable) ==
    LET mru == DeriveMruOrder(journal)
    IN  \E i \in 2..Len(mru) : mru[i] \in reachable

IdleController ==
    [active |-> FALSE, order |-> <<>>, landable |-> <<>>, cursor |-> 1]

(* Freezes the order and the reachable set; a second call is ignored. *)
BeginGesture(c, journal, reachable) ==
    LET mru == DeriveMruOrder(journal)
    IN  IF c.active THEN c
        ELSE [active   |-> TRUE,
              order    |-> mru,
              landable |-> [i \in 1..Len(mru) |-> mru[i] \in reachable],
              cursor   |-> 1]

NextOlder(c, index) == IF index < Len(c.order) THEN index + 1 ELSE 0
NextLandableAfter(c, index) ==
    SelectInSubSeq(c.landable, index + 1, Len(c.landable), LAMBDA l : l)

PrevLandableBefore(c, index) ==
    SelectLastInSubSeq(c.landable, 1, index - 1, LAMBDA l : l)

ControllerCanGoBack(c) == NextLandableAfter(c, c.cursor) # 0

ControllerCanGoForward(c) == PrevLandableBefore(c, c.cursor) # 0

Back(c) ==
    IF ControllerCanGoBack(c)
    THEN [c EXCEPT !.cursor = NextLandableAfter(c, c.cursor)] ELSE c

Forward(c) ==
    IF ControllerCanGoForward(c)
    THEN [c EXCEPT !.cursor = PrevLandableBefore(c, c.cursor)] ELSE c

(* The landed identity; none when the cursor rests on an unlandable anchor. *)
HasCurrent(c) ==
    /\ c.cursor \in 1..Len(c.order)
    /\ c.landable[c.cursor]

Current(c) == c.order[c.cursor]
=============================================================================
