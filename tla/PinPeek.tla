------------------------------ MODULE PinPeek -------------------------------
(***************************************************************************)
(* What pinning the vertical tab strip promises (the contract above class  *)
(* TabStripPinController): the shortcut toggles the pin; a completed       *)
(* interaction arms the retraction; a pin goes away only because the user  *)
(* unpins it, because it is armed and nobody uses the strip any more, or   *)
(* because the strip itself changes; unpinning under the pointer           *)
(* suppresses the hover reveal until the pointer leaves.                   *)
(***************************************************************************)
VARIABLES
    mode,     \* what the strip does for the user
    input,    \* what happened last
    inside,   \* the pointer is over the strip
    held,     \* focus is in the strip, or somebody else keeps it open
    setting   \* placement, hover mode, full screen, the strip's existence

vars == <<mode, input, inside, held, setting>>

Pinned == mode \in {"pinned", "armed"}

Unpinned == mode' = IF inside THEN "suppressed" ELSE "free"

Shortcut ==
    /\ input' = "shortcut"
    /\ IF Pinned THEN Unpinned ELSE mode' = "pinned"
    /\ UNCHANGED <<inside, setting>>

Esc ==
    /\ input' = "esc" /\ Pinned /\ Unpinned
    /\ UNCHANGED <<inside, held, setting>>

Interaction ==
    /\ input' = "interaction"
    /\ mode' = IF ~Pinned THEN mode ELSE IF inside \/ held THEN "armed" ELSE "free"
    /\ UNCHANGED <<inside, held, setting>>

(* Pointer, focus and other lock holders move as they like: an armed pin may   *)
(* go only once nobody uses the strip, a suppression only when an exit is seen. *)
World ==
    /\ input' \in {"exit", "world"}
    /\ \/ mode' = mode
       \/ mode = "armed" /\ ~inside' /\ ~held' /\ mode' = "free"
       \/ mode = "suppressed" /\ input' = "exit" /\ mode' = "free"
    /\ UNCHANGED setting

(* A suppression may outlive a change of full screen. *)
Change ==
    /\ input' = "setting" /\ setting' # setting
    /\ mode' = "free" \/ (mode = "suppressed" /\ mode' = mode)
    /\ UNCHANGED inside

Init == mode = "free"

Spec == Init /\ [][Shortcut \/ Esc \/ Interaction \/ World \/ Change]_vars
=============================================================================
