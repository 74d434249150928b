----------------------------- MODULE TabStripPin -----------------------------
(***************************************************************************)
(* Pin/peek of the vertical tab strip in one window: the core state        *)
(* machine (tab_strip_pin_controller.cc), the views glue that holds the    *)
(* region view's locks (tab_strip_pin_controller_views.cc), the toggle     *)
(* command's gate (tab_strip_toggle_command.cc) and the placement menu.    *)
(*                                                                         *)
(* The region view reports every lock it registers or drops while it does  *)
(* so, so dropping a lock calls back into the core before the caller has   *)
(* finished; the operators on `ctl` below follow those nested calls.       *)
(***************************************************************************)
EXTENDS TabStripPlacement

CONSTANTS
    Stored,     \* values the placement preference may hold
    MaxLocks    \* keep-open locks other features may hold at a time

ASSUME TabStripPinAssumption ==
    /\ PositionFlag \in BOOLEAN /\ Stored \subseteq Int /\ MaxLocks \in Nat

VARIABLES
    ctl,        \* the controller and the glue, a record
    region,     \* region_view_ is attached
    external,   \* keep-open locks of others on the region view
    pointer,    \* the pointer is over the strip (IsMouseHovered)
    exitDue,    \* the pointer left; HandleMouseExited has not run yet
    focus,      \* the focused view is in the strip
    pageFocus,  \* WebContents::Focus was asked for and has not happened yet
    stored,     \* kTabStripPosition
    hover,      \* kVerticalTabsExpandOnHoverEnabled
    collapsed,  \* the persisted collapse state
    fullscreen, enabled, closed,
    input       \* what happened last

world == <<pointer, exitDue, focus, pageFocus>>
settings == <<stored, hover, fullscreen, closed>>
vars == <<ctl, region, external, world, settings, collapsed, enabled, input>>

CanToggleTabStrip(p) == GetTabStripPlacement(p) \in {kLeft, kRight}

UpdateCommandEnablement(p) == CanToggleTabStrip(p)
-----------------------------------------------------------------------------
Own(c) == IF c.keepLock THEN 1 ELSE 0

ExternalKeepOpenLockCount(c) == c.total - Own(c)

InUse(c, pointerIn, focusIn) ==
    pointerIn \/ focusIn \/ ExternalKeepOpenLockCount(c) > 0

(* The key handlers and the full-screen observation live as long as the pin. *)
InstallPinnedHandlers(c) == [c EXCEPT !.handlers = TRUE]
RemovePinnedHandlers(c) == [c EXCEPT !.handlers = FALSE]

(* MaybeUnpin when the keep-expanded lock is already gone: the nested call    *)
(* the region view makes while that very lock is dropped.                     *)
MaybeUnpinNested(c, pointerIn, focusIn) ==
    IF c.pinned /\ c.armed /\ ~InUse(c, pointerIn, focusIn)
    THEN [RemovePinnedHandlers(c) EXCEPT !.pinned = FALSE, !.armed = FALSE]
    ELSE c

(* keep_expanded_lock_.reset() clears the pointer first, then the lock's      *)
(* destructor reports; n is the number of other locks registered meanwhile.   *)
ReleaseKeepExpanded(c, n, pointerIn, focusIn) ==
    LET dropped == [c EXCEPT !.keepLock = FALSE, !.total = n]
        seen == IF c.keepLock THEN MaybeUnpinNested(dropped, pointerIn, focusIn) ELSE c
    IN  RemovePinnedHandlers(seen)

(* The D4 predicate. *)
UnpinsUnarmed(c, n, pointerIn, focusIn) ==
    IF c.pinned /\ ~InUse(c, pointerIn, focusIn)
    THEN [ReleaseKeepExpanded(c, n, pointerIn, focusIn)
            EXCEPT !.pinned = FALSE, !.armed = FALSE]
    ELSE c
MaybeUnpin(c, n, pointerIn, focusIn) ==
    IF c.pinned /\ c.armed /\ ~InUse(c, pointerIn, focusIn)
    THEN [ReleaseKeepExpanded(c, n, pointerIn, focusIn)
            EXCEPT !.pinned = FALSE, !.armed = FALSE]
    ELSE c

(* Dropping the suppression reports too, as a released lock. *)
ReleaseForceCollapse(c, n, pointerIn, focusIn) ==
    IF c.forceLock
    THEN MaybeUnpin([c EXCEPT !.forceLock = FALSE, !.total = n + Own(c)],
                    n, pointerIn, focusIn)
    ELSE c

OwnLockUnreported(c, n) == [c EXCEPT !.keepLock = TRUE, !.handlers = TRUE]
AcquireKeepExpanded(c, n) ==
    InstallPinnedHandlers([c EXCEPT !.keepLock = TRUE, !.total = n + 1])

AcquireForceCollapse(c, n) ==
    [c EXCEPT !.forceLock = TRUE, !.total = n + Own(c)]

ExplicitUnpin(c, n, pointerIn, focusIn) ==
    LET freed == [ReleaseKeepExpanded(c, n, pointerIn, focusIn)
                    EXCEPT !.pinned = FALSE, !.armed = FALSE]
    IN  IF pointerIn THEN AcquireForceCollapse([freed EXCEPT !.suppressing = TRUE], n)
                     ELSE freed

(* OnShortcut in pin/peek mode, the strip not pinned: an explicit pin ends a   *)
(* suppression.                                                                *)
Pin(c, n, pointerIn, focusIn) ==
    LET shown == IF c.suppressing
                 THEN ReleaseForceCollapse([c EXCEPT !.suppressing = FALSE],
                                           n, pointerIn, focusIn)
                 ELSE c
    IN  AcquireKeepExpanded([shown EXCEPT !.pinned = TRUE, !.armed = FALSE], n)

OnLifecycleReset(c, n, pointerIn, focusIn) ==
    LET unpinned == IF c.pinned THEN ReleaseKeepExpanded(c, n, pointerIn, focusIn) ELSE c
        shown == IF c.suppressing
                 THEN ReleaseForceCollapse(unpinned, n, pointerIn, focusIn)
                 ELSE unpinned
    IN  [shown EXCEPT !.pinned = FALSE, !.armed = FALSE, !.suppressing = FALSE]
-----------------------------------------------------------------------------
(* Focus goes to the strip at once, back to the page only later. *)
FocusStrip == focus' = TRUE /\ UNCHANGED pageFocus
ForceCollapseNow == pageFocus' = TRUE /\ UNCHANGED focus

(* OnToggleCommand, after the gate: hover mode decides what it means. *)
TogglePinPeek ==
    /\ region /\ CanToggleTabStrip(stored) /\ hover
    /\ IF ctl.pinned
       THEN /\ ctl' = ExplicitUnpin(ctl, external, pointer, focus)
            /\ ForceCollapseNow
       ELSE /\ ctl' = Pin(ctl, external, pointer, focus)
            /\ FocusStrip
    /\ input' = "shortcut"
    /\ UNCHANGED <<region, external, pointer, exitDue, settings, collapsed, enabled>>

TogglePlain ==
    /\ region /\ CanToggleTabStrip(stored) /\ ~hover
    /\ collapsed' = ~collapsed
    /\ input' = "world"
    /\ UNCHANGED <<ctl, region, external, world, settings, enabled>>

(* Esc in the strip pane, by the accelerator or the pre-target key handler. *)
OnEscInStrip ==
    /\ ctl.handlers /\ ctl.pinned /\ focus
    /\ ctl' = ExplicitUnpin(ctl, external, pointer, focus)
    /\ ForceCollapseNow
    /\ input' = "esc"
    /\ UNCHANGED <<region, external, pointer, exitDue, settings, collapsed, enabled>>

(* A tab press, a handled Enter, a strip control or a menu command. *)
OnCompletedInteraction ==
    /\ region
    /\ ctl' = IF ctl.pinned
              THEN MaybeUnpin([ctl EXCEPT !.armed = TRUE], external, pointer, focus)
              ELSE ctl
    /\ input' = "interaction"
    /\ UNCHANGED <<region, external, world, settings, collapsed, enabled>>

PointerEnters ==
    /\ ~pointer /\ pointer' = TRUE
    /\ input' = "world"
    /\ UNCHANGED <<ctl, region, external, exitDue, focus, pageFocus, settings,
                   collapsed, enabled>>

PointerLeaves ==
    /\ pointer /\ pointer' = FALSE /\ exitDue' = TRUE
    /\ input' = "world"
    /\ UNCHANGED <<ctl, region, external, focus, pageFocus, settings, collapsed, enabled>>

(* The exit is reported; the suppression ends first. *)
EndsNothing(c, n, pointerIn, focusIn) == MaybeUnpin(c, n, pointerIn, focusIn)
OnPointerExit(c, n, pointerIn, focusIn) ==
    LET shown == IF c.suppressing
                 THEN ReleaseForceCollapse([c EXCEPT !.suppressing = FALSE],
                                           n, pointerIn, focusIn)
                 ELSE c
    IN  MaybeUnpin(shown, n, pointerIn, focusIn)

HandleMouseExited ==
    /\ exitDue /\ exitDue' = FALSE
    /\ ctl' = IF region THEN OnPointerExit(ctl, external, pointer, focus) ELSE ctl
    /\ input' = "exit"
    /\ UNCHANGED <<region, external, pointer, focus, pageFocus, settings, collapsed, enabled>>

(* Focus moves to f: what the strip's focus listener reports. *)
OnFocusChanged(f) ==
    /\ focus' = f
    /\ ctl' = IF region /\ f # focus THEN MaybeUnpin(ctl, external, pointer, f) ELSE ctl
    /\ input' = "world"
    /\ UNCHANGED <<region, external, pointer, exitDue, settings, collapsed, enabled>>

UserMovesFocus == region /\ OnFocusChanged(~focus) /\ UNCHANGED pageFocus

PageTakesFocus == pageFocus /\ OnFocusChanged(FALSE) /\ pageFocus' = FALSE

(* Somebody else registers a keep-open lock. *)
ExternalLock ==
    /\ region /\ external < MaxLocks
    /\ external' = external + 1
    /\ ctl' = [ctl EXCEPT !.total = external + 1 + Own(ctl)]
    /\ input' = "world"
    /\ UNCHANGED <<region, world, settings, collapsed, enabled>>

(* A lock of somebody else goes.  It is reported before it is taken off the     *)
(* region's count, so a pin that dissolves here drops its own lock while the     *)
(* other one is still counted.                                                   *)
OnRoamuxKeepOpenLocksChanged(c, n, pointerIn, focusIn) ==
    MaybeUnpin([c EXCEPT !.total = n - 1 + Own(c)], n, pointerIn, focusIn)

ExternalUnlock ==
    /\ region /\ external > 0
    /\ external' = external - 1
    /\ ctl' = OnRoamuxKeepOpenLocksChanged(ctl, external, pointer, focus)
    /\ input' = "world"
    /\ UNCHANGED <<region, world, settings, collapsed, enabled>>
-----------------------------------------------------------------------------
(* OnModeRelevantPrefChanged: leave the strip, reset, refresh the command.      *)
(* Clearing the focus is reported like any other move of it.                    *)
OnModeRelevantPrefChanged ==
    LET out == IF focus THEN MaybeUnpin(ctl, external, pointer, FALSE) ELSE ctl
    IN  /\ ctl' = OnLifecycleReset(out, external, pointer, FALSE)
        /\ focus' = FALSE
        /\ input' = "setting"
        /\ UNCHANGED <<region, external, pointer, exitDue, pageFocus, fullscreen, closed,
                       collapsed>>

(* A radio item of the position menu; choosing the stored value is no change. *)
SetTabStripPlacement(p) ==
    /\ p \in kTop..kRight /\ p # stored
    /\ OnModeRelevantPrefChanged
    /\ stored' = p
    /\ enabled' = UpdateCommandEnablement(p)
    /\ UNCHANGED hover

FlipHoverSetting ==
    /\ OnModeRelevantPrefChanged
    /\ hover' = ~hover
    /\ enabled' = UpdateCommandEnablement(stored)
    /\ UNCHANGED stored

(* Full screen is observed only while pinned. *)
OnFullscreenStateChanged ==
    /\ ~closed
    /\ fullscreen' = ~fullscreen
    /\ ctl' = IF ctl.handlers THEN OnLifecycleReset(ctl, external, pointer, focus) ELSE ctl
    /\ input' = "setting"
    /\ UNCHANGED <<region, external, world, stored, hover, closed, collapsed, enabled>>

AttachRegionView ==
    /\ ~region /\ ~closed
    /\ region' = TRUE /\ external' = 0
    /\ enabled' = UpdateCommandEnablement(stored)
    /\ input' = "setting"
    /\ UNCHANGED <<ctl, world, settings, collapsed>>

(* The locks of others die with the region view, unreported. *)
DetachRegionView(c) ==
    OnLifecycleReset(RemovePinnedHandlers(c), external, pointer, focus)

RegionDestroyed ==
    /\ region
    /\ ctl' = DetachRegionView(ctl)
    /\ region' = FALSE /\ external' = 0 /\ focus' = FALSE
    /\ input' = "setting"
    /\ UNCHANGED <<pointer, exitDue, pageFocus, settings, collapsed, enabled>>

(* BrowserDidClose detaches too, whether or not a region view is left. *)
BrowserDidClose ==
    /\ ~closed /\ closed' = TRUE
    /\ ctl' = IF region THEN DetachRegionView(ctl) ELSE ctl
    /\ region' = FALSE /\ external' = 0 /\ focus' = FALSE
    /\ input' = "setting"
    /\ UNCHANGED <<pointer, exitDue, pageFocus, stored, hover, fullscreen, collapsed, enabled>>

Init ==
    /\ ctl = [pinned |-> FALSE, armed |-> FALSE, suppressing |-> FALSE, keepLock |-> FALSE,
              forceLock |-> FALSE, handlers |-> FALSE, total |-> 0]
    /\ region = FALSE /\ external = 0
    /\ pointer \in BOOLEAN /\ exitDue = FALSE
    /\ focus = FALSE /\ pageFocus = FALSE
    /\ stored \in Stored /\ hover \in BOOLEAN /\ collapsed \in BOOLEAN
    /\ fullscreen = FALSE /\ enabled = FALSE /\ closed = FALSE
    /\ input = "none"

Next ==
    \/ TogglePinPeek \/ TogglePlain \/ OnEscInStrip \/ OnCompletedInteraction
    \/ PointerEnters \/ PointerLeaves \/ HandleMouseExited
    \/ UserMovesFocus \/ PageTakesFocus
    \/ ExternalLock \/ ExternalUnlock
    \/ \E p \in kTop..kRight : SetTabStripPlacement(p)
    \/ FlipHoverSetting \/ OnFullscreenStateChanged
    \/ AttachRegionView \/ RegionDestroyed \/ BrowserDidClose

Spec == Init /\ [][Next]_vars
-----------------------------------------------------------------------------
(* Every variable has its type. *)
TypeOK ==
    /\ ctl \in [pinned : BOOLEAN, armed : BOOLEAN, suppressing : BOOLEAN,
                keepLock : BOOLEAN, forceLock : BOOLEAN, handlers : BOOLEAN, total : Nat]
    /\ external \in 0..MaxLocks
    /\ region \in BOOLEAN /\ pointer \in BOOLEAN /\ exitDue \in BOOLEAN
    /\ focus \in BOOLEAN /\ pageFocus \in BOOLEAN /\ hover \in BOOLEAN
    /\ collapsed \in BOOLEAN /\ fullscreen \in BOOLEAN
    /\ enabled \in BOOLEAN /\ closed \in BOOLEAN
    /\ stored \in Stored \cup kTop..kRight
    /\ input \in {"none", "shortcut", "esc", "interaction", "exit", "world", "setting"}

(* The core and the glue agree although dropping a lock re-enters the core: the *)
(* keep-expanded lock and the key handlers live exactly as long as the pin, the  *)
(* force-collapse lock exactly as long as the suppression, and a strip is never  *)
(* pinned and suppressed at once.                                                *)
LocksMatchCore ==
    /\ ctl.keepLock <=> ctl.pinned
    /\ ctl.handlers <=> ctl.pinned
    /\ ctl.forceLock <=> ctl.suppressing
    /\ ~(ctl.pinned /\ ctl.suppressing)
    /\ ctl.armed => ctl.pinned

(* total_keep_open_locks_ goes stale when a pin dissolves inside the report of   *)
(* another lock and when a region view dies with locks on it; while the strip is *)
(* pinned, the only time it is read, it still counts the others exactly.         *)
CountExactWhilePinned ==
    ctl.pinned => ExternalKeepOpenLockCount(ctl) = external

(* A pin or a suppression lives only on an attached region view of a vertical    *)
(* strip in hover mode: neither outlives a placement change, the hover setting   *)
(* or the view it holds a lock on.                                               *)
PinNeedsAStrip ==
    ctl.pinned \/ ctl.suppressing => region /\ hover /\ CanToggleTabStrip(stored)

(* D4, "the strip unpins when the predicate first holds": no armed pin is left   *)
(* on an abandoned strip, once the pointer's exit has been reported.             *)
NoAbandonedPin ==
    ctl.pinned /\ ctl.armed => pointer \/ exitDue \/ focus \/ external > 0

(* A suppression is only ever held while a pointer exit is still to come, so     *)
(* hovering cannot stay dead for good.                                           *)
SuppressionWillEnd == ctl.suppressing => pointer \/ exitDue

(* The command's enabled bit is what its gate says as long as there is a strip.  *)
CommandBitFresh == region => enabled = CanToggleTabStrip(stored)

(* The strip as its user sees it. *)
PinMode == IF ctl.suppressing THEN "suppressed"
           ELSE IF ~ctl.pinned THEN "free"
           ELSE IF ctl.armed THEN "armed" ELSE "pinned"

Contract == INSTANCE PinPeek WITH mode <- PinMode, inside <- pointer,
    held <- (focus \/ external > 0), setting <- <<settings, region>>

(* Locks, nested reports and late events included, the strip does what the       *)
(* contract of pinning promises.                                                 *)
ImplementsPinPeek == Contract!Spec

(* The strip lets go: every pin that should end and every suppression has an      *)
(* event still to come that ends it.                                              *)
StripLetsGo == NoAbandonedPin /\ SuppressionWillEnd

(* The core, its locks and its count, the strip they need and the command's bit   *)
(* agree between any two events.                                                  *)
StripInv ==
    /\ TypeOK
    /\ LocksMatchCore
    /\ CountExactWhilePinned
    /\ PinNeedsAStrip
    /\ CommandBitFresh
=============================================================================
