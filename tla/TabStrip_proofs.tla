--------------------------- MODULE TabStrip_proofs ---------------------------
(***************************************************************************)
(* Two parts of the tab strip.  The pin/peek controller keeps its locks,   *)
(* its count and its contract for every number of other lock holders, and  *)
(* the placement functions are what they claim for every stored value and  *)
(* every rectangle.  The tab groups of a window stay whole stretches of    *)
(* the strip, a bulk open is consented to, and a double click on a header  *)
(* brings every group to the state the first click found, for every        *)
(* bookmark folder, every set of groups and every length of the strip.     *)
(***************************************************************************)
EXTENDS TabStripPin, TabGroups, FiniteSetTheorems, WellFoundedInduction, TLAPS

-----------------------------------------------------------------------------
(* The pin/peek controller and the placement functions. *)
IInv ==
    /\ TypeOK
    /\ LocksMatchCore
    /\ CountExactWhilePinned
    /\ PinNeedsAStrip
    /\ NoAbandonedPin
    /\ SuppressionWillEnd
    /\ CommandBitFresh

(* The band and what stays above it tile the client area, whatever height the  *)
(* strip asks for (ComputeBottomStripLayout).                                  *)
THEOREM BottomStripTiles ==
    ASSUME NEW y \in Int, NEW h \in Nat, NEW want \in Int
    PROVE  LET l == ComputeBottomStripLayout(y, h, want)
           IN  /\ l.remaining.top = y
               /\ l.remaining.height >= 0 /\ l.strip.height >= 0
               /\ l.strip.top = l.remaining.top + l.remaining.height
               /\ l.strip.top + l.strip.height = y + h
               /\ want >= 0 /\ want <= h => l.strip.height = want
  BY DEF ComputeBottomStripLayout, Clamp

(* A vertical strip docks on exactly one side, and the logical side swaps with *)
(* the direction of the UI exactly when there is one to swap.                  *)
THEOREM DockSidesExclude ==
    ASSUME NEW p \in Int, NEW rtl \in BOOLEAN
    PROVE  /\ ShouldDisplayVerticalTabsForPlacement(p)
                <=> (ShouldDockVerticalTabStripLeft(p) \/ ShouldDockVerticalTabStripRight(p))
           /\ ~(ShouldDockVerticalTabStripLeft(p) /\ ShouldDockVerticalTabStripRight(p))
           /\ ShouldDisplayVerticalTabsForPlacement(p)
                <=> (IsVerticalTabStripOnLogicalTrailingEdge(p, rtl)
                       # IsVerticalTabStripOnLogicalTrailingEdge(p, ~rtl))
  BY DEF ShouldDisplayVerticalTabsForPlacement, ShouldDockVerticalTabStripLeft,
         ShouldDockVerticalTabStripRight, IsVerticalTabStripOnLogicalTrailingEdge,
         GetTabStripPlacement, kTop, kBottom, kLeft, kRight
-----------------------------------------------------------------------------
Ctl == [pinned : BOOLEAN, armed : BOOLEAN, suppressing : BOOLEAN,
        keepLock : BOOLEAN, forceLock : BOOLEAN, handlers : BOOLEAN, total : Nat]

(* What LocksMatchCore says of one controller record. *)
Locked(c) ==
    /\ (c.keepLock <=> c.pinned) /\ (c.handlers <=> c.pinned)
    /\ (c.forceLock <=> c.suppressing)
    /\ ~(c.pinned /\ c.suppressing)
    /\ c.armed => c.pinned

(* What the release of the keep-expanded lock leaves, however the nested report  *)
(* went.                                                                          *)
LEMMA ReleaseFrees ==
    ASSUME NEW c \in Ctl, NEW n \in Nat, NEW p \in BOOLEAN, NEW f \in BOOLEAN
    PROVE  LET r == ReleaseKeepExpanded(c, n, p, f)
           IN  /\ r \in Ctl /\ ~r.handlers /\ ~r.keepLock
               /\ (r.suppressing <=> c.suppressing) /\ (r.forceLock <=> c.forceLock)
  BY DEF Ctl, ReleaseKeepExpanded, MaybeUnpinNested, InUse, RemovePinnedHandlers

(* The predicate unpin: all or nothing. *)
LEMMA MaybeUnpinWorks ==
    ASSUME NEW c \in Ctl, NEW n \in Nat, NEW p \in BOOLEAN, NEW f \in BOOLEAN, Locked(c)
    PROVE  LET r == MaybeUnpin(c, n, p, f)
           IN  /\ r \in Ctl /\ Locked(r) /\ (r.suppressing <=> c.suppressing)
               /\ c.pinned /\ c.armed /\ ~InUse(c, p, f) => ~r.pinned
               /\ ~(c.pinned /\ c.armed /\ ~InUse(c, p, f)) => r = c
  <1> DEFINE k == ReleaseKeepExpanded(c, n, p, f)
  <1>1. /\ k \in Ctl /\ ~k.handlers /\ ~k.keepLock
        /\ (k.suppressing <=> c.suppressing) /\ (k.forceLock <=> c.forceLock)
    BY ReleaseFrees
  <1> HIDE DEF k
  <1>2. CASE c.pinned /\ c.armed /\ ~InUse(c, p, f)
    <2>1. MaybeUnpin(c, n, p, f) = [k EXCEPT !.pinned = FALSE, !.armed = FALSE]
      BY <1>2 DEF MaybeUnpin, k
    <2>2. QED  BY <1>1, <1>2, <2>1 DEF Ctl, Locked
  <1>3. CASE ~(c.pinned /\ c.armed /\ ~InUse(c, p, f))
    BY <1>3 DEF MaybeUnpin, Locked
  <1>4. QED  BY <1>2, <1>3

(* Dropping the suppression of a strip that is not pinned touches nothing else. *)
LEMMA ForceReleaseWorks ==
    ASSUME NEW c \in Ctl, NEW n \in Nat, NEW p \in BOOLEAN, NEW f \in BOOLEAN,
           ~c.pinned
    PROVE  LET r == ReleaseForceCollapse(c, n, p, f)
           IN  /\ r \in Ctl /\ ~r.forceLock /\ ~r.pinned
               /\ (r.suppressing <=> c.suppressing) /\ (r.armed <=> c.armed)
               /\ (r.keepLock <=> c.keepLock) /\ (r.handlers <=> c.handlers)
  <1>1. n + Own(c) \in Nat
    BY DEF Own
  <1> DEFINE d == [c EXCEPT !.forceLock = FALSE, !.total = n + Own(c)]
  <1>2. /\ d \in Ctl /\ ~d.forceLock /\ ~d.pinned
        /\ (d.suppressing <=> c.suppressing) /\ (d.armed <=> c.armed)
        /\ (d.keepLock <=> c.keepLock) /\ (d.handlers <=> c.handlers)
    BY <1>1 DEF Ctl
  <1>3. MaybeUnpin(d, n, p, f) = d
    BY <1>2 DEF MaybeUnpin
  <1>4. ReleaseForceCollapse(c, n, p, f) = IF c.forceLock THEN d ELSE c
    BY <1>3 DEF ReleaseForceCollapse
  <1> HIDE DEF d
  <1>5. QED  BY <1>2, <1>4 DEF Ctl

LEMMA ExplicitUnpinWorks ==
    ASSUME NEW c \in Ctl, NEW n \in Nat, NEW p \in BOOLEAN, NEW f \in BOOLEAN,
           Locked(c), c.pinned
    PROVE  LET r == ExplicitUnpin(c, n, p, f)
           IN  r \in Ctl /\ Locked(r) /\ ~r.pinned /\ (r.suppressing <=> p)
  <1> DEFINE k == ReleaseKeepExpanded(c, n, p, f)
  <1>1. /\ k \in Ctl /\ ~k.handlers /\ ~k.keepLock
        /\ (k.suppressing <=> c.suppressing) /\ (k.forceLock <=> c.forceLock)
    BY ReleaseFrees
  <1> HIDE DEF k
  <1> DEFINE u == [k EXCEPT !.pinned = FALSE, !.armed = FALSE]
  <1>2. /\ u \in Ctl /\ ~u.handlers /\ ~u.keepLock /\ ~u.pinned /\ ~u.armed
        /\ ~u.suppressing /\ ~u.forceLock
    BY <1>1 DEF Ctl, Locked
  <1>3. ExplicitUnpin(c, n, p, f)
          = IF p THEN AcquireForceCollapse([u EXCEPT !.suppressing = TRUE], n) ELSE u
    BY DEF ExplicitUnpin, k
  <1> HIDE DEF u
  <1> DEFINE w == [u EXCEPT !.suppressing = TRUE]
             v == AcquireForceCollapse(w, n)
  <1>4. w \in Ctl /\ ~w.handlers /\ ~w.keepLock /\ ~w.pinned /\ ~w.armed /\ w.suppressing
    BY <1>2 DEF Ctl
  <1>5. n + Own(w) \in Nat
    BY DEF Own
  <1> HIDE DEF w
  <1>6. v \in Ctl /\ Locked(v) /\ ~v.pinned /\ v.suppressing
    BY <1>4, <1>5 DEF Ctl, Locked, AcquireForceCollapse
  <1> HIDE DEF v
  <1>7. CASE p
    BY <1>3, <1>6, <1>7 DEF v, w
  <1>8. CASE ~p
    BY <1>2, <1>3, <1>8 DEF Locked
  <1>9. QED  BY <1>7, <1>8

LEMMA PinWorks ==
    ASSUME NEW c \in Ctl, NEW n \in Nat, NEW p \in BOOLEAN, NEW f \in BOOLEAN,
           Locked(c), ~c.pinned
    PROVE  LET r == Pin(c, n, p, f)
           IN  /\ r \in Ctl /\ Locked(r) /\ r.pinned /\ ~r.armed /\ ~r.suppressing
               /\ ExternalKeepOpenLockCount(r) = n
  <1> DEFINE d == [c EXCEPT !.suppressing = FALSE]
             k == IF c.suppressing THEN ReleaseForceCollapse(d, n, p, f) ELSE c
  <1>1. d \in Ctl /\ ~d.pinned /\ ~d.suppressing /\ ~d.armed
    BY DEF Ctl, Locked
  <1>2. k \in Ctl /\ ~k.forceLock /\ ~k.suppressing
    <2> HIDE DEF d
    <2>1. CASE c.suppressing
      <3>1. /\ ReleaseForceCollapse(d, n, p, f) \in Ctl
            /\ ~ReleaseForceCollapse(d, n, p, f).forceLock
            /\ (ReleaseForceCollapse(d, n, p, f).suppressing <=> d.suppressing)
        BY <1>1, ForceReleaseWorks
      <3>2. QED  BY <1>1, <2>1, <3>1
    <2>2. CASE ~c.suppressing
      BY <2>2 DEF Locked
    <2>3. QED  BY <2>1, <2>2
  <1>3. Pin(c, n, p, f)
          = AcquireKeepExpanded([k EXCEPT !.pinned = TRUE, !.armed = FALSE], n)
    BY DEF Pin
  <1> HIDE DEF k
  <1> DEFINE j == [k EXCEPT !.pinned = TRUE, !.armed = FALSE]
             r == AcquireKeepExpanded(j, n)
  <1>4. j \in Ctl /\ j.pinned /\ ~j.armed /\ ~j.forceLock /\ ~j.suppressing
    BY <1>2 DEF Ctl
  <1> HIDE DEF j
  <1>5. /\ r \in Ctl /\ r.pinned /\ ~r.armed /\ ~r.forceLock /\ ~r.suppressing
        /\ r.keepLock /\ r.handlers /\ r.total = n + 1
    <2>1. n + 1 \in Nat
      OBVIOUS
    <2>2. r = [j EXCEPT !.keepLock = TRUE, !.total = n + 1, !.handlers = TRUE]
      BY DEF AcquireKeepExpanded, InstallPinnedHandlers
    <2> HIDE DEF r
    <2>3. QED  BY <1>4, <2>1, <2>2 DEF Ctl
  <1> HIDE DEF r
  <1>6. Locked(r) /\ ExternalKeepOpenLockCount(r) = n
    BY <1>5 DEF Ctl, Locked, ExternalKeepOpenLockCount, Own
  <1>7. QED  BY <1>3, <1>5, <1>6 DEF r, j

(* A reset ends in the free state; the handlers may have been removed before. *)
LEMMA ResetWorks ==
    ASSUME NEW c \in Ctl, NEW n \in Nat, NEW p \in BOOLEAN, NEW f \in BOOLEAN,
           (c.keepLock <=> c.pinned), c.handlers => c.pinned,
           (c.forceLock <=> c.suppressing), ~(c.pinned /\ c.suppressing)
    PROVE  LET r == OnLifecycleReset(c, n, p, f)
           IN  r \in Ctl /\ Locked(r) /\ ~r.pinned /\ ~r.suppressing
  <1> DEFINE u == IF c.pinned THEN ReleaseKeepExpanded(c, n, p, f) ELSE c
             v == IF c.suppressing THEN ReleaseForceCollapse(u, n, p, f) ELSE u
  <1>1. /\ u \in Ctl /\ ~u.handlers /\ ~u.keepLock
        /\ (u.suppressing <=> c.suppressing) /\ (u.forceLock <=> c.forceLock)
        /\ c.suppressing => ~u.pinned
    BY ReleaseFrees
  <1> HIDE DEF u
  <1>2. v \in Ctl /\ ~v.handlers /\ ~v.keepLock /\ ~v.forceLock
    BY <1>1, ForceReleaseWorks
  <1>3. OnLifecycleReset(c, n, p, f)
          = [v EXCEPT !.pinned = FALSE, !.armed = FALSE, !.suppressing = FALSE]
    BY DEF OnLifecycleReset, u
  <1> HIDE DEF v
  <1>4. QED  BY <1>2, <1>3 DEF Ctl, Locked

LEMMA ExitWorks ==
    ASSUME NEW c \in Ctl, NEW n \in Nat, NEW p \in BOOLEAN, NEW f \in BOOLEAN, Locked(c)
    PROVE  LET r == OnPointerExit(c, n, p, f)
           IN  /\ r \in Ctl /\ Locked(r) /\ ~r.suppressing
               /\ c.suppressing => ~r.pinned
               /\ ~c.suppressing => r = MaybeUnpin(c, n, p, f)
  <1> DEFINE d == [c EXCEPT !.suppressing = FALSE]
             k == IF c.suppressing THEN ReleaseForceCollapse(d, n, p, f) ELSE c
  <1>1. d \in Ctl /\ ~d.suppressing /\ (c.suppressing => ~d.pinned /\ ~d.armed
                                        /\ ~d.keepLock /\ ~d.handlers)
    BY DEF Ctl, Locked
  <1>2. k \in Ctl /\ Locked(k) /\ ~k.suppressing /\ (c.suppressing => ~k.pinned)
    <2> HIDE DEF d
    <2>1. CASE c.suppressing
      <3> DEFINE q == ReleaseForceCollapse(d, n, p, f)
      <3>1. /\ q \in Ctl /\ ~q.forceLock /\ ~q.pinned
            /\ (q.suppressing <=> d.suppressing) /\ (q.armed <=> d.armed)
            /\ (q.keepLock <=> d.keepLock) /\ (q.handlers <=> d.handlers)
        BY <1>1, <2>1, ForceReleaseWorks
      <3>2. k = q
        BY <2>1
      <3> HIDE DEF q, k
      <3>3. QED  BY <1>1, <2>1, <3>1, <3>2 DEF Locked
    <2>2. CASE ~c.suppressing
      BY <2>2
    <2>3. QED  BY <2>1, <2>2
  <1>3. OnPointerExit(c, n, p, f) = MaybeUnpin(k, n, p, f)
    BY DEF OnPointerExit
  <1>4. ~c.suppressing => k = c
    OBVIOUS
  <1> HIDE DEF k
  <1>5. QED  BY <1>2, <1>3, <1>4, MaybeUnpinWorks DEF Locked
-----------------------------------------------------------------------------
LEMMA InitIInv == Init => IInv
  <1> SUFFICES ASSUME Init  PROVE IInv
    OBVIOUS
  <1>1. ctl \in Ctl /\ Locked(ctl) /\ ~ctl.pinned /\ ~ctl.suppressing
    BY DEF Init, Ctl, Locked
  <1>2. TypeOK
    <2>1. external \in 0..MaxLocks /\ stored \in Stored \cup kTop..kRight
      BY TabStripPinAssumption DEF Init
    <2>2. /\ region \in BOOLEAN /\ pointer \in BOOLEAN /\ exitDue \in BOOLEAN
          /\ focus \in BOOLEAN /\ pageFocus \in BOOLEAN /\ hover \in BOOLEAN
          /\ collapsed \in BOOLEAN /\ fullscreen \in BOOLEAN
          /\ enabled \in BOOLEAN /\ closed \in BOOLEAN
      BY DEF Init
    <2>3. input \in {"none", "shortcut", "esc", "interaction", "exit", "world", "setting"}
      BY DEF Init
    <2>4. QED  BY <1>1, <2>1, <2>2, <2>3 DEF TypeOK, Ctl
  <1>3. QED
    BY <1>1, <1>2 DEF Init, IInv, Locked, LocksMatchCore, CountExactWhilePinned,
       PinNeedsAStrip, NoAbandonedPin, SuppressionWillEnd, CommandBitFresh

LEMMA NextIInv == IInv /\ [Next]_vars => IInv'
  <1> SUFFICES ASSUME IInv, [Next]_vars  PROVE IInv'
    OBVIOUS
  <1>0. /\ ctl \in Ctl /\ Locked(ctl) /\ external \in Nat /\ MaxLocks \in Nat
        /\ pointer \in BOOLEAN /\ focus \in BOOLEAN
        /\ ctl.pinned => ExternalKeepOpenLockCount(ctl) = external
    BY TabStripPinAssumption DEF IInv, TypeOK, Ctl, Locked, LocksMatchCore,
       CountExactWhilePinned
  <1> USE TabStripPinAssumption DEF IInv, TypeOK, Ctl, Locked, LocksMatchCore,
        CountExactWhilePinned, PinNeedsAStrip, NoAbandonedPin, SuppressionWillEnd,
        CommandBitFresh, UpdateCommandEnablement, world, settings
  <1>1. CASE TogglePinPeek
    <2>1. CASE ctl.pinned
      <3> DEFINE r == ExplicitUnpin(ctl, external, pointer, focus)
      <3>1. r \in Ctl /\ Locked(r) /\ ~r.pinned /\ (r.suppressing <=> pointer)
        BY <1>0, <2>1, ExplicitUnpinWorks
      <3>2. ctl' = r
        BY <1>1, <2>1 DEF TogglePinPeek, FocusStrip, ForceCollapseNow
      <3> HIDE DEF r
      <3>3. QED  BY <1>1, <2>1, <3>1, <3>2 DEF TogglePinPeek, FocusStrip, ForceCollapseNow
    <2>2. CASE ~ctl.pinned
      <3> DEFINE r == Pin(ctl, external, pointer, focus)
      <3>1. /\ r \in Ctl /\ Locked(r) /\ r.pinned /\ ~r.armed /\ ~r.suppressing
            /\ ExternalKeepOpenLockCount(r) = external
        BY <1>0, <2>2, PinWorks
      <3>2. ctl' = r
        BY <1>1, <2>2 DEF TogglePinPeek, FocusStrip, ForceCollapseNow
      <3> HIDE DEF r
      <3>3. QED  BY <1>1, <2>2, <3>1, <3>2 DEF TogglePinPeek, FocusStrip, ForceCollapseNow
    <2>3. QED  BY <2>1, <2>2
  <1>2. CASE TogglePlain
    BY <1>2 DEF TogglePlain
  <1>3. CASE OnEscInStrip
    <2> DEFINE r == ExplicitUnpin(ctl, external, pointer, focus)
    <2>1. r \in Ctl /\ Locked(r) /\ ~r.pinned /\ (r.suppressing <=> pointer)
      BY <1>0, <1>3, ExplicitUnpinWorks DEF OnEscInStrip, ForceCollapseNow
    <2>2. ctl' = r
      BY <1>3 DEF OnEscInStrip, ForceCollapseNow
    <2> HIDE DEF r
    <2>3. QED  BY <1>3, <2>1, <2>2 DEF OnEscInStrip, ForceCollapseNow
  <1>4. CASE OnCompletedInteraction
    <2> DEFINE a == [ctl EXCEPT !.armed = TRUE]
               r == MaybeUnpin(a, external, pointer, focus)
    <2>1. CASE ctl.pinned
      <3>1. a \in Ctl /\ Locked(a) /\ a.pinned /\ a.armed
            /\ ExternalKeepOpenLockCount(a) = external
        BY <1>0, <2>1 DEF ExternalKeepOpenLockCount, Own
      <3> HIDE DEF a
      <3>2. /\ r \in Ctl /\ Locked(r) /\ (r.suppressing <=> a.suppressing)
            /\ ~InUse(a, pointer, focus) => ~r.pinned
            /\ InUse(a, pointer, focus) => r = a
        BY <1>0, <3>1, MaybeUnpinWorks
      <3>3. ctl' = r
        BY <1>4, <2>1 DEF OnCompletedInteraction, a
      <3> HIDE DEF r
      <3>4. QED  BY <1>0, <1>4, <2>1, <3>1, <3>2, <3>3 DEF OnCompletedInteraction, InUse
    <2>2. CASE ~ctl.pinned
      BY <1>4, <2>2 DEF OnCompletedInteraction
    <2>3. QED  BY <2>1, <2>2
  <1>5. CASE PointerEnters
    BY <1>5 DEF PointerEnters
  <1>6. CASE PointerLeaves
    BY <1>6 DEF PointerLeaves
  <1>7. CASE HandleMouseExited
    <2> DEFINE m == MaybeUnpin(ctl, external, pointer, focus)
               r == OnPointerExit(ctl, external, pointer, focus)
    <2>1. CASE region
      <3>1. /\ r \in Ctl /\ Locked(r) /\ ~r.suppressing
            /\ ctl.suppressing => ~r.pinned
            /\ ~ctl.suppressing => r = m
        BY <1>0, ExitWorks
      <3>2. /\ ctl.pinned /\ ctl.armed /\ ~InUse(ctl, pointer, focus) => ~m.pinned
            /\ ~(ctl.pinned /\ ctl.armed /\ ~InUse(ctl, pointer, focus)) => m = ctl
        BY <1>0, MaybeUnpinWorks
      <3>3. ctl' = r
        BY <1>7, <2>1 DEF HandleMouseExited
      <3> HIDE DEF r, m
      <3>4. QED  BY <1>0, <1>7, <2>1, <3>1, <3>2, <3>3 DEF HandleMouseExited, InUse
    <2>2. CASE ~region
      BY <1>7, <2>2 DEF HandleMouseExited
    <2>3. QED  BY <2>1, <2>2
  <1>8. ASSUME NEW f \in BOOLEAN, OnFocusChanged(f), pageFocus' \in BOOLEAN
        PROVE  IInv'
    <2> DEFINE m == MaybeUnpin(ctl, external, pointer, f)
    <2>1. CASE region /\ f # focus
      <3>1. /\ m \in Ctl /\ Locked(m) /\ (m.suppressing <=> ctl.suppressing)
            /\ ctl.pinned /\ ctl.armed /\ ~InUse(ctl, pointer, f) => ~m.pinned
            /\ ~(ctl.pinned /\ ctl.armed /\ ~InUse(ctl, pointer, f)) => m = ctl
        BY <1>0, MaybeUnpinWorks
      <3>2. ctl' = m
        BY <1>8, <2>1 DEF OnFocusChanged
      <3> HIDE DEF m
      <3>3. QED  BY <1>0, <1>8, <2>1, <3>1, <3>2 DEF OnFocusChanged, InUse
    <2>2. CASE ~(region /\ f # focus)
      BY <1>8, <2>2 DEF OnFocusChanged
    <2>3. QED  BY <2>1, <2>2
  <1>9. CASE UserMovesFocus
    BY <1>0, <1>8, <1>9 DEF UserMovesFocus
  <1>10. CASE PageTakesFocus
    BY <1>8, <1>10 DEF PageTakesFocus
  <1>11. CASE ExternalLock
    <2>1. external + 1 \in 0..MaxLocks /\ external + 1 + Own(ctl) \in Nat
      BY <1>0, <1>11 DEF ExternalLock, Own
    <2>2. /\ ctl' \in Ctl /\ Locked(ctl') /\ (ctl'.pinned <=> ctl.pinned)
          /\ (ctl'.armed <=> ctl.armed) /\ (ctl'.suppressing <=> ctl.suppressing)
          /\ (ctl'.keepLock <=> ctl.keepLock) /\ ctl'.total = external + 1 + Own(ctl)
      BY <1>0, <1>11, <2>1 DEF ExternalLock
    <2>3. ExternalKeepOpenLockCount(ctl') = external + 1
      BY <1>0, <2>2 DEF ExternalKeepOpenLockCount, Own
    <2>4. QED  BY <1>0, <1>11, <2>1, <2>2, <2>3 DEF ExternalLock
  <1>12. CASE ExternalUnlock
    <2> DEFINE a == [ctl EXCEPT !.total = external - 1 + Own(ctl)]
               r == MaybeUnpin(a, external, pointer, focus)
    <2>1. external - 1 \in 0..MaxLocks /\ external - 1 + Own(ctl) \in Nat
      BY <1>0, <1>12 DEF ExternalUnlock, Own
    <2>2. /\ a \in Ctl /\ Locked(a) /\ (a.pinned <=> ctl.pinned)
          /\ (a.armed <=> ctl.armed) /\ (a.suppressing <=> ctl.suppressing)
          /\ (a.keepLock <=> ctl.keepLock) /\ a.total = external - 1 + Own(ctl)
      BY <1>0, <2>1
    <2>3. ExternalKeepOpenLockCount(a) = external - 1
      BY <1>0, <2>1, <2>2 DEF ExternalKeepOpenLockCount, Own
    <2> HIDE DEF a
    <2>4. /\ r \in Ctl /\ Locked(r) /\ (r.suppressing <=> a.suppressing)
          /\ a.pinned /\ a.armed /\ ~InUse(a, pointer, focus) => ~r.pinned
          /\ ~(a.pinned /\ a.armed /\ ~InUse(a, pointer, focus)) => r = a
      BY <1>0, <2>2, MaybeUnpinWorks
    <2>5. ctl' = r
      BY <1>12 DEF ExternalUnlock, OnRoamuxKeepOpenLocksChanged, a
    <2> HIDE DEF r
    <2>6. QED  BY <1>0, <1>12, <2>1, <2>2, <2>3, <2>4, <2>5 DEF ExternalUnlock, InUse
  <1>13. ASSUME OnModeRelevantPrefChanged
         PROVE  ctl' \in Ctl /\ Locked(ctl') /\ ~ctl'.pinned /\ ~ctl'.suppressing
    <2> DEFINE o == IF focus THEN MaybeUnpin(ctl, external, pointer, FALSE) ELSE ctl
    <2>1. o \in Ctl /\ Locked(o)
      BY <1>0, MaybeUnpinWorks
    <2>2. ctl' = OnLifecycleReset(o, external, pointer, FALSE)
      BY <1>13 DEF OnModeRelevantPrefChanged
    <2> HIDE DEF o
    <2>3. QED  BY <1>0, <2>1, <2>2, ResetWorks
  <1>14. CASE \E p \in kTop..kRight : SetTabStripPlacement(p)
    <2>1. PICK p \in kTop..kRight : SetTabStripPlacement(p)
      BY <1>14
    <2>2. ctl' \in Ctl /\ Locked(ctl') /\ ~ctl'.pinned /\ ~ctl'.suppressing
      BY <1>13, <2>1 DEF SetTabStripPlacement
    <2>3. CanToggleTabStrip(p) \in BOOLEAN /\ CanToggleTabStrip(stored') = CanToggleTabStrip(p)
      BY <2>1 DEF SetTabStripPlacement, CanToggleTabStrip
    <2>4. QED
      BY <2>1, <2>2, <2>3 DEF SetTabStripPlacement, OnModeRelevantPrefChanged
  <1>15. CASE FlipHoverSetting
    <2>1. ctl' \in Ctl /\ Locked(ctl') /\ ~ctl'.pinned /\ ~ctl'.suppressing
      BY <1>13, <1>15 DEF FlipHoverSetting
    <2>2. CanToggleTabStrip(stored) \in BOOLEAN
          /\ CanToggleTabStrip(stored') = CanToggleTabStrip(stored)
      BY <1>15 DEF FlipHoverSetting, CanToggleTabStrip
    <2>3. hover' \in BOOLEAN
      BY <1>15 DEF FlipHoverSetting
    <2>4. QED
      BY <1>15, <2>1, <2>2, <2>3 DEF FlipHoverSetting, OnModeRelevantPrefChanged
  <1>16. CASE OnFullscreenStateChanged
    <2> DEFINE r == OnLifecycleReset(ctl, external, pointer, focus)
    <2>1. r \in Ctl /\ Locked(r) /\ ~r.pinned /\ ~r.suppressing
      BY <1>0, ResetWorks
    <2>2. ctl' = IF ctl.handlers THEN r ELSE ctl
      BY <1>16 DEF OnFullscreenStateChanged
    <2> HIDE DEF r
    <2>3. QED  BY <1>16, <2>1, <2>2 DEF OnFullscreenStateChanged
  <1>17. CASE AttachRegionView
    BY <1>0, <1>17 DEF AttachRegionView, CanToggleTabStrip
  <1>18. DetachRegionView(ctl) \in Ctl /\ Locked(DetachRegionView(ctl))
         /\ ~DetachRegionView(ctl).pinned /\ ~DetachRegionView(ctl).suppressing
    <2> DEFINE h == [ctl EXCEPT !.handlers = FALSE]
    <2>1. /\ h \in Ctl /\ (h.keepLock <=> h.pinned) /\ ~h.handlers
          /\ (h.forceLock <=> h.suppressing) /\ ~(h.pinned /\ h.suppressing)
      BY <1>0
    <2>2. DetachRegionView(ctl) = OnLifecycleReset(h, external, pointer, focus)
      BY DEF DetachRegionView, RemovePinnedHandlers
    <2> HIDE DEF h
    <2>3. QED  BY <1>0, <2>1, <2>2, ResetWorks
  <1>19. CASE RegionDestroyed
    <2> DEFINE r == DetachRegionView(ctl)
    <2>1. r \in Ctl /\ Locked(r) /\ ~r.pinned /\ ~r.suppressing
      BY <1>18
    <2>2. ctl' = r
      BY <1>19 DEF RegionDestroyed
    <2> HIDE DEF r
    <2>3. TypeOK'
      <3>1. external' = 0 /\ external' \in 0..MaxLocks
        BY <1>0, <1>19 DEF RegionDestroyed
      <3>2. region' \in BOOLEAN /\ focus' \in BOOLEAN /\ closed' \in BOOLEAN
        BY <1>19 DEF RegionDestroyed
      <3>3. QED  BY <1>19, <2>1, <2>2, <3>1, <3>2 DEF RegionDestroyed
    <2>4. QED  BY <1>19, <2>1, <2>2, <2>3 DEF RegionDestroyed
  <1>20. CASE BrowserDidClose
    <2> DEFINE r == IF region THEN DetachRegionView(ctl) ELSE ctl
    <2>1. r \in Ctl /\ Locked(r) /\ ~r.pinned /\ ~r.suppressing
      BY <1>0, <1>18
    <2>2. ctl' = r
      BY <1>20 DEF BrowserDidClose
    <2> HIDE DEF r
    <2>3. TypeOK'
      <3>1. external' = 0 /\ external' \in 0..MaxLocks
        BY <1>0, <1>20 DEF BrowserDidClose
      <3>2. region' \in BOOLEAN /\ focus' \in BOOLEAN /\ closed' \in BOOLEAN
        BY <1>20 DEF BrowserDidClose
      <3>3. QED  BY <1>20, <2>1, <2>2, <3>1, <3>2 DEF BrowserDidClose
    <2>4. QED  BY <1>20, <2>1, <2>2, <2>3 DEF BrowserDidClose
  <1>21. CASE UNCHANGED vars
    BY <1>21 DEF vars
  <1>22. QED
    BY <1>1, <1>2, <1>3, <1>4, <1>5, <1>6, <1>7, <1>9, <1>10, <1>11, <1>12, <1>14,
       <1>15, <1>16, <1>17, <1>19, <1>20, <1>21 DEF Next

LEMMA SpecIInv == Spec => []IInv
  BY InitIInv, NextIInv, PTL DEF Spec

(* Every variable keeps its type; the lock count never goes below zero.          *)
THEOREM StripTypeOK == Spec => []TypeOK
  <1>1. IInv => TypeOK
    BY DEF IInv
  <1>2. QED  BY <1>1, SpecIInv, PTL

(* The core and the glue agree through every nested report of a released lock.   *)
THEOREM LocksFollowTheCore == Spec => []LocksMatchCore
  <1>1. IInv => LocksMatchCore
    BY DEF IInv
  <1>2. QED  BY <1>1, SpecIInv, PTL

(* The count of other holders is exact whenever the core may read it, for any    *)
(* number of holders.                                                            *)
THEOREM CountIsExact == Spec => []CountExactWhilePinned
  <1>1. IInv => CountExactWhilePinned
    BY DEF IInv
  <1>2. QED  BY <1>1, SpecIInv, PTL

(* No pin and no suppression outlives the strip, the placement or the mode it    *)
(* was made in.                                                                  *)
THEOREM PinsNeedAStrip == Spec => []PinNeedsAStrip
  <1>1. IInv => PinNeedsAStrip
    BY DEF IInv
  <1>2. QED  BY <1>1, SpecIInv, PTL

(* An armed pin is never forgotten on a strip nobody uses.                       *)
THEOREM NoPinIsAbandoned == Spec => []NoAbandonedPin
  <1>1. IInv => NoAbandonedPin
    BY DEF IInv
  <1>2. QED  BY <1>1, SpecIInv, PTL

(* Every suppression still has a pointer exit to come.                           *)
THEOREM SuppressionsEnd == Spec => []SuppressionWillEnd
  <1>1. IInv => SuppressionWillEnd
    BY DEF IInv
  <1>2. QED  BY <1>1, SpecIInv, PTL

(* So no pin is left on an abandoned strip and no suppression is held for good.  *)
THEOREM TheStripLetsGo == Spec => []StripLetsGo
  <1>1. IInv => StripLetsGo
    BY DEF IInv, StripLetsGo
  <1>2. QED  BY <1>1, SpecIInv, PTL

(* The enabled bit of the toggle command is never stale while there is a strip.  *)
THEOREM CommandBitIsFresh == Spec => []CommandBitFresh
  <1>1. IInv => CommandBitFresh
    BY DEF IInv
  <1>2. QED  BY <1>1, SpecIInv, PTL

(* All of the run's invariant, for any number of other holders.                  *)
THEOREM StripIsSound == Spec => []StripInv
  <1>1. IInv => StripInv
    BY DEF IInv, StripInv
  <1>2. QED  BY <1>1, SpecIInv, PTL
-----------------------------------------------------------------------------
(* The steps of the contract. *)
CNext == Contract!Shortcut \/ Contract!Esc \/ Contract!Interaction
           \/ Contract!World \/ Contract!Change

LEMMA InitRefines == Init => Contract!Init
  BY DEF Init, Contract!Init, PinMode

LEMMA NextRefines == IInv /\ [Next]_vars => [CNext]_Contract!vars
  <1> SUFFICES ASSUME IInv, [Next]_vars  PROVE [CNext]_Contract!vars
    OBVIOUS
  <1> USE DEF Locked, PinMode
  <1>0. /\ ctl \in Ctl /\ Locked(ctl) /\ external \in Nat /\ MaxLocks \in Nat
        /\ pointer \in BOOLEAN /\ focus \in BOOLEAN
        /\ ctl.pinned => ExternalKeepOpenLockCount(ctl) = external
    BY TabStripPinAssumption DEF IInv, TypeOK, Ctl, LocksMatchCore,
       CountExactWhilePinned
  <1>1. CASE TogglePinPeek
    <2>1. CASE ctl.pinned
      <3> DEFINE r == ExplicitUnpin(ctl, external, pointer, focus)
      <3>1. r \in Ctl /\ Locked(r) /\ ~r.pinned /\ (r.suppressing <=> pointer)
        BY <1>0, <2>1, ExplicitUnpinWorks
      <3>2. ctl' = r
        BY <1>1, <2>1 DEF TogglePinPeek, FocusStrip, ForceCollapseNow
      <3> HIDE DEF r
      <3>3. Contract!Shortcut
        BY <1>0, <1>1, <2>1, <3>1, <3>2
           DEF TogglePinPeek, settings, FocusStrip, ForceCollapseNow,
               Contract!Shortcut, Contract!Pinned, Contract!Unpinned
      <3>4. QED  BY <3>3 DEF CNext
    <2>2. CASE ~ctl.pinned
      <3> DEFINE r == Pin(ctl, external, pointer, focus)
      <3>1. r \in Ctl /\ Locked(r) /\ r.pinned /\ ~r.armed /\ ~r.suppressing
        BY <1>0, <2>2, PinWorks
      <3>2. ctl' = r
        BY <1>1, <2>2 DEF TogglePinPeek, FocusStrip, ForceCollapseNow
      <3> HIDE DEF r
      <3>3. Contract!Shortcut
        BY <1>0, <1>1, <2>2, <3>1, <3>2
           DEF TogglePinPeek, settings, FocusStrip, ForceCollapseNow,
               Contract!Shortcut, Contract!Pinned, Contract!Unpinned
      <3>4. QED  BY <3>3 DEF CNext
    <2>3. QED  BY <2>1, <2>2
  <1>w. ASSUME input' \in {"exit", "world"}, UNCHANGED <<settings, region>>,
               \/ PinMode' = PinMode
               \/ PinMode = "armed" /\ PinMode' = "free" /\ ~pointer' /\ ~focus' /\ ~(external' > 0)
               \/ PinMode = "suppressed" /\ PinMode' = "free" /\ input' = "exit"
        PROVE  CNext
    <2>1. Contract!World
      BY <1>w DEF Contract!World, settings
    <2>2. QED  BY <2>1 DEF CNext
  <1>2. CASE TogglePlain
    BY <1>2, <1>w DEF TogglePlain, settings
  <1>3. CASE OnEscInStrip
    <2> DEFINE r == ExplicitUnpin(ctl, external, pointer, focus)
    <2>1. r \in Ctl /\ Locked(r) /\ ~r.pinned /\ (r.suppressing <=> pointer)
      BY <1>0, <1>3, ExplicitUnpinWorks DEF OnEscInStrip, ForceCollapseNow
    <2>2. ctl' = r
      BY <1>3 DEF OnEscInStrip, ForceCollapseNow
    <2> HIDE DEF r
    <2>3. Contract!Esc
      BY <1>0, <1>3, <2>1, <2>2
         DEF OnEscInStrip, settings, ForceCollapseNow, Contract!Esc, Contract!Pinned, Contract!Unpinned
    <2>4. QED  BY <2>3 DEF CNext
  <1>4. CASE OnCompletedInteraction
    <2> DEFINE a == [ctl EXCEPT !.armed = TRUE]
               r == MaybeUnpin(a, external, pointer, focus)
    <2>1. CASE ctl.pinned
      <3>1. a \in Ctl /\ Locked(a) /\ a.pinned /\ a.armed /\ ~a.suppressing
            /\ ExternalKeepOpenLockCount(a) = external
        BY <1>0, <2>1 DEF ExternalKeepOpenLockCount, Own, Ctl
      <3> HIDE DEF a
      <3>2. /\ r \in Ctl /\ Locked(r) /\ (r.suppressing <=> a.suppressing)
            /\ ~InUse(a, pointer, focus) => ~r.pinned
            /\ InUse(a, pointer, focus) => r = a
        BY <1>0, <3>1, MaybeUnpinWorks
      <3>3. ctl' = r
        BY <1>4, <2>1 DEF OnCompletedInteraction, a
      <3> HIDE DEF r
      <3>4. Contract!Interaction
        BY <1>0, <1>4, <2>1, <3>1, <3>2, <3>3
           DEF OnCompletedInteraction, InUse, world, settings, Contract!Interaction,
               Contract!Pinned
      <3>5. QED  BY <3>4 DEF CNext
    <2>2. CASE ~ctl.pinned
      <3>1. Contract!Interaction
        BY <1>0, <1>4, <2>2
           DEF OnCompletedInteraction, world, settings, Contract!Interaction, Contract!Pinned
      <3>2. QED  BY <3>1 DEF CNext
    <2>3. QED  BY <2>1, <2>2
  <1>5. CASE PointerEnters
    BY <1>5, <1>w DEF PointerEnters, settings
  <1>6. CASE PointerLeaves
    BY <1>6, <1>w DEF PointerLeaves, settings
  <1>m. ASSUME NEW f \in BOOLEAN
        PROVE  LET m == MaybeUnpin(ctl, external, pointer, f)
               IN  \/ m = ctl
                   \/ /\ ctl.pinned /\ ctl.armed /\ ~ctl.suppressing
                      /\ ~m.pinned /\ ~m.suppressing
                      /\ ~pointer /\ ~f /\ ~(external > 0)
    <2> DEFINE m == MaybeUnpin(ctl, external, pointer, f)
    <2>1. /\ (m.suppressing <=> ctl.suppressing)
          /\ ctl.pinned /\ ctl.armed /\ ~InUse(ctl, pointer, f) => ~m.pinned
          /\ ~(ctl.pinned /\ ctl.armed /\ ~InUse(ctl, pointer, f)) => m = ctl
      BY <1>0, MaybeUnpinWorks
    <2> HIDE DEF m
    <2>2. QED  BY <1>0, <2>1 DEF InUse, m
  <1>7. CASE HandleMouseExited
    <2> DEFINE m == MaybeUnpin(ctl, external, pointer, focus)
               r == OnPointerExit(ctl, external, pointer, focus)
    <2>1. CASE region
      <3>1. /\ ~r.suppressing
            /\ ctl.suppressing => ~r.pinned
            /\ ~ctl.suppressing => r = m
        BY <1>0, ExitWorks
      <3>2. \/ m = ctl
            \/ /\ ctl.pinned /\ ctl.armed /\ ~ctl.suppressing
               /\ ~m.pinned /\ ~m.suppressing
               /\ ~pointer /\ ~focus /\ ~(external > 0)
        BY <1>0, <1>m
      <3>3. ctl' = r
        BY <1>7, <2>1 DEF HandleMouseExited
      <3> HIDE DEF r, m
      <3>4. /\ input' = "exit" /\ UNCHANGED <<settings, region, pointer, focus, external>>
        BY <1>7 DEF HandleMouseExited
      <3>5. QED  BY <1>0, <1>w, <3>1, <3>2, <3>3, <3>4
    <2>2. CASE ~region
      BY <1>7, <1>w, <2>2 DEF HandleMouseExited, settings
    <2>3. QED  BY <2>1, <2>2
  <1>8. ASSUME NEW f \in BOOLEAN, OnFocusChanged(f)
        PROVE  CNext
    <2> DEFINE m == MaybeUnpin(ctl, external, pointer, f)
    <2>1. \/ m = ctl
          \/ /\ ctl.pinned /\ ctl.armed /\ ~ctl.suppressing
             /\ ~m.pinned /\ ~m.suppressing
             /\ ~pointer /\ ~f /\ ~(external > 0)
      BY <1>m
    <2>2. ctl' = IF region /\ f # focus THEN m ELSE ctl
      BY <1>8 DEF OnFocusChanged
    <2> HIDE DEF m
    <2>3. focus' = f /\ input' = "world" /\ UNCHANGED <<settings, region, pointer, external>>
      BY <1>8 DEF OnFocusChanged
    <2>4. QED  BY <1>0, <1>w, <2>1, <2>2, <2>3
  <1>9. CASE UserMovesFocus
    BY <1>0, <1>8, <1>9 DEF UserMovesFocus
  <1>10. CASE PageTakesFocus
    BY <1>8, <1>10 DEF PageTakesFocus
  <1>11. CASE ExternalLock
    <2>1. /\ (ctl'.pinned <=> ctl.pinned) /\ (ctl'.armed <=> ctl.armed)
          /\ (ctl'.suppressing <=> ctl.suppressing)
      BY <1>0, <1>11 DEF ExternalLock, Ctl
    <2>2. PinMode' = PinMode
      BY <2>1
    <2>3. QED  BY <1>11, <1>w, <2>2 DEF ExternalLock, settings
  <1>12. CASE ExternalUnlock
    <2> DEFINE a == [ctl EXCEPT !.total = external - 1 + Own(ctl)]
               r == MaybeUnpin(a, external, pointer, focus)
    <2>1. external - 1 \in Nat /\ external - 1 + Own(ctl) \in Nat
      BY <1>0, <1>12 DEF ExternalUnlock, Own
    <2>2. /\ a \in Ctl /\ Locked(a) /\ (a.pinned <=> ctl.pinned)
          /\ (a.armed <=> ctl.armed) /\ (a.suppressing <=> ctl.suppressing)
          /\ (a.keepLock <=> ctl.keepLock) /\ a.total = external - 1 + Own(ctl)
      BY <1>0, <2>1 DEF Ctl
    <2>3. ExternalKeepOpenLockCount(a) = external - 1
      BY <1>0, <2>1, <2>2 DEF ExternalKeepOpenLockCount, Own
    <2> HIDE DEF a
    <2>4. /\ (r.suppressing <=> a.suppressing)
          /\ a.pinned /\ a.armed /\ ~InUse(a, pointer, focus) => ~r.pinned
          /\ ~(a.pinned /\ a.armed /\ ~InUse(a, pointer, focus)) => r = a
      BY <1>0, <2>2, MaybeUnpinWorks
    <2>5. ctl' = r
      BY <1>12 DEF ExternalUnlock, OnRoamuxKeepOpenLocksChanged, a
    <2> HIDE DEF r
    <2>6. /\ external' = external - 1 /\ input' = "world"
          /\ UNCHANGED <<settings, region, pointer, focus>>
      BY <1>12 DEF ExternalUnlock, world
    <2>7. CASE r = a
      <3>1. PinMode' = PinMode
        BY <2>2, <2>5, <2>7
      <3>2. QED  BY <1>w, <2>6, <3>1
    <2>8. CASE r # a
      <3>1. /\ PinMode = "armed" /\ PinMode' = "free"
            /\ ~pointer' /\ ~focus' /\ ~(external' > 0)
        BY <1>0, <2>1, <2>2, <2>3, <2>4, <2>5, <2>6, <2>8 DEF InUse
      <3>2. QED  BY <1>w, <2>6, <3>1
    <2>9. QED  BY <2>7, <2>8
  <1>c. ASSUME input' = "setting", <<settings, region>>' # <<settings, region>>,
               PinMode' = "free" \/ (PinMode = "suppressed" /\ PinMode' = PinMode),
               pointer' = pointer
        PROVE  CNext
    <2>1. Contract!Change
      BY <1>c DEF Contract!Change
    <2>2. QED  BY <2>1 DEF CNext
  <1>13. ASSUME OnModeRelevantPrefChanged
         PROVE  PinMode' = "free"
    <2> DEFINE o == IF focus THEN MaybeUnpin(ctl, external, pointer, FALSE) ELSE ctl
    <2>1. o \in Ctl /\ Locked(o)
      BY <1>0, MaybeUnpinWorks
    <2>2. ctl' = OnLifecycleReset(o, external, pointer, FALSE)
      BY <1>13 DEF OnModeRelevantPrefChanged
    <2> HIDE DEF o
    <2>3. QED  BY <1>0, <2>1, <2>2, ResetWorks
  <1>14. CASE \E p \in kTop..kRight : SetTabStripPlacement(p)
    <2>1. PICK p \in kTop..kRight : SetTabStripPlacement(p)
      BY <1>14
    <2>2. PinMode' = "free"
      BY <1>13, <2>1 DEF SetTabStripPlacement
    <2>3. stored' # stored /\ input' = "setting" /\ pointer' = pointer
      BY <2>1 DEF SetTabStripPlacement, OnModeRelevantPrefChanged
    <2>4. <<settings, region>>' # <<settings, region>>
      BY <2>3 DEF settings
    <2>5. QED  BY <1>c, <2>2, <2>3, <2>4
  <1>15. CASE FlipHoverSetting
    <2>1. PinMode' = "free"
      BY <1>13, <1>15 DEF FlipHoverSetting
    <2>2. hover' # hover /\ input' = "setting" /\ pointer' = pointer
      BY <1>15 DEF FlipHoverSetting, OnModeRelevantPrefChanged, IInv, TypeOK
    <2>3. <<settings, region>>' # <<settings, region>>
      BY <2>2 DEF settings
    <2>4. QED  BY <1>c, <2>1, <2>2, <2>3
  <1>16. CASE OnFullscreenStateChanged
    <2> DEFINE r == OnLifecycleReset(ctl, external, pointer, focus)
    <2>1. r \in Ctl /\ Locked(r) /\ ~r.pinned /\ ~r.suppressing
      BY <1>0, ResetWorks
    <2>2. ctl' = IF ctl.handlers THEN r ELSE ctl
      BY <1>16 DEF OnFullscreenStateChanged
    <2> HIDE DEF r
    <2>3. fullscreen' # fullscreen /\ input' = "setting" /\ pointer' = pointer
      BY <1>16 DEF OnFullscreenStateChanged, world, IInv, TypeOK
    <2>4. <<settings, region>>' # <<settings, region>>
      BY <2>3 DEF settings
    <2>5. PinMode' = "free" \/ (PinMode = "suppressed" /\ PinMode' = PinMode)
      BY <1>0, <2>1, <2>2
    <2>6. QED  BY <1>c, <2>3, <2>4, <2>5
  <1>17. CASE AttachRegionView
    <2>1. region' # region /\ input' = "setting" /\ pointer' = pointer /\ ctl' = ctl
      BY <1>17 DEF AttachRegionView, world, IInv, TypeOK
    <2>2. PinMode' = "free"
      BY <1>17, <2>1 DEF AttachRegionView, IInv, PinNeedsAStrip
    <2>3. <<settings, region>>' # <<settings, region>>
      BY <2>1
    <2>4. QED  BY <1>c, <2>1, <2>2, <2>3
  <1>18. ~DetachRegionView(ctl).pinned /\ ~DetachRegionView(ctl).suppressing
    <2> DEFINE h == [ctl EXCEPT !.handlers = FALSE]
    <2>1. /\ h \in Ctl /\ (h.keepLock <=> h.pinned) /\ ~h.handlers
          /\ (h.forceLock <=> h.suppressing) /\ ~(h.pinned /\ h.suppressing)
      BY <1>0 DEF Ctl
    <2>2. DetachRegionView(ctl) = OnLifecycleReset(h, external, pointer, focus)
      BY DEF DetachRegionView, RemovePinnedHandlers
    <2> HIDE DEF h
    <2>3. QED  BY <1>0, <2>1, <2>2, ResetWorks
  <1>19. CASE RegionDestroyed
    <2>1. region' # region /\ input' = "setting" /\ pointer' = pointer
      BY <1>19 DEF RegionDestroyed, IInv, TypeOK
    <2>2. PinMode' = "free"
      BY <1>18, <1>19 DEF RegionDestroyed
    <2>3. <<settings, region>>' # <<settings, region>>
      BY <2>1
    <2>4. QED  BY <1>c, <2>1, <2>2, <2>3
  <1>20. CASE BrowserDidClose
    <2>1. closed' # closed /\ input' = "setting" /\ pointer' = pointer
      BY <1>20 DEF BrowserDidClose, IInv, TypeOK
    <2>2. PinMode' = "free"
      BY <1>18, <1>20 DEF BrowserDidClose, IInv, PinNeedsAStrip
    <2>3. <<settings, region>>' # <<settings, region>>
      BY <2>1 DEF settings
    <2>4. QED  BY <1>c, <2>1, <2>2, <2>3
  <1>21. CASE UNCHANGED vars
    BY <1>21 DEF vars, world, settings, Contract!vars
  <1>22. QED
    BY <1>1, <1>2, <1>3, <1>4, <1>5, <1>6, <1>7, <1>9, <1>10, <1>11, <1>12, <1>14,
       <1>15, <1>16, <1>17, <1>19, <1>20, <1>21 DEF Next

(* The refinement: with locks, nested reports and late events, the strip does     *)
(* what the contract of pinning promises, for any number of other lock holders.   *)
THEOREM StripImplementsPinPeek == Spec => ImplementsPinPeek
  <1>1. Spec => []IInv
    BY SpecIInv
  <1>2. Init => Contract!Init
    BY InitRefines
  <1>3. IInv /\ [Next]_vars => [CNext]_Contract!vars
    BY NextRefines
  <1>4. QED  BY <1>1, <1>2, <1>3, PTL DEF Spec, ImplementsPinPeek, Contract!Spec, CNext

-----------------------------------------------------------------------------
(* The tab groups. *)
(* Every set of numbers has a least one, and one that is bounded a greatest. *)
LEMMA LeastNumber ==
    ASSUME NEW T \in SUBSET Nat, T # {}
    PROVE  \E m \in T : \A k \in T : m <= k
<1> DEFINE R == OpToRel(<, Nat)
<1>1. IsWellFoundedOn(R, Nat)
  BY NatLessThanWellFounded
<1>2. \A x, y \in Nat : x < y => <<x, y>> \in R
  BY DEF OpToRel
<1> HIDE DEF R
<1>3. PICK m \in T : \A k \in T : ~(<<k, m>> \in R)
  BY <1>1, WFMin
<1>4. \A k \in T : ~(k < m)
  BY <1>2, <1>3
<1> QED
  BY <1>4

LEMMA GreatestNumber ==
    ASSUME NEW n \in Nat, NEW T \in SUBSET (1..n), T # {}
    PROVE  \E m \in T : \A k \in T : k <= m
<1> DEFINE U == {n - k : k \in T}
<1>1. \A k \in T : k \in 1..n /\ n - k \in Nat
  OBVIOUS
<1>1a. U \in SUBSET Nat /\ U # {}
  BY <1>1
<1>2. PICK u \in U : \A k \in U : u <= k
  BY <1>1a, LeastNumber
<1>3. PICK m \in T : u = n - m
  OBVIOUS
<1>4. \A k \in T : n - k \in U
  OBVIOUS
<1>5. \A k \in T : n - m <= n - k
  BY <1>2, <1>3, <1>4
<1> QED
  BY <1>5

-----------------------------------------------------------------------------
Contiguous(s) ==
    \A i, j \in DOMAIN s :
        i < j /\ s[i] = s[j] /\ s[i] # NoGroup => \A k \in i..j : s[k] = s[i]

Windows == [strip : Seq(Group \cup {NoGroup}), active : Nat, collapsed : SUBSET Group]

(* What WindowInv says of a window that is open. *)
WindowOK(w) ==
    /\ w \in Windows
    /\ w.active \in DOMAIN w.strip
    /\ w.collapsed \subseteq Present(w) \ {ActiveGroup(w)}
    /\ Contiguous(w.strip)

LEMMA GroupFacts == NoGroup \notin Group /\ Group \subseteq Nat
  BY TabGroupsAssumption DEF NoGroup

LEMMA PresentFacts ==
    ASSUME NEW w, w.strip \in Seq(Group \cup {NoGroup})
    PROVE  /\ Present(w) \subseteq Group
           /\ DOMAIN w.strip = 1..Len(w.strip) /\ Len(w.strip) \in Nat
           /\ \A i \in DOMAIN w.strip : w.strip[i] \in Group \cup {NoGroup}
           /\ \A i \in DOMAIN w.strip : w.strip[i] = NoGroup \/ w.strip[i] \in Present(w)
           /\ \A g : g \in Present(w) <=> g # NoGroup /\ \E i \in DOMAIN w.strip : w.strip[i] = g
  BY DEF Present

(* The range of a group that is there. *)
LEMMA RangeOfAGroup ==
    ASSUME NEW w, w.strip \in Seq(Group \cup {NoGroup}), NEW g \in Present(w)
    PROVE  /\ FirstOf(w, g) \in DOMAIN w.strip /\ w.strip[FirstOf(w, g)] = g
           /\ \A j \in DOMAIN w.strip : w.strip[j] = g => FirstOf(w, g) <= j
           /\ LastOf(w, g) \in DOMAIN w.strip /\ w.strip[LastOf(w, g)] = g
           /\ \A j \in DOMAIN w.strip : w.strip[j] = g => j <= LastOf(w, g)
<1> DEFINE T == {i \in DOMAIN w.strip : w.strip[i] = g}
           n == Len(w.strip)
<1>1. n \in Nat /\ T \in SUBSET (1..n) /\ T \in SUBSET Nat /\ T # {}
  BY PresentFacts
<1>2. \E m \in T : \A k \in T : m <= k
  BY <1>1, LeastNumber
<1>3. \E m \in T : \A k \in T : k <= m
  BY <1>1, GreatestNumber
<1>4. \E i \in DOMAIN w.strip :
          w.strip[i] = g /\ \A j \in DOMAIN w.strip : w.strip[j] = g => i <= j
  BY <1>2
<1>5. \E i \in DOMAIN w.strip :
          w.strip[i] = g /\ \A j \in DOMAIN w.strip : w.strip[j] = g => j <= i
  BY <1>3
<1> QED
  BY <1>4, <1>5 DEF FirstOf, LastOf

(* The strip's own rules repair what an insertion, a closing or an activation left. *)
LEMMA SettleIsOK ==
    ASSUME NEW w \in Windows, w.active \in DOMAIN w.strip, Contiguous(w.strip)
    PROVE  /\ WindowOK(Settle(w))
           /\ Settle(w).strip = w.strip /\ Settle(w).active = w.active
<1> DEFINE v == Settle(w)
<1>1. /\ v.strip = w.strip /\ v.active = w.active
      /\ v.collapsed = (w.collapsed \cap Present(w)) \ {ActiveGroup(w)}
      /\ v \in Windows
  BY DEF Settle, Windows
<1>2. Present(v) = Present(w) /\ ActiveGroup(v) = ActiveGroup(w)
  BY <1>1 DEF Present, ActiveGroup
<1> QED
  BY <1>1, <1>2 DEF WindowOK

(* A toggle flips one group and leaves the other groups and the set of groups alone; *)
(* it moves the activation only when it collapses the group of the active tab.       *)
LEMMA ToggledIsOK ==
    ASSUME NEW w, WindowOK(w), NEW g \in Present(w), NEW v \in Toggled(w, g)
    PROVE  /\ WindowOK(v) /\ Present(v) = Present(w)
           /\ g \in w.collapsed => v.collapsed = w.collapsed \ {g}
           /\ g \notin w.collapsed => v.collapsed = w.collapsed \cup {g}
           /\ g \in w.collapsed \/ ActiveGroup(w) # g
                => v.strip = w.strip /\ v.active = w.active
<1>0. /\ w \in Windows /\ w.active \in DOMAIN w.strip /\ Contiguous(w.strip)
      /\ w.collapsed \subseteq Present(w) \ {ActiveGroup(w)}
      /\ w.strip \in Seq(Group \cup {NoGroup}) /\ w.active \in Nat
      /\ w.collapsed \in SUBSET Group /\ g \in Group /\ g # NoGroup
  BY GroupFacts, PresentFacts DEF WindowOK, Windows
<1>1. CASE g \in w.collapsed
  <2>1. v = [w EXCEPT !.collapsed = @ \ {g}]
    BY <1>1 DEF Toggled
  <2>2. /\ v.strip = w.strip /\ v.active = w.active /\ v.collapsed = w.collapsed \ {g}
        /\ v \in Windows
    BY <1>0, <2>1 DEF Windows
  <2>3. Present(v) = Present(w) /\ ActiveGroup(v) = ActiveGroup(w)
    BY <2>2 DEF Present, ActiveGroup
  <2> QED
    BY <1>0, <1>1, <2>2, <2>3 DEF WindowOK
<1>2. CASE g \notin w.collapsed /\ ActiveGroup(w) # g
  <2>1. v = [w EXCEPT !.collapsed = @ \cup {g}]
    BY <1>2 DEF Toggled
  <2>2. /\ v.strip = w.strip /\ v.active = w.active /\ v.collapsed = w.collapsed \cup {g}
        /\ v \in Windows
    BY <1>0, <2>1 DEF Windows
  <2>3. Present(v) = Present(w) /\ ActiveGroup(v) = ActiveGroup(w)
    BY <2>2 DEF Present, ActiveGroup
  <2> QED
    BY <1>0, <1>2, <2>2, <2>3 DEF WindowOK
<1>3. CASE g \notin w.collapsed /\ ActiveGroup(w) = g /\ Visible(w, g) # {}
  <2>1. PICK i \in Visible(w, g) : v = [w EXCEPT !.collapsed = @ \cup {g}, !.active = i]
    BY <1>3 DEF Toggled
  <2>2. i \in DOMAIN w.strip /\ i \in Nat /\ w.strip[i] \notin w.collapsed \cup {g}
    BY <1>0 DEF Visible
  <2>3. /\ v.strip = w.strip /\ v.active = i /\ v.collapsed = w.collapsed \cup {g}
        /\ v \in Windows
    BY <1>0, <2>1, <2>2 DEF Windows
  <2>4. Present(v) = Present(w) /\ ActiveGroup(v) = w.strip[i]
    BY <2>2, <2>3 DEF Present, ActiveGroup
  <2> QED
    BY <1>0, <1>3, <2>2, <2>3, <2>4 DEF WindowOK
<1>4. CASE g \notin w.collapsed /\ ActiveGroup(w) = g /\ Visible(w, g) = {}
  <2> DEFINE n == Len(w.strip)
             s == Append(w.strip, NoGroup)
  <2>1. v = [strip |-> s, active |-> n + 1, collapsed |-> w.collapsed \cup {g}]
    BY <1>4 DEF Toggled
  <2>2. /\ n \in Nat /\ DOMAIN w.strip = 1..n /\ DOMAIN s = 1..(n + 1)
        /\ s \in Seq(Group \cup {NoGroup})
        /\ s[n + 1] = NoGroup /\ \A i \in 1..n : s[i] = w.strip[i]
    BY <1>0
  <2> HIDE DEF s, n
  <2>3. /\ v.strip = s /\ v.active = n + 1 /\ v.collapsed = w.collapsed \cup {g}
        /\ v \in Windows
    BY <1>0, <2>1, <2>2 DEF Windows
  <2>4. Present(v) = Present(w)
    <3>1. \A i \in 1..n : i \in 1..(n + 1)
      BY <2>2
    <3>2. \A i \in 1..(n + 1) : i \in 1..n \/ i = n + 1
      BY <2>2
    <3> QED
      BY <2>2, <2>3, <3>1, <3>2 DEF Present
  <2>5. ActiveGroup(v) = NoGroup /\ NoGroup \notin Present(v)
    BY <2>2, <2>3 DEF ActiveGroup, Present
  <2>6. Contiguous(s)
    BY <1>0, <2>2 DEF Contiguous
  <2>7. n + 1 \in DOMAIN s
    BY <2>2
  <2> QED
    BY <1>0, <1>4, <2>3, <2>4, <2>5, <2>6, <2>7 DEF WindowOK
<1> QED
  BY <1>1, <1>2, <1>3, <1>4

(* A tab inserted right after a tab of its group, or an ungrouped one at the end, *)
(* splits no group.                                                               *)
LEMMA InsertedIsOK ==
    ASSUME NEW w, WindowOK(w), NEW i \in 1..(Len(w.strip) + 1), NEW h,
           \/ h = NoGroup /\ i = Len(w.strip) + 1
           \/ i > 1 /\ w.strip[i - 1] = h
    PROVE  WindowOK(Inserted(w, i, h)) /\ Present(Inserted(w, i, h)) = Present(w)
<1> DEFINE n == Len(w.strip)
           s == w.strip
           t == SubSeq(s, 1, i - 1) \o <<h>> \o SubSeq(s, i, n)
           u == [strip |-> t, active |-> i, collapsed |-> w.collapsed]
<1>0. /\ s \in Seq(Group \cup {NoGroup}) /\ n \in Nat /\ DOMAIN s = 1..n
      /\ Contiguous(s) /\ w.collapsed \in SUBSET Group
      /\ \A k \in 1..n : s[k] \in Group \cup {NoGroup}
  BY DEF WindowOK, Windows
<1>1. h \in Group \cup {NoGroup} /\ i \in Nat /\ 1 <= i /\ i <= n + 1
  BY <1>0
<1>2. /\ t \in Seq(Group \cup {NoGroup}) /\ Len(t) = n + 1 /\ DOMAIN t = 1..(n + 1)
      /\ \A k \in 1..(n + 1) : t[k] = IF k < i THEN s[k] ELSE IF k = i THEN h ELSE s[k - 1]
  <2> DEFINE p == SubSeq(s, 1, i - 1)
             q == SubSeq(s, i, n)
             r == p \o <<h>>
  <2>1. /\ p \in Seq(Group \cup {NoGroup}) /\ Len(p) = i - 1
        /\ \A k \in 1..(i - 1) : p[k] = s[k]
    BY <1>0, <1>1
  <2>2. /\ q \in Seq(Group \cup {NoGroup}) /\ Len(q) = n - i + 1
        /\ \A k \in 1..(n - i + 1) : q[k] = s[i + k - 1]
    BY <1>0, <1>1
  <2> HIDE DEF p, q
  <2>3. /\ r \in Seq(Group \cup {NoGroup}) /\ Len(r) = i
        /\ \A k \in 1..i : r[k] = IF k < i THEN s[k] ELSE h
    BY <1>0, <1>1, <2>1
  <2> HIDE DEF r
  <2>4. /\ r \o q \in Seq(Group \cup {NoGroup}) /\ Len(r \o q) = n + 1
        /\ \A k \in 1..(n + 1) : (r \o q)[k] = IF k <= i THEN r[k] ELSE q[k - i]
    BY <1>0, <1>1, <2>2, <2>3
  <2>5. t = r \o q
    BY DEF p, q, r
  <2>6. \A k \in 1..(n + 1) : k > i => k - i \in 1..(n - i + 1) /\ i + (k - i) - 1 = k - 1
    BY <1>0, <1>1
  <2> HIDE DEF t
  <2> QED
    BY <1>0, <1>1, <2>2, <2>3, <2>4, <2>5, <2>6
<1> HIDE DEF t, n, s
<1>3. Contiguous(t)
  <2> SUFFICES ASSUME NEW j \in 1..(n + 1), NEW k \in 1..(n + 1), j < k, t[j] = t[k],
                      t[j] # NoGroup, NEW l \in j..k
               PROVE  t[l] = t[j]
    BY <1>2 DEF Contiguous
  <2>0. l \in 1..(n + 1) /\ j \in Int /\ k \in Int /\ l \in Int /\ j <= l /\ l <= k
    BY <1>0
  <2>1. \A a, b \in 1..n : a < b /\ s[a] = s[b] /\ s[a] # NoGroup => \A c \in a..b : s[c] = s[a]
    BY <1>0 DEF Contiguous
  <2>2. (h = NoGroup /\ i = n + 1) \/ (i > 1 /\ s[i - 1] = h)
    BY DEF n, s
  <2> DEFINE old(x) == IF x < i THEN x ELSE x - 1
  <2>3. CASE i = 1
    BY <1>0, <1>1, <1>2, <2>0, <2>1, <2>2, <2>3
  <2>4. CASE i > 1 /\ s[i - 1] # h
    BY <1>0, <1>1, <1>2, <2>0, <2>1, <2>2, <2>4
  <2>5. CASE i > 1 /\ s[i - 1] = h
    <3>1. \A x \in 1..(n + 1) : old(x) \in 1..n /\ t[x] = s[old(x)]
      BY <1>0, <1>1, <1>2, <2>5
    <3>2. old(j) \in 1..n /\ old(k) \in 1..n /\ old(l) \in old(j)..old(k) /\ old(j) <= old(k)
      BY <1>0, <1>1, <2>0, <3>1
    <3>3. s[old(j)] = s[old(k)] /\ s[old(j)] # NoGroup
      BY <3>1
    <3> HIDE DEF old
    <3>4. s[old(l)] = s[old(j)]
      <4>1. CASE old(j) < old(k)
        BY <2>1, <3>2, <3>3, <4>1
      <4>2. CASE old(j) = old(k)
        BY <3>2, <4>2
      <4> QED
        BY <3>2, <4>1, <4>2
    <3> QED
      BY <2>0, <3>1, <3>4
  <2> QED
    BY <1>1, <2>3, <2>4, <2>5
<1>4. /\ u \in Windows /\ u.strip = t /\ u.active = i /\ i \in DOMAIN t
      /\ Inserted(w, i, h) = Settle(u)
  BY <1>0, <1>1, <1>2 DEF Windows, Inserted, t, s, n
<1> HIDE DEF u
<1>5. Present(u) = Present(w)
  <2>1. \A k \in 1..n : \E l \in 1..(n + 1) : t[l] = s[k]
    <3> TAKE k \in 1..n
    <3>1. CASE k < i
      BY <1>0, <1>1, <1>2, <3>1
    <3>2. CASE k >= i
      <4>1. k + 1 \in 1..(n + 1) /\ t[k + 1] = s[k]
        BY <1>0, <1>1, <1>2, <3>2
      <4> QED
        BY <4>1
    <3> QED
      BY <1>0, <1>1, <3>1, <3>2
  <2>2. \A l \in 1..(n + 1) : t[l] = NoGroup \/ \E k \in 1..n : t[l] = s[k]
    <3> TAKE l \in 1..(n + 1)
    <3>1. CASE l < i
      BY <1>0, <1>1, <1>2, <3>1
    <3>2. CASE l = i
      <4>1. h = NoGroup \/ (i - 1 \in 1..n /\ s[i - 1] = h)
        BY <1>0, <1>1 DEF n, s
      <4> QED
        BY <1>2, <3>2, <4>1
    <3>3. CASE l > i
      <4>1. l - 1 \in 1..n /\ t[l] = s[l - 1]
        BY <1>0, <1>1, <1>2, <3>3
      <4> QED
        BY <4>1
    <3> QED
      BY <1>0, <1>1, <3>1, <3>2, <3>3
  <2>3. /\ Present(u) = {t[l] : l \in 1..(n + 1)} \ {NoGroup}
        /\ Present(w) = {s[k] : k \in 1..n} \ {NoGroup}
    <3>1. u.strip = t /\ DOMAIN t = 1..(n + 1)
      BY <1>2, <1>4
    <3>2. w.strip = s /\ DOMAIN s = 1..n
      BY <1>0 DEF s
    <3> QED
      BY <3>1, <3>2 DEF Present
  <2> QED
    BY <2>1, <2>2, <2>3
<1>6. WindowOK(Settle(u)) /\ Settle(u).strip = u.strip
  BY <1>3, <1>4, SettleIsOK
<1> QED
  BY <1>4, <1>5, <1>6 DEF Present

(* Closing the tabs of a group takes one stretch out, and with it that group only. *)
LEMMA RemovedIsOK ==
    ASSUME NEW w, WindowOK(w), NEW g \in Present(w), NEW v \in Removed(w, g)
    PROVE  WindowOK(v) /\ Present(v) = Present(w) \ {g}
<1> DEFINE n == Len(w.strip)
           s == w.strip
           a == FirstOf(w, g)
           b == LastOf(w, g)
           m == (a - 1) + (n - b)
           t == SubSeq(s, 1, a - 1) \o SubSeq(s, b + 1, n)
           at(x) == IF x < a THEN x ELSE x + (b - a + 1)
<1>0. /\ s \in Seq(Group \cup {NoGroup}) /\ n \in Nat /\ DOMAIN s = 1..n
      /\ Contiguous(s) /\ w.collapsed \in SUBSET Group /\ g # NoGroup
      /\ \A k \in 1..n : s[k] \in Group \cup {NoGroup}
  BY DEF WindowOK, Windows, Present
<1>1. /\ a \in 1..n /\ s[a] = g /\ b \in 1..n /\ s[b] = g
      /\ \A j \in 1..n : s[j] = g => a <= j /\ j <= b
  BY <1>0, RangeOfAGroup
<1> HIDE DEF n, s, a, b
<1>2. a <= b /\ \A j \in 1..n : s[j] = g <=> a <= j /\ j <= b
  <2>1. a <= b
    BY <1>0, <1>1
  <2>2. \A j \in a..b : s[j] = g
    <3>1. CASE a < b
      BY <1>0, <1>1, <3>1 DEF Contiguous
    <3>2. CASE a = b
      BY <1>0, <1>1, <3>2
    <3> QED
      BY <1>0, <1>1, <2>1, <3>1, <3>2
  <2> QED
    BY <1>0, <1>1, <2>1, <2>2
<1>3. /\ t \in Seq(Group \cup {NoGroup}) /\ m \in Nat /\ Len(t) = m /\ DOMAIN t = 1..m
      /\ \A k \in 1..m : t[k] = s[at(k)]
  BY <1>0, <1>1, <1>2
<1> HIDE DEF t
<1>4. \A x \in 1..m : at(x) \in 1..n /\ s[at(x)] # g
  BY <1>0, <1>1, <1>2
<1>5. Contiguous(t)
  <2> SUFFICES ASSUME NEW j \in 1..m, NEW k \in 1..m, j < k, t[j] = t[k],
                      t[j] # NoGroup, NEW l \in j..k
               PROVE  t[l] = t[j]
    BY <1>3 DEF Contiguous
  <2>1. \A x, y \in 1..n : x < y /\ s[x] = s[y] /\ s[x] # NoGroup => \A c \in x..y : s[c] = s[x]
    BY <1>0 DEF Contiguous
  <2>2. /\ l \in 1..m /\ at(j) \in 1..n /\ at(k) \in 1..n
        /\ at(l) \in at(j)..at(k) /\ at(j) < at(k)
    BY <1>0, <1>1, <1>2, <1>3, <1>4
  <2>3. s[at(j)] = s[at(k)] /\ s[at(j)] # NoGroup
    BY <1>3
  <2> HIDE DEF at
  <2>4. s[at(l)] = s[at(j)]
    BY <2>1, <2>2, <2>3
  <2> QED
    BY <1>3, <2>2, <2>4
<1>6. {t[k] : k \in 1..m} = {s[k] : k \in 1..n} \ {g}
  <2>1. \A k \in 1..m : t[k] \in {s[x] : x \in 1..n} \ {g}
    BY <1>3, <1>4
  <2>2. ASSUME NEW x \in 1..n, s[x] # g PROVE \E k \in 1..m : t[k] = s[x]
    <3>1. CASE x < a
      <4>1. x \in 1..m /\ at(x) = x
        BY <1>0, <1>1, <1>2, <3>1
      <4> QED
        BY <1>3, <4>1
    <3>2. CASE x > b
      <4> DEFINE y == x - (b - a + 1)
      <4>1. y \in 1..m /\ at(y) = x
        BY <1>0, <1>1, <1>2, <3>2
      <4> QED
        BY <1>3, <4>1
    <3> QED
      BY <1>0, <1>1, <1>2, <2>2, <3>1, <3>2
  <2> QED
    BY <2>1, <2>2
<1>7. PICK i \in DOMAIN t : v = Settle([strip |-> t, active |-> i, collapsed |-> w.collapsed])
  BY DEF Removed, t, s, a, b, n
<1> DEFINE u == [strip |-> t, active |-> i, collapsed |-> w.collapsed]
<1>8. u \in Windows /\ u.strip = t /\ u.active = i /\ v = Settle(u)
  BY <1>0, <1>3, <1>7 DEF Windows
<1> HIDE DEF u
<1>9. WindowOK(v) /\ v.strip = t
  BY <1>5, <1>8, SettleIsOK
<1>10. /\ Present(v) = {t[k] : k \in 1..m} \ {NoGroup}
       /\ Present(w) = {s[k] : k \in 1..n} \ {NoGroup}
  BY <1>0, <1>3, <1>9 DEF Present, s
<1> QED
  BY <1>6, <1>9, <1>10
-----------------------------------------------------------------------------
PlansOf(plans) == \E f \in Folders : plans = BuildSubfolderGroupPlans(f)

LEMMA PlansFacts ==
    ASSUME NEW plans, PlansOf(plans)
    PROVE  /\ DOMAIN plans \subseteq Group /\ plans \in [DOMAIN plans -> Nat]
           /\ IsFiniteSet(Urls(plans))
<1>1. PICK f \in Folders : plans = BuildSubfolderGroupPlans(f)
  BY DEF PlansOf
<1>2. /\ f.subs \in Seq(Nat) /\ DOMAIN f.subs \subseteq Group
      /\ DOMAIN f.subs = 1..Len(f.subs) /\ Len(f.subs) \in Nat
  BY TabGroupsAssumption
<1> DEFINE D == DOMAIN plans
           F == [i \in D |-> {i} \X (1..plans[i])]
           R == {{i} \X (1..plans[i]) : i \in D}
<1>3. D \subseteq DOMAIN f.subs /\ plans \in [D -> Nat]
  BY <1>1, <1>2 DEF BuildSubfolderGroupPlans
<1>4. IsFiniteSet(D)
  <2>0. 1 \in Int /\ Len(f.subs) \in Int
    BY <1>2
  <2>1. IsFiniteSet(1..Len(f.subs))
    BY <2>0, FS_Interval
  <2> QED
    BY <1>2, <1>3, <2>1, FS_Subset
<1>5. F \in Surjection(D, R)
  BY DEF Surjection
<1>6. IsFiniteSet(R)
  BY <1>4, <1>5, FS_Surjection
<1>7. \A T \in R : IsFiniteSet(T)
  <2> SUFFICES ASSUME NEW i \in D PROVE IsFiniteSet({i} \X (1..plans[i]))
    OBVIOUS
  <2>1. IsFiniteSet({i})
    BY FS_Singleton
  <2>2. IsFiniteSet(1..plans[i])
    BY <1>3, FS_Interval
  <2> QED
    BY <2>1, <2>2, FS_Product
<1>8. IsFiniteSet(UNION R)
  BY <1>6, <1>7, FS_UNION
<1> QED
  BY <1>2, <1>3, <1>8 DEF Urls

(* A window that is opened for some plans: its groups are stretches, and it has no *)
(* more tabs than the plans have URLs.                                             *)
LEMMA OpenedIsOK ==
    ASSUME NEW plans, PlansOf(plans), DoOpenSubfolderGroups(plans)
    PROVE  \/ win' = NoWindow
           \/ WindowOK(win') /\ Len(win'.strip) <= Total(plans)
<1>0. PICK opened \in SUBSET Urls(plans) : \E strip \in Strips(plans, opened) :
          win' = IF opened = {} THEN NoWindow
                 ELSE [strip |-> strip, active |-> 1, collapsed |-> {}]
  BY DEF DoOpenSubfolderGroups
<1>1. PICK strip \in Strips(plans, opened) :
          win' = IF opened = {} THEN NoWindow
                 ELSE [strip |-> strip, active |-> 1, collapsed |-> {}]
  BY <1>0
<1> DEFINE n == Cardinality(opened)
<1>2. IsFiniteSet(opened) /\ n \in Nat /\ n <= Total(plans) /\ (opened # {} => n # 0)
  <2>1. IsFiniteSet(Urls(plans)) /\ opened \in SUBSET Urls(plans)
    BY PlansFacts
  <2>2. IsFiniteSet(opened) /\ n <= Total(plans)
    BY <2>1, FS_Subset DEF Total
  <2> QED
    BY <2>2, FS_CardinalityType, FS_EmptySet
<1> HIDE DEF n
<1>3. /\ strip \in [1..n -> DOMAIN plans]
      /\ \A i, j \in DOMAIN strip : i < j => strip[i] <= strip[j]
  BY DEF Strips, n
<1>4. strip \in Seq(Group \cup {NoGroup}) /\ Len(strip) = n /\ DOMAIN strip = 1..n
  <2>1. strip \in [1..n -> Group \cup {NoGroup}]
    BY <1>3, PlansFacts
  <2> QED
    BY <1>2, <2>1
<1>5. Contiguous(strip)
  <2> SUFFICES ASSUME NEW i \in 1..n, NEW j \in 1..n, i < j, strip[i] = strip[j], NEW k \in i..j
               PROVE  strip[k] = strip[i]
    BY <1>4 DEF Contiguous
  <2>1. k \in 1..n /\ (k = i \/ i < k) /\ (k = j \/ k < j)
    BY <1>2
  <2>2. \A x \in 1..n : strip[x] \in Nat
    BY <1>3, PlansFacts, GroupFacts
  <2>3. strip[i] <= strip[k] /\ strip[k] <= strip[j]
    BY <1>3, <1>4, <2>1, <2>2
  <2> QED
    BY <2>1, <2>2, <2>3
<1>6. CASE opened # {}
  <2> DEFINE v == [strip |-> strip, active |-> 1, collapsed |-> {}]
  <2>1. v \in Windows /\ v.strip = strip /\ v.active = 1 /\ v.collapsed = {} /\ win' = v
    BY <1>1, <1>4, <1>6 DEF Windows
  <2>2. 1 \in DOMAIN strip
    BY <1>2, <1>4, <1>6
  <2> HIDE DEF v
  <2>3. WindowOK(v)
    BY <1>5, <2>1, <2>2 DEF WindowOK
  <2> QED
    BY <1>2, <1>4, <2>1, <2>3
<1> QED
  BY <1>1, <1>6
-----------------------------------------------------------------------------
(* The types of the variables, and the window with its headers. *)
Pass == [running : BOOLEAN, clicked : Group \cup {NoGroup}, target : BOOLEAN,
         todo : SUBSET Group, last : Group \cup {NoGroup}, moves : Nat,
         disturbed : BOOLEAN, intact : BOOLEAN]

Gestures == [phase : {"idle", "recorded", "latched"}, pre : BOOLEAN, before : Snapshots]

TypesOK ==
    /\ folder \in Folders /\ closing \in BOOLEAN
    /\ prompt = NoPlans \/ PlansOf(prompt)
    /\ gesture \in [Group -> Gestures]
    /\ press \in [header : Group \cup {NoGroup}, double : BOOLEAN]
    /\ pass \in Pass

WindowPart ==
    /\ win = NoWindow \/ WindowOK(win)
    /\ press.header \in Present(win) \cup {NoGroup}
    /\ \A g \in Group : gesture[g] = NoGesture \/ g \in Present(win)

(* A question is open only before the window is; a pass runs in a window, between  *)
(* two presses.                                                                    *)
PhasesExclude ==
    /\ prompt # NoPlans => win = NoWindow
    /\ pass.running => win # NoWindow /\ press.header = NoGroup

(* What a header remembers of the clicked group is what it was before the click. *)
GesturesRemember ==
    \A g \in Group : gesture[g].phase # "idle" =>
        g \in DOMAIN gesture[g].before /\ gesture[g].pre = gesture[g].before[g]

(* What is not where the pass wants it is still to be visited; the activation has  *)
(* not moved, or only the last visit moved it.                                     *)
PassRemains ==
    pass.running /\ ~pass.disturbed =>
        /\ \A g \in Present(win) :
              (g \in win.collapsed) # pass.target => g \in pass.todo \cup {pass.last}
        /\ \/ /\ pass.moves = 0
              /\ pass.target => ActiveGroup(win) \notin pass.todo
              /\ pass.last # NoGroup => pass.target /\ pass.last = ActiveGroup(win)
           \/ pass.todo = {} /\ pass.last = NoGroup /\ pass.moves <= 1

GroupsIInv ==
    /\ TypesOK
    /\ WindowPart
    /\ PhasesExclude
    /\ GesturesRemember
    /\ TargetIsFromBeforeTheGesture
    /\ PassRemains

LEMMA NoWindowFacts ==
    /\ NoWindow \in Windows /\ Present(NoWindow) = {} /\ ActiveGroup(NoWindow) = NoGroup
    /\ NoWindow.strip = <<>> /\ NoWindow.collapsed = {} /\ Contiguous(NoWindow.strip)
    /\ ~WindowOK(NoWindow)
<1>1. NoWindow.strip = <<>> /\ NoWindow.collapsed = {} /\ NoWindow.active = 0
  BY DEF NoWindow
<1>2. <<>> \in Seq(Group \cup {NoGroup}) /\ DOMAIN <<>> = {}
  OBVIOUS
<1> QED
  BY <1>1, <1>2 DEF NoWindow, Windows, Present, ActiveGroup, Contiguous, WindowOK

LEMMA NoPlansFacts == NoPlans \in [{} -> Nat]
  BY DEF NoPlans

LEMMA NoGestureFacts == NoGesture \in Gestures /\ NoGesture.phase = "idle"
<1>1. [g \in {} |-> FALSE] \in [{} -> BOOLEAN] /\ {} \in SUBSET Group
  OBVIOUS
<1>2. [g \in {} |-> FALSE] \in Snapshots
  BY <1>1 DEF Snapshots
<1> QED
  BY <1>2 DEF NoGesture, Gestures

LEMMA NoPassFacts == NoPass \in Pass /\ NoPass.running = FALSE
  BY DEF NoPass, Pass

LEMMA SnapshotFacts ==
    ASSUME NEW w, w.strip \in Seq(Group \cup {NoGroup})
    PROVE  /\ Snapshot(w) \in Snapshots /\ DOMAIN Snapshot(w) = Present(w)
           /\ \A g \in Present(w) : Snapshot(w)[g] = (g \in w.collapsed)
<1>1. Present(w) \in SUBSET Group
  BY PresentFacts
<1>2. Snapshot(w) \in [Present(w) -> BOOLEAN]
  BY DEF Snapshot
<1> QED
  BY <1>1, <1>2 DEF Snapshot, Snapshots

(* The inductive invariant gives what the runs check. *)
LEMMA GroupsIInvIsEnough == GroupsIInv => WindowInv /\ PassInv
<1> SUFFICES ASSUME GroupsIInv PROVE WindowInv /\ PassInv
  OBVIOUS
<1> USE DEF GroupsIInv
<1>1. /\ win \in Windows
      /\ ActiveIsExpanded
      /\ GroupsContiguous
  <2>1. CASE win = NoWindow
    BY <2>1, NoWindowFacts DEF ActiveIsExpanded, GroupsContiguous, Contiguous
  <2>2. CASE WindowOK(win)
    BY <2>2 DEF WindowOK, ActiveIsExpanded, GroupsContiguous, Contiguous
  <2> QED
    BY <2>1, <2>2 DEF WindowPart
<1>2. \E S \in SUBSET Group : prompt \in [S -> Nat]
  <2>1. CASE prompt = NoPlans
    BY <2>1, NoPlansFacts
  <2>2. CASE PlansOf(prompt)
    BY <2>2, PlansFacts
  <2> QED
    BY <2>1, <2>2 DEF TypesOK
<1>3. press \in [header : Present(win) \cup {NoGroup}, double : BOOLEAN]
  BY DEF TypesOK, WindowPart
<1>4. GroupsTypeOK
  BY <1>1, <1>2, <1>3 DEF GroupsTypeOK, TypesOK, WindowPart, Windows, Gestures, Pass
<1>5. PassIsUniform
  <2> SUFFICES ASSUME pass.running, PassDone, ~pass.disturbed
               PROVE  /\ \A g \in Present(win) : (g \in win.collapsed) <=> pass.target
                      /\ pass.moves <= 1
    BY DEF PassIsUniform
  <2>1. pass.todo = {} /\ pass.last = NoGroup /\ pass.target \in BOOLEAN
    BY DEF PassDone, TypesOK, Pass
  <2>2. \A g \in Present(win) : (g \in win.collapsed) # pass.target => g = NoGroup
    BY <2>1 DEF PassRemains
  <2>3. NoGroup \notin Present(win)
    BY DEF Present
  <2>4. pass.moves = 0 \/ pass.moves <= 1
    BY DEF PassRemains
  <2> QED
    BY <2>1, <2>2, <2>3, <2>4
<1> QED
  BY <1>1, <1>4, <1>5 DEF WindowInv, PassInv

LEMMA GroupsInitIInv == GroupsInit => GroupsIInv
<1> SUFFICES ASSUME GroupsInit PROVE GroupsIInv
  OBVIOUS
<1>1. TypesOK /\ GesturesRemember
  BY NoGestureFacts, NoPassFacts DEF GroupsInit, TypesOK, GesturesRemember
<1>2. WindowPart
  BY DEF GroupsInit, WindowPart
<1>3. PhasesExclude /\ TargetIsFromBeforeTheGesture /\ PassRemains
  BY NoPassFacts DEF GroupsInit, PhasesExclude, TargetIsFromBeforeTheGesture, PassRemains
<1> QED
  BY <1>1, <1>2, <1>3 DEF GroupsIInv

(* A step of the strip alone, outside a pass, that leaves the set of groups alone. *)
LEMMA WindowStepKeeps ==
    ASSUME GroupsIInv, Quiet, WindowOK(win'), Present(win') = Present(win),
           UNCHANGED <<folder, prompt, closing, gesture, press, pass>>
    PROVE  GroupsIInv'
<1>1. TypesOK' /\ GesturesRemember'
  BY DEF GroupsIInv, TypesOK, GesturesRemember
<1>2. WindowPart'
  BY DEF GroupsIInv, WindowPart
<1>3. PhasesExclude' /\ TargetIsFromBeforeTheGesture' /\ PassRemains'
  BY DEF Quiet, GroupsIInv, PhasesExclude, TargetIsFromBeforeTheGesture, PassRemains
<1> QED
  BY <1>1, <1>2, <1>3 DEF GroupsIInv

LEMMA OpenKeeps ==
    ASSUME GroupsIInv, win = NoWindow,
           win' = NoWindow \/ (WindowOK(win') /\ prompt' = NoPlans),
           prompt' = NoPlans \/ PlansOf(prompt'), folder' \in Folders,
           UNCHANGED <<closing, gesture, press, pass>>
    PROVE  GroupsIInv'
<1>1. TypesOK' /\ GesturesRemember'
  BY DEF GroupsIInv, TypesOK, GesturesRemember
<1>2. press.header = NoGroup /\ (\A g \in Group : gesture[g] = NoGesture) /\ ~pass.running
  BY NoWindowFacts DEF GroupsIInv, WindowPart, PhasesExclude
<1>3. WindowPart'
  BY <1>2 DEF GroupsIInv, WindowPart
<1>4. PhasesExclude' /\ TargetIsFromBeforeTheGesture' /\ PassRemains'
  BY <1>2 DEF GroupsIInv, PhasesExclude, TargetIsFromBeforeTheGesture, PassRemains
<1> QED
  BY <1>1, <1>3, <1>4 DEF GroupsIInv

LEMMA BookmarkStepsKeep ==
    ASSUME GroupsIInv,
           \/ ValidateAndOpenSubfolderGroups
           \/ \E yes \in BOOLEAN : OnBulkOpenPromptAnswered(yes)
           \/ \E f \in Folders : EditBookmarks(f)
    PROVE  GroupsIInv'
<1>0. folder \in Folders /\ (prompt = NoPlans \/ PlansOf(prompt))
      /\ (prompt # NoPlans => win = NoWindow)
  BY DEF GroupsIInv, TypesOK, PhasesExclude
<1>1. CASE ValidateAndOpenSubfolderGroups
  <2> DEFINE plans == BuildSubfolderGroupPlans(folder)
  <2>1. /\ win = NoWindow /\ prompt = NoPlans /\ OpenSubfolderGroupsInNewWindow(plans)
        /\ UNCHANGED <<folder, closing, gesture, press, pass>>
    BY <1>1 DEF ValidateAndOpenSubfolderGroups
  <2>2. PlansOf(plans)
    BY <1>0 DEF PlansOf
  <2> HIDE DEF plans
  <2>3. \/ prompt' = plans /\ win' = win
        \/ DoOpenSubfolderGroups(plans) /\ prompt' = prompt
    BY <2>1 DEF OpenSubfolderGroupsInNewWindow
  <2>4. CASE prompt' = plans /\ win' = win
    BY <1>0, <2>1, <2>2, <2>4, OpenKeeps
  <2>5. CASE DoOpenSubfolderGroups(plans) /\ prompt' = prompt
    <3>1. win' = NoWindow \/ WindowOK(win')
      BY <2>2, <2>5, OpenedIsOK
    <3> QED
      BY <1>0, <2>1, <2>5, <3>1, OpenKeeps
  <2> QED
    BY <2>3, <2>4, <2>5
<1>2. CASE \E yes \in BOOLEAN : OnBulkOpenPromptAnswered(yes)
  <2>1. PICK yes \in BOOLEAN : OnBulkOpenPromptAnswered(yes)
    BY <1>2
  <2>2. /\ win = NoWindow /\ PlansOf(prompt) /\ prompt' = NoPlans
        /\ DoOpenSubfolderGroups(prompt) \/ win' = win
        /\ UNCHANGED <<folder, closing, gesture, press, pass>>
    BY <1>0, <2>1 DEF OnBulkOpenPromptAnswered
  <2>3. win' = NoWindow \/ WindowOK(win')
    BY <2>2, OpenedIsOK
  <2> QED
    BY <1>0, <2>2, <2>3, OpenKeeps
<1>3. CASE \E f \in Folders : EditBookmarks(f)
  BY <1>0, <1>3, OpenKeeps DEF EditBookmarks
<1> QED
  BY <1>1, <1>2, <1>3

LEMMA QuietFacts ==
    ASSUME GroupsIInv, Quiet
    PROVE  /\ ~pass.running /\ WindowOK(win) /\ win \in Windows
           /\ win.strip \in Seq(Group \cup {NoGroup})
           /\ DOMAIN win.strip = 1..Len(win.strip) /\ Len(win.strip) \in Nat
           /\ Present(win) \subseteq Group
<1>1. ~pass.running /\ WindowOK(win)
  BY DEF Quiet, GroupsIInv, WindowPart
<1>2. win \in Windows /\ win.strip \in Seq(Group \cup {NoGroup})
  BY <1>1 DEF WindowOK, Windows
<1> QED
  BY <1>1, <1>2, PresentFacts

(* The placement follows a tab of the group it names, or is the end of the strip. *)
LEMMA NewTabKeeps ==
    ASSUME GroupsIInv, NEW mode \in {"endOfStrip", "endOfGroup", "afterActive"},
           NEW adds \in BOOLEAN, NewTab(mode, adds)
    PROVE  GroupsIInv'
<1>0. /\ Quiet /\ UNCHANGED <<folder, prompt, closing, gesture, press, pass>>
  BY DEF NewTab
<1> DEFINE p == ComputeNewTabPlacement(mode, win, adds)
           n == Len(win.strip)
           i == InsertIndex(win, p)
<1>1. win' = Inserted(win, i, p.group)
  BY DEF NewTab
<1>2. /\ win.strip \in Seq(Group \cup {NoGroup}) /\ n \in Nat /\ DOMAIN win.strip = 1..n
      /\ win.active \in 1..n /\ WindowOK(win)
      /\ ActiveGroup(win) = win.strip[win.active]
  BY <1>0, QuietFacts DEF WindowOK, ActiveGroup
<1>3. /\ i \in 1..(n + 1)
      /\ (p.group = NoGroup /\ i = n + 1) \/ (i > 1 /\ win.strip[i - 1] = p.group)
  <2>1. CASE mode = "endOfStrip"
    <3>1. p = [index |-> 0, group |-> NoGroup]
      BY <1>2, <2>1 DEF ComputeNewTabPlacement
    <3> HIDE DEF p
    <3>2. p.index = 0 /\ p.group = NoGroup
      BY <3>1
    <3> QED
      BY <1>2, <3>2 DEF InsertIndex
  <2>2. CASE mode = "afterActive"
    <3>1. p = [index |-> win.active + 1, group |-> ActiveGroup(win)]
      BY <1>2, <2>2 DEF ComputeNewTabPlacement
    <3> HIDE DEF p
    <3>2. p.index = win.active + 1 /\ p.group = ActiveGroup(win)
      BY <3>1
    <3> QED
      BY <1>2, <3>2 DEF InsertIndex
  <2>3. CASE mode = "endOfGroup"
    <3>1. p = [index |-> 0, group |-> IF adds THEN ActiveGroup(win) ELSE NoGroup]
      BY <1>2, <2>3 DEF ComputeNewTabPlacement
    <3> HIDE DEF p
    <3>2. p.index = 0 /\ (p.group = NoGroup \/ p.group = ActiveGroup(win))
      BY <3>1
    <3>3. CASE p.group = NoGroup
      BY <1>2, <3>2, <3>3 DEF InsertIndex
    <3>4. CASE p.group # NoGroup
      <4>1. p.group \in Present(win)
        BY <1>2, <3>2, <3>4, PresentFacts
      <4>2. LastOf(win, p.group) \in 1..n /\ win.strip[LastOf(win, p.group)] = p.group
        BY <1>2, <4>1, RangeOfAGroup
      <4>3. i = LastOf(win, p.group) + 1
        BY <3>2, <3>4 DEF InsertIndex
      <4> QED
        BY <1>2, <4>2, <4>3
    <3> QED
      BY <3>3, <3>4
  <2> QED
    BY <2>1, <2>2, <2>3
<1> HIDE DEF p, i
<1>4. WindowOK(win') /\ Present(win') = Present(win)
  BY <1>1, <1>2, <1>3, InsertedIsOK
<1> QED
  BY <1>0, <1>4, WindowStepKeeps

LEMMA ActivateTabKeeps ==
    ASSUME GroupsIInv, NEW i \in DOMAIN win.strip, ActivateTab(i)
    PROVE  GroupsIInv'
<1> DEFINE w == [win EXCEPT !.active = i]
<1>1. Quiet /\ win' = Settle(w) /\ UNCHANGED <<folder, prompt, closing, gesture, press, pass>>
  BY DEF ActivateTab
<1>2. win \in Windows /\ i \in Nat /\ Contiguous(win.strip)
  BY <1>1, QuietFacts DEF WindowOK
<1>3. w \in Windows /\ w.active = i /\ w.strip = win.strip
  BY <1>2 DEF Windows
<1> HIDE DEF w
<1>4. WindowOK(win') /\ win'.strip = win.strip
  BY <1>1, <1>2, <1>3, SettleIsOK
<1>5. Present(win') = Present(win)
  BY <1>4 DEF Present
<1> QED
  BY <1>1, <1>4, <1>5, WindowStepKeeps

LEMMA ToggleElsewhereKeeps ==
    ASSUME GroupsIInv, NEW g \in Group, ToggleElsewhere(g)
    PROVE  GroupsIInv'
<1>1. /\ Quiet /\ g \in Present(win) /\ win' \in Toggled(win, g)
      /\ UNCHANGED <<folder, prompt, closing, gesture, press, pass>>
  BY DEF ToggleElsewhere
<1>2. WindowOK(win') /\ Present(win') = Present(win)
  BY <1>1, QuietFacts, ToggledIsOK
<1> QED
  BY <1>1, <1>2, WindowStepKeeps

(* Headers keep their gestures as long as their group is there. *)
LEMMA HeadersFacts ==
    ASSUME GroupsIInv, NEW w
    PROVE  LET ges == Headers(w, gesture)
           IN  /\ ges \in [Group -> Gestures]
               /\ \A g \in Group : ges[g] = NoGesture \/ g \in Present(w)
               /\ \A g \in Group : ges[g].phase # "idle" =>
                     g \in DOMAIN ges[g].before /\ ges[g].pre = ges[g].before[g]
<1>1. gesture \in [Group -> Gestures]
  BY DEF GroupsIInv, TypesOK
<1>2. \A g \in Group : Headers(w, gesture)[g] = gesture[g] \/ Headers(w, gesture)[g] = NoGesture
  BY DEF Headers
<1> QED
  BY <1>1, <1>2, NoGestureFacts DEF Headers, GroupsIInv, GesturesRemember

LEMMA CloseGroupKeeps ==
    ASSUME GroupsIInv, NEW g \in Group, CloseGroup(g)
    PROVE  GroupsIInv'
<1>1. /\ Quiet /\ g \in Present(win) /\ win' \in Removed(win, g)
      /\ gesture' = Headers(win', gesture)
      /\ press' = IF press.header = g THEN [header |-> NoGroup, double |-> FALSE] ELSE press
      /\ UNCHANGED <<folder, prompt, closing, pass>>
  BY DEF CloseGroup
<1>2. WindowOK(win') /\ Present(win') = Present(win) \ {g}
  BY <1>1, QuietFacts, RemovedIsOK
<1>3. /\ gesture' \in [Group -> Gestures]
      /\ \A h \in Group : gesture'[h] = NoGesture \/ h \in Present(win')
      /\ \A h \in Group : gesture'[h].phase # "idle" =>
            h \in DOMAIN gesture'[h].before /\ gesture'[h].pre = gesture'[h].before[h]
  BY <1>1, HeadersFacts
<1>4. /\ press' \in [header : Group \cup {NoGroup}, double : BOOLEAN]
      /\ press'.header \in Present(win') \cup {NoGroup}
  BY <1>1, <1>2 DEF GroupsIInv, TypesOK, WindowPart
<1>5. TypesOK' /\ GesturesRemember'
  BY <1>1, <1>3, <1>4 DEF GroupsIInv, TypesOK, GesturesRemember
<1>6. WindowPart'
  BY <1>2, <1>3, <1>4 DEF WindowPart
<1>7. PhasesExclude' /\ TargetIsFromBeforeTheGesture' /\ PassRemains'
  BY <1>1 DEF Quiet, GroupsIInv, PhasesExclude, TargetIsFromBeforeTheGesture, PassRemains
<1> QED
  BY <1>5, <1>6, <1>7 DEF GroupsIInv

(* A step of the headers alone. *)
LEMMA HeaderStepKeeps ==
    ASSUME GroupsIInv, Quiet, NEW g \in Group, NEW new \in Gestures,
           gesture' = [gesture EXCEPT ![g] = new],
           new = NoGesture \/ (g \in Present(win) /\ new.before = gesture[g].before
                               /\ new.pre = gesture[g].pre /\ gesture[g].phase # "idle"),
           press' \in [header : Present(win) \cup {NoGroup}, double : BOOLEAN],
           UNCHANGED <<folder, prompt, win, closing, pass>>
    PROVE  GroupsIInv'
<1>0. gesture \in [Group -> Gestures] /\ Present(win) \subseteq Group
  BY QuietFacts DEF GroupsIInv, TypesOK
<1>1. TypesOK'
  BY <1>0 DEF GroupsIInv, TypesOK
<1>2. GesturesRemember'
  BY <1>0, NoGestureFacts DEF GroupsIInv, GesturesRemember
<1>3. WindowPart'
  BY <1>0 DEF GroupsIInv, WindowPart
<1>4. PhasesExclude' /\ TargetIsFromBeforeTheGesture' /\ PassRemains'
  BY DEF Quiet, GroupsIInv, PhasesExclude, TargetIsFromBeforeTheGesture, PassRemains
<1> QED
  BY <1>1, <1>2, <1>3, <1>4 DEF GroupsIInv

LEMMA OnLeftPressKeeps ==
    ASSUME GroupsIInv, NEW g \in Group, NEW double \in BOOLEAN, NEW recent \in BOOLEAN,
           OnLeftPress(g, double, recent)
    PROVE  GroupsIInv'
<1> DEFINE new == IF Latches(g, double, recent) THEN [gesture[g] EXCEPT !.phase = "latched"]
                  ELSE NoGesture
<1>1. /\ Quiet /\ g \in Present(win) /\ press' = [header |-> g, double |-> double]
      /\ gesture' = [gesture EXCEPT ![g] = new]
      /\ UNCHANGED <<folder, prompt, win, closing, pass>>
  BY DEF OnLeftPress
<1>2. gesture[g] \in Gestures
  BY DEF GroupsIInv, TypesOK
<1>3. CASE Latches(g, double, recent)
  <2>1. /\ new \in Gestures /\ new.before = gesture[g].before /\ new.pre = gesture[g].pre
        /\ gesture[g].phase # "idle"
    BY <1>2, <1>3 DEF Latches, Gestures
  <2> HIDE DEF new
  <2> QED
    BY <1>1, <2>1, HeaderStepKeeps
<1>4. CASE ~Latches(g, double, recent)
  <2>1. new = NoGesture
    BY <1>4
  <2> HIDE DEF new
  <2> QED
    BY <1>1, <2>1, NoGestureFacts, HeaderStepKeeps
<1> QED
  BY <1>3, <1>4

LEMMA HeaderResetsKeep ==
    ASSUME GroupsIInv, NEW g \in Group, Reset(g) \/ OnDragEnds(g)
    PROVE  GroupsIInv'
<1>1. /\ Quiet /\ gesture' = [gesture EXCEPT ![g] = NoGesture]
      /\ press' = press \/ press' = [header |-> NoGroup, double |-> FALSE]
      /\ UNCHANGED <<folder, prompt, win, closing, pass>>
  BY DEF Reset, OnDragEnds
<1>2. press' \in [header : Present(win) \cup {NoGroup}, double : BOOLEAN]
  <2>1. CASE press' = press
    BY <2>1 DEF GroupsIInv, TypesOK, WindowPart
  <2>2. CASE press' = [header |-> NoGroup, double |-> FALSE]
    BY <2>2
  <2> QED
    BY <1>1, <2>1, <2>2
<1> QED
  BY <1>1, <1>2, NoGestureFacts, HeaderStepKeeps

(* A release that only toggles: the header remembers the window as it was. *)
LEMMA SingleToggleKeeps ==
    ASSUME GroupsIInv, Quiet, NEW g \in Group, press.header = g,
           press' = [header |-> NoGroup, double |-> FALSE],
           gesture' = [gesture EXCEPT ![g] = RecordSingleToggle(g)],
           win' \in Toggled(win, g),
           UNCHANGED <<folder, prompt, closing, pass>>
    PROVE  GroupsIInv'
<1>0. /\ gesture \in [Group -> Gestures] /\ win.strip \in Seq(Group \cup {NoGroup})
      /\ g \in Present(win) /\ WindowOK(win)
  BY QuietFacts, GroupFacts DEF GroupsIInv, TypesOK, WindowPart
<1>1. WindowOK(win') /\ Present(win') = Present(win)
  BY <1>0, ToggledIsOK
<1> DEFINE new == RecordSingleToggle(g)
<1>2. /\ Snapshot(win) \in Snapshots /\ g \in DOMAIN Snapshot(win)
      /\ Snapshot(win)[g] = (g \in win.collapsed)
  BY <1>0, SnapshotFacts
<1>3. /\ new \in Gestures /\ g \in DOMAIN new.before /\ new.pre = new.before[g]
  <2>1. /\ new.phase = "recorded" /\ new.pre = (g \in win.collapsed)
        /\ new.before = Snapshot(win)
    BY DEF RecordSingleToggle
  <2>2. new \in Gestures
    BY <1>2 DEF RecordSingleToggle, Gestures
  <2> HIDE DEF new
  <2> QED
    BY <1>2, <2>1, <2>2
<1> HIDE DEF new
<1>4. TypesOK' /\ GesturesRemember'
  <2>1. TypesOK'
    BY <1>0, <1>3 DEF GroupsIInv, TypesOK, new
  <2>2. GesturesRemember'
    BY <1>0, <1>3 DEF GroupsIInv, GesturesRemember, new
  <2> QED
    BY <2>1, <2>2
<1>5. WindowPart'
  BY <1>0, <1>1 DEF GroupsIInv, WindowPart
<1>6. PhasesExclude' /\ TargetIsFromBeforeTheGesture' /\ PassRemains'
  BY DEF Quiet, GroupsIInv, PhasesExclude, TargetIsFromBeforeTheGesture, PassRemains
<1> QED
  BY <1>4, <1>5, <1>6 DEF GroupsIInv

(* The plan made when a gesture is consumed: it has the target of the window before *)
(* the gesture, and plans a visit to everything that is not there yet.              *)
LEMMA PlanIsOK ==
    ASSUME NEW w, WindowOK(w), NEW g \in Present(w), NEW before \in Snapshots,
           g \in DOMAIN before, EqualExceptClickedFlipped(before, Snapshot(w), g)
    PROVE  LET q == PlanDoubleClickAll(w, g, before[g])
           IN  /\ q \in Pass /\ q.running /\ q.moves = 0
               /\ q.target <=> \A h \in DOMAIN before : ~before[h]
               /\ \A h \in Present(w) :
                     (h \in w.collapsed) # q.target => h \in q.todo \cup {q.last}
               /\ q.target => ActiveGroup(w) \notin q.todo
               /\ q.last # NoGroup => q.target /\ q.last = ActiveGroup(w)
<1> DEFINE now == Snapshot(w)
           target == PlanTarget(now, g, before[g])
           toggle == {h \in Present(w) : (h \in w.collapsed) # target}
           last == ActiveLast(w, target)
           q == PlanDoubleClickAll(w, g, before[g])
<1>0. /\ w.strip \in Seq(Group \cup {NoGroup}) /\ Present(w) \subseteq Group
      /\ NoGroup \notin Present(w) /\ w.active \in DOMAIN w.strip
      /\ ActiveGroup(w) \in Group \cup {NoGroup}
  BY PresentFacts DEF WindowOK, Windows, ActiveGroup, Present
<1>1. /\ DOMAIN now = Present(w) /\ DOMAIN before = DOMAIN now
      /\ \A h \in DOMAIN before : now[h] = (IF h = g THEN ~before[h] ELSE before[h])
  BY <1>0, SnapshotFacts DEF EqualExceptClickedFlipped
<1>2. target <=> \A h \in DOMAIN before : ~before[h]
  BY <1>1 DEF PlanTarget
<1>3. target \in BOOLEAN
  BY DEF PlanTarget
<1>4. q = [running |-> TRUE, clicked |-> g, target |-> target, todo |-> toggle \ {last},
           last |-> IF last \in toggle THEN last ELSE NoGroup,
           moves |-> 0, disturbed |-> FALSE, intact |-> TRUE]
  BY DEF PlanDoubleClickAll
<1>5. last = IF target THEN ActiveGroup(w) ELSE NoGroup
  BY DEF ActiveLast
<1>6. toggle \in SUBSET Group
  BY <1>0
<1> HIDE DEF target, last, toggle, q
<1>7. q \in Pass
  BY <1>0, <1>3, <1>4, <1>5, <1>6 DEF Pass
<1>8. /\ q.running /\ q.moves = 0 /\ q.target = target
      /\ q.todo = toggle \ {last} /\ q.last = IF last \in toggle THEN last ELSE NoGroup
  BY <1>4
<1>9. \A h \in Present(w) : (h \in w.collapsed) # q.target => h \in toggle
  BY <1>8 DEF toggle
<1>10. \A h \in Present(w) : (h \in w.collapsed) # q.target => h \in q.todo \cup {q.last}
  BY <1>8, <1>9
<1>11. q.target => ActiveGroup(w) \notin q.todo
  BY <1>5, <1>8
<1>12. q.last # NoGroup => q.target /\ q.last = ActiveGroup(w)
  BY <1>5, <1>8
<1> QED
  BY <1>2, <1>7, <1>8, <1>10, <1>11, <1>12 DEF q

LEMMA OnLeftReleaseKeeps ==
    ASSUME GroupsIInv, NEW g \in Group, OnLeftRelease(g)
    PROVE  GroupsIInv'
<1>0. /\ Quiet /\ press.header = g /\ press' = [header |-> NoGroup, double |-> FALSE]
      /\ UNCHANGED <<folder, prompt, closing>>
  BY DEF OnLeftRelease
<1>1. CASE press.double /\ ConsumeOnDoubleClickRelease(g)
  <2> DEFINE before == gesture[g].before
             intact == \A h \in DOMAIN before : ~before[h]
             q == PlanDoubleClickAll(win, g, before[g])
             p == [q EXCEPT !.intact = intact]
  <2>1. /\ gesture' = [gesture EXCEPT ![g] = NoGesture] /\ win' = win
        /\ pass' = [PlanDoubleClickAll(win, g, gesture[g].pre) EXCEPT !.intact = intact]
    BY <1>1 DEF OnLeftRelease
  <2>2. /\ gesture \in [Group -> Gestures] /\ WindowOK(win) /\ g \in Present(win)
        /\ g \in DOMAIN before /\ gesture[g].pre = before[g] /\ before \in Snapshots
        /\ EqualExceptClickedFlipped(before, Snapshot(win), g)
    BY <1>0, <1>1, QuietFacts, GroupFacts
       DEF ConsumeOnDoubleClickRelease, GroupsIInv, TypesOK, WindowPart, GesturesRemember, Gestures
  <2>3. pass' = p
    BY <2>1, <2>2
  <2>3a. intact \in BOOLEAN /\ (intact <=> \A h \in DOMAIN before : ~before[h])
    OBVIOUS
  <2>3b. /\ q \in Pass /\ q.running /\ q.moves = 0
         /\ q.target <=> \A h \in DOMAIN before : ~before[h]
         /\ \A h \in Present(win) :
               (h \in win.collapsed) # q.target => h \in q.todo \cup {q.last}
         /\ q.target => ActiveGroup(win) \notin q.todo
         /\ q.last # NoGroup => q.target /\ q.last = ActiveGroup(win)
    BY <2>2, PlanIsOK
  <2> HIDE DEF before, intact, q
  <2>4. /\ p \in Pass /\ p.running = q.running /\ p.moves = q.moves /\ p.target = q.target
        /\ p.intact = intact /\ p.todo = q.todo /\ p.last = q.last
    BY <2>3a, <2>3b DEF Pass
  <2> HIDE DEF p
  <2>5. TypesOK'
    BY <1>0, <2>1, <2>2, <2>3, <2>4, NoGestureFacts DEF GroupsIInv, TypesOK
  <2>6. GesturesRemember'
    BY <2>1, <2>2, NoGestureFacts DEF GroupsIInv, GesturesRemember
  <2>7. WindowPart'
    BY <1>0, <2>1, <2>2 DEF GroupsIInv, WindowPart
  <2>8. PhasesExclude' /\ TargetIsFromBeforeTheGesture'
    BY <1>0, <2>1, <2>3, <2>3a, <2>3b, <2>4
       DEF Quiet, GroupsIInv, PhasesExclude, TargetIsFromBeforeTheGesture
  <2>9. PassRemains'
    BY <2>1, <2>3, <2>3b, <2>4 DEF PassRemains
  <2> QED
    BY <2>5, <2>6, <2>7, <2>8, <2>9 DEF GroupsIInv
<1>2. CASE ~(press.double /\ ConsumeOnDoubleClickRelease(g))
  <2>1. /\ gesture' = [gesture EXCEPT ![g] = RecordSingleToggle(g)]
        /\ win' \in Toggled(win, g) /\ pass' = pass
    BY <1>2 DEF OnLeftRelease
  <2> QED
    BY <1>0, <2>1, SingleToggleKeeps
<1> QED
  BY <1>1, <1>2
-----------------------------------------------------------------------------
(* A pass runs in a window that is there. *)
LEMMA RunningFacts ==
    ASSUME GroupsIInv, pass.running
    PROVE  /\ WindowOK(win) /\ win # NoWindow /\ prompt = NoPlans /\ press.header = NoGroup
           /\ pass \in Pass
  BY DEF GroupsIInv, TypesOK, WindowPart, PhasesExclude

(* A toggle of the pass brings its group to the target and touches no other. *)
LEMMA PassToggleFacts ==
    ASSUME WindowOK(win), pass.target \in BOOLEAN, NEW g, PassToggle(g)
    PROVE  /\ WindowOK(win') /\ Present(win') = Present(win)
           /\ \A h \in Present(win) : h # g => (h \in win'.collapsed <=> h \in win.collapsed)
           /\ g \in Present(win) => (g \in win'.collapsed <=> pass.target)
           /\ \/ win' = win
              \/ win'.strip = win.strip /\ win'.active = win.active
              \/ pass.target /\ ActiveGroup(win) = g
<1>1. CASE g \in Present(win) /\ (g \in win.collapsed) # pass.target
  <2>1. g \in Present(win) /\ win' \in Toggled(win, g)
    BY <1>1 DEF PassToggle
  <2>2. /\ WindowOK(win') /\ Present(win') = Present(win)
        /\ g \in win.collapsed => win'.collapsed = win.collapsed \ {g}
        /\ g \notin win.collapsed => win'.collapsed = win.collapsed \cup {g}
        /\ g \in win.collapsed \/ ActiveGroup(win) # g
             => win'.strip = win.strip /\ win'.active = win.active
    BY <2>1, ToggledIsOK
  <2>3. (g \in win.collapsed) <=> ~pass.target
    BY <1>1
  <2> QED
    BY <2>2, <2>3
<1>2. CASE ~(g \in Present(win) /\ (g \in win.collapsed) # pass.target)
  <2>1. win' = win
    BY <1>2 DEF PassToggle
  <2> QED
    BY <1>2, <2>1
<1> QED
  BY <1>1, <1>2

(* What one iteration of the pass does to the pass and to the window. *)
LEMMA IterationFacts ==
    ASSUME GroupsIInv, PassStep
    PROVE  \E g \in pass.todo \cup {pass.last} :
             /\ pass.todo # {} => g \in pass.todo
             /\ pass' \in Pass /\ pass'.running /\ pass'.target = pass.target
             /\ pass'.intact = pass.intact /\ pass'.disturbed = pass.disturbed
             /\ pass'.todo = pass.todo \ {g}
             /\ pass'.last = IF pass.last = g THEN NoGroup ELSE pass.last
             /\ pass'.moves = IF win'.active = win.active THEN pass.moves ELSE pass.moves + 1
             /\ WindowOK(win') /\ Present(win') = Present(win)
             /\ \A h \in Present(win) : h # g => (h \in win'.collapsed <=> h \in win.collapsed)
             /\ g \in Present(win) => (g \in win'.collapsed <=> pass.target)
             /\ \/ win' = win
                \/ win'.strip = win.strip /\ win'.active = win.active
                \/ pass.target /\ ActiveGroup(win) = g
<1>1. /\ pass.running /\ pass \in Pass /\ WindowOK(win)
  BY RunningFacts DEF PassStep
<1>2. PICK g \in IF pass.todo # {} THEN pass.todo ELSE {pass.last} :
         /\ PassToggle(g)
         /\ pass' = [Visited(g) EXCEPT !.moves = IF win'.active = win.active THEN @ ELSE @ + 1]
  BY DEF PassStep
<1> DEFINE q == Visited(g)
<1>3. /\ q \in Pass /\ q.running = pass.running /\ q.target = pass.target
      /\ q.intact = pass.intact /\ q.disturbed = pass.disturbed /\ q.moves = pass.moves
      /\ q.todo = pass.todo \ {g}
      /\ q.last = IF pass.last = g THEN NoGroup ELSE pass.last
  BY <1>1 DEF Visited, Pass
<1> DEFINE m == IF win'.active = win.active THEN pass.moves ELSE pass.moves + 1
<1>4. pass' = [q EXCEPT !.moves = m]
  BY <1>2, <1>3
<1>4a. m \in Nat
  BY <1>1 DEF Pass
<1> HIDE DEF q, m
<1>5. /\ pass' \in Pass /\ pass'.running /\ pass'.target = pass.target
      /\ pass'.intact = pass.intact /\ pass'.disturbed = pass.disturbed
      /\ pass'.todo = pass.todo \ {g}
      /\ pass'.last = IF pass.last = g THEN NoGroup ELSE pass.last
      /\ pass'.moves = m
  BY <1>1, <1>3, <1>4, <1>4a DEF Pass
<1>6. pass.target \in BOOLEAN
  BY <1>1 DEF Pass
<1>7. /\ WindowOK(win') /\ Present(win') = Present(win)
      /\ \A h \in Present(win) : h # g => (h \in win'.collapsed <=> h \in win.collapsed)
      /\ g \in Present(win) => (g \in win'.collapsed <=> pass.target)
      /\ \/ win' = win
         \/ win'.strip = win.strip /\ win'.active = win.active
         \/ pass.target /\ ActiveGroup(win) = g
  BY <1>1, <1>2, <1>6, PassToggleFacts
<1> QED
  BY <1>2, <1>5, <1>7 DEF m

LEMMA PassStepKeeps ==
    ASSUME GroupsIInv, PassStep
    PROVE  GroupsIInv'
<1>0. /\ pass.running /\ ~PassDone /\ UNCHANGED <<folder, prompt, closing, gesture, press>>
      /\ pass \in Pass
  BY RunningFacts DEF PassStep
<1>1. PICK g \in pass.todo \cup {pass.last} :
        /\ pass.todo # {} => g \in pass.todo
        /\ pass' \in Pass /\ pass'.running /\ pass'.target = pass.target
        /\ pass'.intact = pass.intact /\ pass'.disturbed = pass.disturbed
        /\ pass'.todo = pass.todo \ {g}
        /\ pass'.last = IF pass.last = g THEN NoGroup ELSE pass.last
        /\ pass'.moves = IF win'.active = win.active THEN pass.moves ELSE pass.moves + 1
        /\ WindowOK(win') /\ Present(win') = Present(win)
        /\ \A h \in Present(win) : h # g => (h \in win'.collapsed <=> h \in win.collapsed)
        /\ g \in Present(win) => (g \in win'.collapsed <=> pass.target)
        /\ \/ win' = win
           \/ win'.strip = win.strip /\ win'.active = win.active
           \/ pass.target /\ ActiveGroup(win) = g
  BY IterationFacts
<1>2. TypesOK' /\ GesturesRemember'
  BY <1>0, <1>1 DEF GroupsIInv, TypesOK, GesturesRemember
<1>3. WindowPart'
  BY <1>0, <1>1 DEF GroupsIInv, WindowPart
<1>4. PhasesExclude' /\ TargetIsFromBeforeTheGesture'
  <2>1. win' # NoWindow
    BY <1>1, NoWindowFacts
  <2> QED
    BY <1>0, <1>1, <2>1, RunningFacts DEF GroupsIInv, PhasesExclude, TargetIsFromBeforeTheGesture
<1>5. ASSUME ~pass.disturbed
      PROVE  /\ \A h \in Present(win') :
                   (h \in win'.collapsed) # pass'.target => h \in pass'.todo \cup {pass'.last}
             /\ \/ /\ pass'.moves = 0
                   /\ pass'.target => ActiveGroup(win') \notin pass'.todo
                   /\ pass'.last # NoGroup => pass'.target /\ pass'.last = ActiveGroup(win')
                \/ pass'.todo = {} /\ pass'.last = NoGroup /\ pass'.moves <= 1
  <2>0. pass.target \in BOOLEAN
    BY <1>0 DEF Pass
  <2>1. /\ \A h \in Present(win) :
              (h \in win.collapsed) # pass.target => h \in pass.todo \cup {pass.last}
        /\ pass.moves = 0
        /\ pass.target => ActiveGroup(win) \notin pass.todo
        /\ pass.last # NoGroup => pass.target /\ pass.last = ActiveGroup(win)
    BY <1>0, <1>5 DEF GroupsIInv, PassRemains, PassDone
  <2>2. \A h \in Present(win') :
          (h \in win'.collapsed) # pass'.target => h \in pass'.todo \cup {pass'.last}
    <3> SUFFICES ASSUME NEW h \in Present(win), (h \in win'.collapsed) # pass.target
                 PROVE  h \in pass'.todo \cup {pass'.last}
      BY <1>1
    <3>1. h # g
      BY <1>1, <2>0
    <3>2. (h \in win.collapsed) # pass.target
      BY <1>1, <2>0, <3>1
    <3>3. h \in pass.todo \cup {pass.last}
      BY <2>1, <3>2
    <3> QED
      BY <1>1, <3>1, <3>3
  <2>3. CASE pass.todo # {}
    <3>1. g \in pass.todo
      BY <1>1, <2>3
    <3>2. win'.strip = win.strip /\ win'.active = win.active
      BY <1>1, <2>1, <3>1
    <3>3. ActiveGroup(win') = ActiveGroup(win)
      BY <3>2 DEF ActiveGroup
    <3> QED
      BY <1>1, <2>1, <2>2, <3>2, <3>3
  <2>4. CASE pass.todo = {}
    <3>1. g = pass.last
      BY <2>4
    <3>2. pass'.todo = {} /\ pass'.last = NoGroup /\ pass'.moves <= 1
      BY <1>1, <2>1, <2>4, <3>1
    <3> QED
      BY <2>2, <3>2
  <2> QED
    BY <2>3, <2>4
<1>6. PassRemains'
  BY <1>1, <1>5 DEF PassRemains
<1> QED
  BY <1>2, <1>3, <1>4, <1>6 DEF GroupsIInv

LEMMA ObserverActsKeeps ==
    ASSUME GroupsIInv, NEW g \in Group, ObserverActs(g)
    PROVE  GroupsIInv'
<1>1. /\ pass.running /\ g \in Present(win) /\ win' \in Toggled(win, g) \cup Removed(win, g)
      /\ gesture' = Headers(win', gesture) /\ pass' = [pass EXCEPT !.disturbed = TRUE]
      /\ UNCHANGED <<folder, prompt, closing, press>>
  BY DEF ObserverActs
<1>2. /\ WindowOK(win) /\ prompt = NoPlans /\ press.header = NoGroup /\ pass \in Pass
  BY <1>1, RunningFacts
<1>3. WindowOK(win')
  <2>1. CASE win' \in Toggled(win, g)
    BY <1>1, <1>2, <2>1, ToggledIsOK
  <2>2. CASE win' \in Removed(win, g)
    BY <1>1, <1>2, <2>2, RemovedIsOK
  <2> QED
    BY <1>1, <2>1, <2>2
<1>4. /\ gesture' \in [Group -> Gestures]
      /\ \A h \in Group : gesture'[h] = NoGesture \/ h \in Present(win')
      /\ \A h \in Group : gesture'[h].phase # "idle" =>
            h \in DOMAIN gesture'[h].before /\ gesture'[h].pre = gesture'[h].before[h]
  BY <1>1, HeadersFacts
<1>5. /\ pass' \in Pass /\ pass'.disturbed /\ pass'.target = pass.target
      /\ pass'.intact = pass.intact /\ pass'.running
  BY <1>1, <1>2 DEF Pass
<1>6. TypesOK' /\ GesturesRemember'
  BY <1>1, <1>4, <1>5 DEF GroupsIInv, TypesOK, GesturesRemember
<1>7. WindowPart'
  BY <1>1, <1>2, <1>3, <1>4 DEF WindowPart
<1>8. PhasesExclude'
  <2>1. win' # NoWindow
    BY <1>3, NoWindowFacts
  <2> QED
    BY <1>1, <1>2, <2>1 DEF PhasesExclude
<1>9. TargetIsFromBeforeTheGesture' /\ PassRemains'
  BY <1>1, <1>5 DEF GroupsIInv, TargetIsFromBeforeTheGesture, PassRemains
<1> QED
  BY <1>6, <1>7, <1>8, <1>9 DEF GroupsIInv

LEMMA PassBoundsKeep ==
    ASSUME GroupsIInv, PassEnds \/ CloseWindow \/ UNCHANGED groupVars
    PROVE  GroupsIInv'
<1>1. CASE PassEnds
  <2>1. pass' = NoPass /\ UNCHANGED <<folder, prompt, win, closing, gesture, press>>
    BY <1>1 DEF PassEnds
  <2>2. TypesOK' /\ GesturesRemember' /\ WindowPart'
    BY <2>1, NoPassFacts DEF GroupsIInv, TypesOK, GesturesRemember, WindowPart
  <2>3. PhasesExclude' /\ TargetIsFromBeforeTheGesture' /\ PassRemains'
    BY <2>1, NoPassFacts
       DEF GroupsIInv, PhasesExclude, TargetIsFromBeforeTheGesture, PassRemains
  <2> QED
    BY <2>2, <2>3 DEF GroupsIInv
<1>2. CASE CloseWindow \/ UNCHANGED groupVars
  <2>1. closing' \in BOOLEAN /\ UNCHANGED <<folder, prompt, win, gesture, press, pass>>
    BY <1>2 DEF CloseWindow, groupVars, GroupsIInv, TypesOK
  <2>2. TypesOK' /\ GesturesRemember' /\ WindowPart'
    BY <2>1 DEF GroupsIInv, TypesOK, GesturesRemember, WindowPart
  <2>3. PhasesExclude' /\ TargetIsFromBeforeTheGesture' /\ PassRemains'
    BY <2>1 DEF GroupsIInv, PhasesExclude, TargetIsFromBeforeTheGesture, PassRemains
  <2> QED
    BY <2>2, <2>3 DEF GroupsIInv
<1> QED
  BY <1>1, <1>2

LEMMA GroupsNextIInv == GroupsIInv /\ [GroupsNext]_groupVars => GroupsIInv'
<1> SUFFICES ASSUME GroupsIInv, [GroupsNext]_groupVars PROVE GroupsIInv'
  OBVIOUS
<1>1. CASE \/ ValidateAndOpenSubfolderGroups
           \/ \E yes \in BOOLEAN : OnBulkOpenPromptAnswered(yes)
           \/ \E f \in Folders : EditBookmarks(f)
  BY <1>1, BookmarkStepsKeep
<1>2. CASE \E mode \in {"endOfStrip", "endOfGroup", "afterActive"}, adds \in BOOLEAN :
              NewTab(mode, adds)
  BY <1>2, NewTabKeeps
<1>3. CASE \E i \in DOMAIN win.strip : ActivateTab(i)
  BY <1>3, ActivateTabKeeps
<1>4. ASSUME NEW g \in Group,
             \/ CloseGroup(g) \/ ToggleElsewhere(g) \/ Reset(g)
             \/ \E double, recent \in BOOLEAN : OnLeftPress(g, double, recent)
             \/ OnLeftRelease(g) \/ OnDragEnds(g) \/ ObserverActs(g)
      PROVE  GroupsIInv'
  BY <1>4, CloseGroupKeeps, ToggleElsewhereKeeps, HeaderResetsKeep, OnLeftPressKeeps,
     OnLeftReleaseKeeps, ObserverActsKeeps
<1>5. CASE PassStep
  BY <1>5, PassStepKeeps
<1>6. CASE PassEnds \/ CloseWindow \/ UNCHANGED groupVars
  BY <1>6, PassBoundsKeep
<1> QED
  BY <1>1, <1>2, <1>3, <1>4, <1>5, <1>6 DEF GroupsNext

LEMMA GroupsSpecIInv == GroupsSpec => []GroupsIInv
  BY GroupsInitIInv, GroupsNextIInv, PTL DEF GroupsSpec

(* Between any two events the window is as the strip wants it, whatever was opened, *)
(* inserted, closed or toggled, for any number of groups and tabs: every group one  *)
(* stretch, the active tab's group expanded, and no header, press or gesture of a   *)
(* group that is gone.                                                              *)
THEOREM WindowIsSound == GroupsSpec => []WindowInv
  BY GroupsSpecIInv, GroupsIInvIsEnough, PTL

(* The bulk pass of a double click: the target is the one of the window before the  *)
(* first click, and an undisturbed pass ends with every group there and the         *)
(* activation moved at most once.                                                   *)
THEOREM PassReachesItsTarget == GroupsSpec => []PassInv
  BY GroupsSpecIInv, GroupsIInvIsEnough, PTL

(* Many tabs open only after the question, and no more than it spoke of, whatever   *)
(* is done to the bookmarks while it is open.                                       *)
THEOREM BulkOpensAreConsented == GroupsSpec => BulkOpenIsConsented
<1> DEFINE A == win = NoWindow /\ win' # NoWindow
                  => Len(win'.strip) < Threshold \/ Len(win'.strip) <= Total(prompt)
<1>1. GroupsIInv /\ [GroupsNext]_groupVars => [A]_groupVars
  <2> SUFFICES ASSUME GroupsIInv, GroupsNext, win = NoWindow, win' # NoWindow
               PROVE  Len(win'.strip) < Threshold \/ Len(win'.strip) <= Total(prompt)
    BY DEF A, groupVars
  <2>0. ~Quiet /\ ~pass.running /\ folder \in Folders /\ (prompt = NoPlans \/ PlansOf(prompt))
    BY DEF Quiet, GroupsIInv, PhasesExclude, TypesOK
  <2>1. CASE ValidateAndOpenSubfolderGroups
    <3> DEFINE plans == BuildSubfolderGroupPlans(folder)
    <3>1. PlansOf(plans) /\ DoOpenSubfolderGroups(plans) /\ ~NeedsPrompt(plans)
      BY <2>0, <2>1
         DEF ValidateAndOpenSubfolderGroups, OpenSubfolderGroupsInNewWindow, PlansOf
    <3> HIDE DEF plans
    <3>2. WindowOK(win') /\ Len(win'.strip) <= Total(plans)
      BY <3>1, OpenedIsOK
    <3>3. Total(plans) \in Nat
      BY <3>1, PlansFacts, FS_CardinalityType DEF Total
    <3>4. Len(win'.strip) \in Nat
      BY <3>2 DEF WindowOK, Windows
    <3> QED
      BY <3>1, <3>2, <3>3, <3>4, TabGroupsAssumption DEF NeedsPrompt
  <2>2. CASE \E yes \in BOOLEAN : OnBulkOpenPromptAnswered(yes)
    <3>1. PlansOf(prompt) /\ DoOpenSubfolderGroups(prompt)
      BY <2>0, <2>2 DEF OnBulkOpenPromptAnswered
    <3> QED
      BY <3>1, OpenedIsOK
  <2>3. CASE CloseWindow \/ PassEnds \/ PassStep \/ \E g \in Group : ObserverActs(g)
    BY <2>0, <2>3 DEF CloseWindow, PassEnds, PassStep, ObserverActs
  <2>4. CASE \E f \in Folders : EditBookmarks(f)
    BY <2>4 DEF EditBookmarks
  <2> QED
    BY <2>0, <2>1, <2>2, <2>3, <2>4
       DEF GroupsNext, NewTab, ActivateTab, CloseGroup, ToggleElsewhere, Reset, OnLeftPress,
           OnLeftRelease, OnDragEnds
<1> QED
  BY <1>1, GroupsSpecIInv, PTL DEF GroupsSpec, BulkOpenIsConsented, A

(* A pass never toggles a group away from its target, even when observers toggle or *)
(* close groups under it.                                                           *)
THEOREM PassNeverUndoesItsTarget == GroupsSpec => PassOnlyTogglesTowardsTarget
<1> DEFINE A == pass.running /\ pass'.running /\ pass'.disturbed = pass.disturbed
                  => \A g \in Present(win) \cap Present(win') :
                       (g \in win.collapsed) # (g \in win'.collapsed)
                         => ((g \in win'.collapsed) <=> pass.target)
<1>1. GroupsIInv /\ [GroupsNext]_groupVars => [A]_groupVars
  <2> SUFFICES ASSUME GroupsIInv, GroupsNext, pass.running, pass'.running,
                      pass'.disturbed = pass.disturbed,
                      NEW g \in Present(win) \cap Present(win'),
                      (g \in win.collapsed) # (g \in win'.collapsed)
               PROVE  (g \in win'.collapsed) <=> pass.target
    BY DEF A, groupVars
  <2>0. ~Quiet /\ win # NoWindow /\ prompt = NoPlans /\ pass \in Pass
    BY RunningFacts DEF Quiet
  <2>1. CASE PassStep
    <3>1. PICK h \in pass.todo \cup {pass.last} :
            /\ \A k \in Present(win) : k # h => (k \in win'.collapsed <=> k \in win.collapsed)
            /\ h \in Present(win) => (h \in win'.collapsed <=> pass.target)
      BY <2>1, IterationFacts
    <3>2. g = h
      BY <3>1
    <3> QED
      BY <3>1, <3>2
  <2>2. ~PassEnds
    BY NoPassFacts DEF PassEnds
  <2>3. \A h \in Group : ~ObserverActs(h)
    <3> SUFFICES ASSUME NEW h \in Group, ObserverActs(h) PROVE FALSE
      OBVIOUS
    <3>1. pass'.disturbed = TRUE /\ ~pass.disturbed
      BY <2>0 DEF ObserverActs, Pass
    <3> QED
      BY <3>1
  <2>4. ~CloseWindow
    BY DEF CloseWindow
  <2> QED
    BY <2>0, <2>1, <2>2, <2>3, <2>4
       DEF GroupsNext, NewTab, ActivateTab, CloseGroup, ToggleElsewhere, Reset, OnLeftPress,
           OnLeftRelease, OnDragEnds, ValidateAndOpenSubfolderGroups, OnBulkOpenPromptAnswered,
           EditBookmarks
<1> QED
  BY <1>1, GroupsSpecIInv, PTL DEF GroupsSpec, PassOnlyTogglesTowardsTarget, A
=============================================================================
