----------------------------- MODULE RefreshRun -----------------------------
(***************************************************************************)
(* One "refresh all" run of a browser window: the settle gate              *)
(* (navigation_settle_gate.cc), the run that observes the tab being        *)
(* refreshed (initial_url_refresh_run.cc) and the command that owns the    *)
(* run (refresh_all_initial_urls_command.cc).                              *)
(*                                                                         *)
(* The scheduler's pacing is in RefreshScheduler; here its timer may fire  *)
(* at any time.  StartFromCursor then runs in one turn: its loop is the    *)
(* phase "loop", in which only the items' outcomes are taken.  As          *)
(* LoadURLWithParams calls observers before it returns, StartItem is two   *)
(* steps, with the callbacks of the load call (phase "call") between them. *)
(***************************************************************************)
EXTENDS Naturals

CONSTANTS
    Tab,       \* the tabs of the window
    NoTab,
    MaxNav     \* bound on navigations

ASSUME RefreshRunAssumption == NoTab \notin Tab /\ MaxNav \in Nat

VARIABLES
    \* The page side, external: the tabs' loads and the run's own navigation.
    loading,    \* the tabs that are loading
    lastNav,    \* the last navigation id given out
    ours,       \* the id of the attempt's navigation, 0 before it is created
    ourState,   \* "none", "created" (not started), "started", "ended", "discarded"
    \* InitialUrlRefreshRun.
    held,       \* the command's map holds the run (Runs()[browser])
    left,       \* snapshot_ from the cursor on: tabs not yet tried
    phase,      \* "idle", "loop" (inside StartFromCursor), "call" (inside LoadURLWithParams)
    target,     \* the tab of current_index_
    observed,   \* the tab whose WebContents are observed
    pending,    \* pending_handle_ is valid
    gate,       \* settle_gate_
    settles     \* history: NotifyItemSettled calls for the present attempt

pageVars == <<loading, lastNav, ours, ourState>>
vars == <<pageVars, held, left, phase, target, observed, pending, gate, settles>>
-----------------------------------------------------------------------------
(* NavigationSettleGate.  Ids are positive; 0 is no id. *)
ClosedGate == [in_load_call |-> FALSE, buffered_start_id |-> 0,
               navigation_id |-> 0, started |-> FALSE]

BeginAttempt == [in_load_call |-> TRUE, buffered_start_id |-> 0,
                 navigation_id |-> 0, started |-> FALSE]

ForgetsBufferedStart(g, id) == [ClosedGate EXCEPT !.navigation_id = id]
AttemptIssued(g, id) ==
    [in_load_call |-> FALSE, buffered_start_id |-> 0, navigation_id |-> id,
     started |-> g.started \/ (id # 0 /\ g.buffered_start_id = id)]

AnyStartCounts(g, id) ==
    IF g.in_load_call THEN [g EXCEPT !.buffered_start_id = id]
    ELSE [g EXCEPT !.started = TRUE]
OnNavigationStarted(g, id) ==
    IF g.in_load_call THEN [g EXCEPT !.buffered_start_id = id]
    ELSE IF g.navigation_id # 0 /\ id = g.navigation_id THEN [g EXCEPT !.started = TRUE]
    ELSE g

(* OnStopLoading reports a settle exactly when this holds, and then forgets  *)
(* the attempt.                                                              *)
StopSettles(g) == ~g.in_load_call /\ g.started

AfterSettle(g) == [g EXCEPT !.started = FALSE, !.navigation_id = 0]

OnAttemptDiscarded(g) == IF g.started THEN g ELSE [g EXCEPT !.navigation_id = 0]
-----------------------------------------------------------------------------
(* The observer's callbacks; a tab that is not observed makes none. *)
DidStartNavigation(t, id) ==
    gate' = IF observed = t THEN OnNavigationStarted(gate, id) ELSE gate

DidStopLoading(t) ==
    LET g == IF pending THEN gate ELSE OnAttemptDiscarded(gate)
    IN  IF observed # t THEN UNCHANGED <<gate, pending, observed, settles>>
        ELSE IF StopSettles(g)
        THEN /\ gate' = AfterSettle(g)
             /\ pending' = FALSE /\ observed' = NoTab
             /\ settles' = settles + 1
        ELSE gate' = g /\ UNCHANGED <<pending, observed, settles>>
-----------------------------------------------------------------------------
(* RefreshAllInitialUrls: start a run over a snapshot of the tabs... *)
Trigger(snapshot) ==
    /\ ~held
    /\ held' = TRUE /\ left' = snapshot /\ phase' = "loop"
    /\ target' = NoTab /\ observed' = NoTab /\ pending' = FALSE /\ gate' = ClosedGate
    /\ settles' = 0
    /\ ours' = 0 /\ ourState' = "none"
    /\ UNCHANGED <<loading, lastNav>>

(* ... and the end of it: a second press, the window closing, or the last    *)
(* item started.  OnRunFinished stops observing and RetireFinishedRun takes  *)
(* the run out of the map.                                                   *)
FinishKeepsObserving == held' = FALSE /\ left' = {} /\ UNCHANGED observed
Finish ==
    /\ held' = FALSE /\ left' = {}
    /\ observed' = NoTab

Cancel ==
    /\ held /\ phase = "idle"
    /\ Finish
    /\ UNCHANGED <<pageVars, phase, target, pending, gate, settles>>

(* StartFromCursor: the timer fired or a settle was delivered; its loop      *)
(* leaves the rest for later while a dialog is shown.                        *)
StartFromCursor ==
    /\ held /\ phase = "idle"
    /\ phase' = "loop"
    /\ UNCHANGED <<pageVars, held, left, target, observed, pending, gate, settles>>

Defer ==
    /\ phase = "loop" /\ left # {}
    /\ phase' = "idle"
    /\ UNCHANGED <<pageVars, held, left, target, observed, pending, gate, settles>>

(* StartItem for the next tab: forget the last attempt, then skip the tab    *)
(* (gone, dragged away, audible or not eligible)...                          *)
SkipItem(t) ==
    /\ phase = "loop" /\ t \in left
    /\ left' = left \ {t}
    /\ target' = t /\ observed' = NoTab /\ pending' = FALSE /\ gate' = ClosedGate
    /\ settles' = 0
    /\ ours' = 0 /\ ourState' = "none"
    /\ UNCHANGED <<loading, lastNav, held, phase>>

(* ... or observe it, open the gate's attempt and call LoadURLWithParams. *)
StartItem(t) ==
    /\ phase = "loop" /\ t \in left
    /\ lastNav < MaxNav
    /\ left' = left \ {t}
    /\ target' = t /\ observed' = t /\ pending' = FALSE
    /\ gate' = BeginAttempt
    /\ phase' = "call"
    /\ settles' = 0
    /\ lastNav' = lastNav + 1
    /\ ours' = lastNav + 1 /\ ourState' = "none"
    /\ UNCHANGED <<loading, held>>

(* The load call starts the navigation at once, unless the page has a         *)
(* beforeunload handler...                                                    *)
StartsInsideCall ==
    /\ phase = "call" /\ ourState = "none"
    /\ ourState' = "started"
    /\ loading' = loading \cup {target}
    /\ DidStartNavigation(target, ours)
    /\ UNCHANGED <<lastNav, ours, held, left, phase, target, observed, pending, settles>>

(* ... it may stop an earlier load of the tab first... *)
EarlierLoadStopsInsideCall ==
    /\ phase = "call" /\ ourState = "none" /\ target \in loading
    /\ loading' = loading \ {target}
    /\ DidStopLoading(target)
    /\ UNCHANGED <<lastNav, ours, ourState, held, left, phase, target>>

(* ... and it returns: no handle, and the item is skipped, or one whose id    *)
(* identifies a start seen during the call.  The last item ends the run.      *)
LoadRefused ==
    /\ phase = "call" /\ ourState = "none"
    /\ phase' = "loop"
    /\ gate' = AttemptIssued(gate, 0)
    /\ ourState' = "discarded"
    /\ observed' = NoTab
    /\ UNCHANGED <<loading, lastNav, ours, held, left, target, pending, settles>>

FinishesAtTheSettle ==
    /\ phase = "call"
    /\ phase' = "idle"
    /\ pending' = TRUE
    /\ gate' = AttemptIssued(gate, ours)
    /\ ourState' = IF ourState = "none" THEN "created" ELSE ourState
    /\ UNCHANGED <<loading, lastNav, ours, held, left, target, observed, settles>>
LoadIssued ==
    /\ phase = "call"
    /\ phase' = "idle"
    /\ pending' = TRUE
    /\ gate' = AttemptIssued(gate, ours)
    /\ ourState' = IF ourState = "none" THEN "created" ELSE ourState
    /\ IF left = {} THEN Finish ELSE UNCHANGED <<held, left, observed>>
    /\ UNCHANGED <<loading, lastNav, ours, target, settles>>

(* All tabs were tried and the last ones skipped. *)
RunsOut ==
    /\ phase = "loop" /\ left = {}
    /\ phase' = "idle"
    /\ Finish
    /\ UNCHANGED <<pageVars, target, pending, gate, settles>>
-----------------------------------------------------------------------------
(* The page side, between handlers. *)

(* The beforeunload handler agreed, or the navigation was dropped. *)
OursStarts ==
    /\ phase = "idle" /\ ourState = "created"
    /\ ourState' = "started"
    /\ loading' = loading \cup {target}
    /\ DidStartNavigation(target, ours)
    /\ UNCHANGED <<lastNav, ours, held, left, phase, target, observed, pending, settles>>

OursIsDiscarded ==
    /\ phase = "idle" /\ ourState = "created"
    /\ ourState' = "discarded"
    /\ pending' = FALSE
    /\ UNCHANGED <<loading, lastNav, ours, held, left, phase, target, observed, gate,
                   settles>>

(* It commits or fails; the handle goes away and the page loads on. *)
OursEnds ==
    /\ phase = "idle" /\ ourState = "started"
    /\ ourState' = "ended"
    /\ pending' = FALSE
    /\ UNCHANGED <<loading, lastNav, ours, held, left, phase, target, observed, gate,
                   settles>>

(* Another navigation starts in a tab: a link, the user, a script. *)
OtherStarts(t) ==
    /\ phase = "idle" /\ lastNav < MaxNav
    /\ lastNav' = lastNav + 1
    /\ loading' = loading \cup {t}
    /\ DidStartNavigation(t, lastNav + 1)
    /\ UNCHANGED <<ours, ourState, held, left, phase, target, observed, pending, settles>>

(* A tab stops loading; not while the run's own navigation is in flight. *)
LoadStops(t) ==
    /\ phase = "idle" /\ t \in loading
    /\ t = target => ourState # "started"
    /\ loading' = loading \ {t}
    /\ DidStopLoading(t)
    /\ UNCHANGED <<lastNav, ours, ourState, held, left, phase, target>>

Init ==
    /\ loading \in SUBSET Tab /\ lastNav = 0 /\ ours = 0 /\ ourState = "none"
    /\ held = FALSE /\ left = {} /\ phase = "idle"
    /\ target = NoTab /\ observed = NoTab /\ pending = FALSE /\ gate = ClosedGate
    /\ settles = 0

(* What the run and the pages do by themselves; presses come on top. *)
RunStep ==
    \/ StartFromCursor \/ Defer \/ RunsOut
    \/ \E t \in Tab : SkipItem(t) \/ StartItem(t) \/ OtherStarts(t) \/ LoadStops(t)
    \/ StartsInsideCall \/ EarlierLoadStopsInsideCall \/ LoadRefused \/ LoadIssued
    \/ OursStarts \/ OursIsDiscarded \/ OursEnds

Next ==
    \/ \E snapshot \in SUBSET Tab : Trigger(snapshot)
    \/ Cancel
    \/ RunStep

Spec == Init /\ [][Next]_vars
-----------------------------------------------------------------------------
Gate == [in_load_call : BOOLEAN, buffered_start_id : Nat, navigation_id : Nat,
         started : BOOLEAN]

(* Every variable has its type; only tabs of a run are observed. *)
TypeOK ==
    /\ loading \subseteq Tab /\ lastNav \in Nat /\ ours \in Nat
    /\ ourState \in {"none", "created", "started", "ended", "discarded"}
    /\ held \in BOOLEAN /\ left \subseteq Tab /\ phase \in {"idle", "loop", "call"}
    /\ target \in Tab \cup {NoTab} /\ observed \in {NoTab, target}
    /\ pending \in BOOLEAN /\ gate \in Gate /\ settles \in 0..1

(* The gate's rule, navigation_settle_gate.h: an attempt settles only once    *)
(* its own navigation has started, at a stop that comes after the load call   *)
(* and after that navigation has ended.  The stop of a load that was there    *)
(* before it, or one inside the call, settles nothing.                        *)
SettlesOnlyOurs ==
    [][settles' > settles => phase = "idle" /\ ourState = "ended" /\ observed = target]_vars

(* And it never misses one: when the tab stops loading after the attempt's    *)
(* navigation ended, wherever that navigation started, the scheduler is told, *)
(* so that only attempts without a start are left to the backstop.            *)
NoSettleMissed ==
    [][phase = "idle" /\ observed = target /\ ourState = "ended"
         /\ target \in loading \ loading' => settles' = settles + 1]_vars

(* A finished run observes nothing: its late callbacks cannot reach a         *)
(* scheduler that has ended, and a second press starts a fresh run.           *)
FinishedRunIsSilent == ~held => observed = NoTab

(* Every press does something: between two handlers the map holds a run only  *)
(* while that run has tabs to try, so that a press either cancels those or    *)
(* starts a fresh run.  A run that stayed in the map after its last start     *)
(* would take the next press, which "would appear to do nothing every other   *)
(* press" (refresh_all_initial_urls_command.cc:38).                           *)
NoPressIsWasted == held /\ phase = "idle" => left # {}

(* The types hold and a finished run is silent.                               *)
RunInv == TypeOK /\ FinishedRunIsSilent
=============================================================================
