-------------------------- MODULE RefreshByShortcut --------------------------
(***************************************************************************)
(* The refresh-all run of one window together with what starts and cancels *)
(* it: a key event, resolved by the registry to a command of the window it *)
(* belongs to, or the item of a tab's menu (initial_url_menu.cc).          *)
(***************************************************************************)
EXTENDS RefreshRun, Shortcuts

CONSTANTS
    RunWindow,         \* the window of the run
    InitialBindings,   \* what earlier processes may have stored in a profile
    FeatureSets,       \* the flags a process may run with
    Requests           \* the <<profile, row, chord>> a settings page asks for

ASSUME RefreshByShortcutAssumption ==
    /\ RunWindow \in NormalWindow
    /\ InitialBindings \subseteq [Row -> Stored]
    /\ \A fs \in FeatureSets : fs \subseteq {FeatureOf[row] : row \in Row}
    /\ Requests \subseteq Profile \X Row \X Chord

allVars == <<vars, shortcutVars>>

(* The first call starts a run over the tabs of the window, a second one      *)
(* cancels it.                                                                *)
RefreshAllInitialUrls ==
    /\ CanRefreshAllInitialUrls(RunWindow)
    /\ Cancel \/ \E snapshot \in SUBSET Tab : Trigger(snapshot)

(* A key is pressed in window w, between two handlers. *)
PressChord(w, chord) ==
    /\ phase = "idle"
    /\ CommandForKeyEventOverride(w, chord) = kIdcRefreshAllInitialUrls
    /\ w = RunWindow
    /\ RefreshAllInitialUrls
    /\ UNCHANGED shortcutVars

(* The menu of a tab has the item when both flags are on, and enables it while *)
(* some tab of the window can be reloaded.                                     *)
MenuOffersRefresh ==
    {FeatureOf[kIdcReloadInitialUrl], FeatureOf[kIdcRefreshAllInitialUrls]} \subseteq features

MenuRefresh ==
    /\ phase = "idle"
    /\ MenuOffersRefresh
    /\ RefreshAllInitialUrls
    /\ UNCHANGED shortcutVars

(* OnBrowserClosing. *)
WindowCloses == Cancel /\ UNCHANGED shortcutVars

(* A run goes on by itself; no tab is eligible while its own flag is off. *)
RunGoesOn ==
    /\ RunStep
    /\ FeatureOf[kIdcReloadInitialUrl] \notin features => phase' # "call"
    /\ UNCHANGED shortcutVars

ShortcutInit ==
    /\ Init
    /\ bindings \in [Profile -> InitialBindings]
    /\ features \in FeatureSets
    /\ lastActive \in Window \cup {NoWindow}

ShortcutNext ==
    \/ \E w \in Window \cup {NoWindow}, chord \in Chord : PressChord(w, chord)
    \/ MenuRefresh \/ WindowCloses \/ RunGoesOn
    \/ /\ \/ \E request \in Requests : Rebind(request[1], request[2], request[3])
          \/ \E w \in Window \cup {NoWindow} : ActivateWindow(w)
       /\ UNCHANGED vars

ShortcutSpec == ShortcutInit /\ [][ShortcutNext]_allVars
=============================================================================
