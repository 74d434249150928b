------------------------------ MODULE Shortcuts ------------------------------
(***************************************************************************)
(* The rebindable keyboard shortcuts: the registry (shortcut_registry.cc), *)
(* the settings page's rebind handler (roamux_shortcuts_handler.cc) and    *)
(* the resolution of a key event (shortcut_registry_mac.mm).               *)
(*                                                                         *)
(* A binding is a preference of a profile, a key event belongs to a        *)
(* window, and the last active window may be one of another profile.       *)
(* Chords are values; which of them have a plausible keycode and a         *)
(* modifier is all the registry asks of their parts.  A row of the table   *)
(* is its position, which is also the command it stands for.               *)
(***************************************************************************)
EXTENDS Integers

CONSTANTS
    Profile, Window, NoWindow,
    Owner,          \* the profile of each window
    NormalWindow,   \* the windows of TYPE_NORMAL
    DockedWindow,   \* the windows whose strip is docked left or right
    Chord,
    Plausible,      \* chords with a Carbon keycode and a non-shift modifier
    NoBinding,      \* no stored binding
    Unreadable,     \* a stored binding that Chord::FromDict refuses
    DefaultChord,   \* the default chord of each row
    MenuChord       \* non-menu shortcuts and the main menu's key equivalents

(* kShortcuts: the rows in table order, with the feature that gates each. *)
kIdcReloadInitialUrl == 1
kIdcTabVisitBack == 2
kIdcTabVisitForward == 3
kIdcToggleTabStrip == 4
kIdcRefreshAllInitialUrls == 5
NoCommand == -1
Row == kIdcReloadInitialUrl..kIdcRefreshAllInitialUrls
FeatureOf == <<"kInitialUrl", "kTabVisitNav", "kTabVisitNav", "kTabStripToggleShortcut",
               "kRefreshAllInitialUrls">>

Stored == Chord \cup {NoBinding, Unreadable}

ASSUME ShortcutsAssumption ==
    /\ NoWindow \notin Window /\ Owner \in [Window -> Profile]
    /\ NormalWindow \subseteq Window /\ DockedWindow \subseteq Window
    /\ Plausible \subseteq Chord /\ MenuChord \subseteq Chord
    /\ NoBinding \notin Chord /\ Unreadable \notin Chord
    /\ DefaultChord \in [Row -> Chord]

VARIABLES
    bindings,    \* kShortcutBindings of each profile, by row
    features,    \* the enabled features, fixed for the life of the process
    lastActive   \* chrome::FindLastActive

shortcutVars == <<bindings, features, lastActive>>
-----------------------------------------------------------------------------
EnabledShortcuts == {row \in Row : FeatureOf[row] \in features}

(* The override if one is stored and can be read, else the default. *)
GetCurrentChord(p, row) ==
    IF bindings[p][row] \in Chord THEN bindings[p][row] ELSE DefaultChord[row]

(* What the settings page of a profile lists. *)
BuildShortcutList(p) == [row \in EnabledShortcuts |-> GetCurrentChord(p, row)]

(* The commands of the rows a profile binds to a chord; the first one wins. *)
BoundTo(p, chord) == {row \in EnabledShortcuts : GetCurrentChord(p, row) = chord}

CommandForChord(p, chord) ==
    IF BoundTo(p, chord) = {} THEN NoCommand
    ELSE CHOOSE row \in BoundTo(p, chord) : \A other \in BoundTo(p, chord) : row <= other

(* AcceleratorsCocoa has the default of the reload row; a command's own row is *)
(* no conflict.                                                                *)
EnumerateReservedChords(row) ==
    MenuChord \cup (IF row = kIdcReloadInitialUrl THEN {}
                    ELSE {DefaultChord[kIdcReloadInitialUrl]})

RebindIgnoresOthers(p, row, chord) ==
    IF chord \notin Plausible THEN "kInvalid"
    ELSE IF chord \in EnumerateReservedChords(row) THEN "kConflictsReserved"
    ELSE "kOk"
ValidateRebind(p, row, chord) ==
    IF chord \notin Plausible THEN "kInvalid"
    ELSE IF chord \in EnumerateReservedChords(row) THEN "kConflictsReserved"
    ELSE IF \E other \in EnabledShortcuts \ {row} : GetCurrentChord(p, other) = chord
    THEN "kConflictsRoamux"
    ELSE "kOk"

StoreRebind(p, row, chord) == bindings' = [bindings EXCEPT ![p][row] = chord]

(* Rebind: the page asks for a chord; a row that is not enabled is not found. *)
Rebind(p, row, chord) ==
    /\ row \in EnabledShortcuts
    /\ ValidateRebind(p, row, chord) = "kOk"
    /\ StoreRebind(p, row, chord)
    /\ UNCHANGED <<features, lastActive>>

(* Another window becomes the last active one, or the last one closes. *)
ActivateWindow(w) ==
    /\ lastActive' = w
    /\ UNCHANGED <<bindings, features>>
-----------------------------------------------------------------------------
(* The commands resolved against the event's window. *)
IsEventWindowResolved(command) ==
    command \in {kIdcToggleTabStrip, kIdcRefreshAllInitialUrls}

CanRefreshAllInitialUrls(w) ==
    FeatureOf[kIdcRefreshAllInitialUrls] \in features /\ w \in NormalWindow

IsAvailableForTarget(command, w) ==
    IF command = kIdcToggleTabStrip
    THEN FeatureOf[kIdcToggleTabStrip] \in features /\ w \in DockedWindow
    ELSE CanRefreshAllInitialUrls(w)

(* The command a key event in window w runs, NoCommand if none of ours.       *)
(* NoWindow is a window that belongs to no browser.                           *)
LastActiveFirst(w, chord) ==
    IF lastActive = NoWindow THEN NoCommand
    ELSE CommandForChord(Owner[lastActive], chord)
CommandForKeyEventOverride(w, chord) ==
    LET target == IF w = NoWindow THEN NoCommand ELSE CommandForChord(Owner[w], chord)
        active == IF lastActive = NoWindow THEN NoCommand
                  ELSE CommandForChord(Owner[lastActive], chord)
    IN  IF IsEventWindowResolved(target)
        THEN IF IsAvailableForTarget(target, w) THEN target ELSE NoCommand
        ELSE IF IsEventWindowResolved(active) THEN NoCommand ELSE active
-----------------------------------------------------------------------------
(* The bindings are stored values, the features those of the table.           *)
ShortcutsTypeOK ==
    /\ bindings \in [Profile -> [Row -> Stored]]
    /\ features \subseteq {FeatureOf[row] : row \in Row}
    /\ lastActive \in Window \cup {NoWindow}

(* The first of the enabled rows a profile binds to the chord. *)
Wins(p, row, chord) ==
    row \in BoundTo(p, chord) /\ \A other \in BoundTo(p, chord) : row <= other

(* shortcut_registry_mac.mm:119, "a window can neither miss its own profile's *)
(* binding nor accept another profile's": a command that acts on the event's  *)
(* window is dispatched to a window exactly when the profile of that window   *)
(* binds the chord to it, whichever window and profile were last active.      *)
ResolvedByItsWindow ==
    \A w \in Window, chord \in Chord :
       \A row \in {kIdcToggleTabStrip, kIdcRefreshAllInitialUrls} :
          CommandForKeyEventOverride(w, chord) = row
             <=> Wins(Owner[w], row, chord) /\ IsAvailableForTarget(row, w)

(* Two enabled rows of a profile with the same chord: the later one is dead.  *)
Conflicts(p) ==
    {pair \in EnabledShortcuts \X EnabledShortcuts :
        pair[1] < pair[2] /\ GetCurrentChord(p, pair[1]) = GetCurrentChord(p, pair[2])}

(* What the settings page lists for the profile of the last active window is  *)
(* what the keys do there, unless an earlier process left a conflict.         *)
ListedChordWorks ==
    \A w \in Window : lastActive = w /\ Conflicts(Owner[w]) = {} =>
       \A row \in EnabledShortcuts :
          CommandForKeyEventOverride(w, BuildShortcutList(Owner[w])[row])
             = IF IsEventWindowResolved(row) /\ ~IsAvailableForTarget(row, w)
               THEN NoCommand ELSE row

(* The registry between any two events: its types, and who gets a key event.  *)
ShortcutInv == ShortcutsTypeOK /\ ResolvedByItsWindow /\ ListedChordWorks

(* No rebind makes two enabled rows of a profile share a chord, whatever was  *)
(* stored before, readable or not: a shadowed command can only be inherited   *)
(* from a process with other features.                                        *)
NoNewConflicts == [][\A p \in Profile : Conflicts(p)' \subseteq Conflicts(p)]_shortcutVars
=============================================================================
