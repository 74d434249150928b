------------------------------ MODULE TabGroups ------------------------------
(***************************************************************************)
(* The tab groups of one window: the bookmark command that opens every     *)
(* sub-folder as a group of a new window (subfolder_tab_groups.cc), where  *)
(* a new tab goes (new_tab_placement.cc), and the double click on a group  *)
(* header that collapses or expands all groups                             *)
(* (group_header_double_click.cc, called from patch 0075).                 *)
(*                                                                         *)
(* The tab strip itself is external.  The bulk pass runs in one turn, but  *)
(* every toggle calls observers, which may change the groups under it: the *)
(* pass is a phase in which only its own steps and theirs are taken.       *)
(***************************************************************************)
EXTENDS Integers, Sequences, FiniteSets

CONSTANTS
    Group,            \* identities of tab groups, positive numbers
    Folders,          \* bookmark folders: [subs |-> the number of URLs in each sub-folder,
                      \*   regular |-> neither permanent nor in a private profile]
    Threshold,        \* kNumBookmarkUrlsBeforePrompting
    MaxTabs           \* bound on the tabs of the window

NoGroup == 0

ASSUME TabGroupsAssumption ==
    /\ Group \subseteq Nat \ {NoGroup}
    /\ Threshold \in Nat /\ MaxTabs \in Nat
    /\ Folders \subseteq [subs : Seq(Nat), regular : BOOLEAN]
    /\ \A f \in Folders : DOMAIN f.subs \subseteq Group

VARIABLES
    folder,    \* the bookmarked folder, which may be edited at any time
    prompt,    \* the plans the message box asks about, NoPlans when it is closed
    win,       \* the window: strip (the group of each tab), active (index), collapsed
    closing,   \* closing_all()
    gesture,   \* GestureState of each group header
    press,     \* the header whose left press is held, and its double-click flag
    pass       \* the bulk pass

groupVars == <<folder, prompt, win, closing, gesture, press, pass>>

-----------------------------------------------------------------------------
(* Windows as values. *)
NoWindow == [strip |-> <<>>, active |-> 0, collapsed |-> {}]

Present(w) == {w.strip[i] : i \in DOMAIN w.strip} \ {NoGroup}
ActiveGroup(w) == IF w.active \in DOMAIN w.strip THEN w.strip[w.active] ELSE NoGroup

(* SnapshotFromModel: the collapsed state of every group. *)
Snapshot(w) == [g \in Present(w) |-> g \in w.collapsed]

(* The strip's own rules: a group that loses its last tab is gone, and the group *)
(* of the active tab is never collapsed.                                         *)
Settle(w) == [w EXCEPT !.collapsed = (@ \cap Present(w)) \ {ActiveGroup(w)}]

(* ToggleTabGroupCollapsedState: collapsing the active tab's group moves the      *)
(* activation to a tab one can see, or opens a new one.                           *)
Visible(w, g) == {i \in DOMAIN w.strip : w.strip[i] \notin w.collapsed \cup {g}}

Toggled(w, g) ==
    IF g \in w.collapsed THEN {[w EXCEPT !.collapsed = @ \ {g}]}
    ELSE IF ActiveGroup(w) # g THEN {[w EXCEPT !.collapsed = @ \cup {g}]}
    ELSE IF Visible(w, g) # {}
         THEN {[w EXCEPT !.collapsed = @ \cup {g}, !.active = i] : i \in Visible(w, g)}
    ELSE {[strip |-> Append(w.strip, NoGroup), active |-> Len(w.strip) + 1,
           collapsed |-> w.collapsed \cup {g}]}

Inserted(w, i, g) ==
    Settle([strip |-> SubSeq(w.strip, 1, i - 1) \o <<g>> \o SubSeq(w.strip, i, Len(w.strip)),
            active |-> i, collapsed |-> w.collapsed])

(* A group is given to the strip as the range of its tabs. *)
FirstOf(w, g) == CHOOSE i \in DOMAIN w.strip :
                     w.strip[i] = g /\ \A j \in DOMAIN w.strip : w.strip[j] = g => i <= j
LastOf(w, g) == CHOOSE i \in DOMAIN w.strip :
                    w.strip[i] = g /\ \A j \in DOMAIN w.strip : w.strip[j] = g => j <= i

(* The tabs of group g are closed and some other tab becomes active; there is one,  *)
(* or else the window closes.                                                       *)
Removed(w, g) ==
    LET rest == SubSeq(w.strip, 1, FirstOf(w, g) - 1)
                  \o SubSeq(w.strip, LastOf(w, g) + 1, Len(w.strip))
    IN  {Settle([strip |-> rest, active |-> i, collapsed |-> w.collapsed]) : i \in DOMAIN rest}
-----------------------------------------------------------------------------
(* Bookmark sub-folders.  The plans: how many URLs each sub-folder with URLs has, by *)
(* its place in the folder, which also names the group it is to become.              *)
NoPlans == [i \in {} |-> 0]

BuildSubfolderGroupPlans(f) ==
    [i \in {j \in DOMAIN f.subs : f.subs[j] > 0} |-> f.subs[i]]

GetQualifyingSubfolderCountForMenus(f) ==
    IF f.regular THEN Cardinality(DOMAIN BuildSubfolderGroupPlans(f)) ELSE 0

Urls(plans) == UNION {{i} \X (1..plans[i]) : i \in DOMAIN plans}
Total(plans) == Cardinality(Urls(plans))

(* The tabs of the URLs that did open, in the order of the plans; the tabs of a plan *)
(* are its group, and a plan none of whose URLs opened makes none.                   *)
Strips(plans, opened) ==
    {strip \in [1..Cardinality(opened) -> DOMAIN plans] :
        /\ \A i, j \in DOMAIN strip : i < j => strip[i] <= strip[j]
        /\ \A p \in DOMAIN plans : Cardinality({i \in DOMAIN strip : strip[i] = p})
                                     = Cardinality({url \in opened : url[1] = p})}

(* Any of the URLs may fail to open a tab; a window without tabs is closed again. *)
DoOpenSubfolderGroups(plans) ==
    \E opened \in SUBSET Urls(plans) : \E strip \in Strips(plans, opened) :
        win' = IF opened = {} THEN NoWindow
               ELSE [strip |-> strip, active |-> 1, collapsed |-> {}]

PromptsAboveOnly(plans) == Total(plans) > Threshold
NeedsPrompt(plans) == Total(plans) >= Threshold

OpenSubfolderGroupsInNewWindow(plans) ==
    IF NeedsPrompt(plans)
    THEN prompt' = plans /\ UNCHANGED win
    ELSE DoOpenSubfolderGroups(plans) /\ UNCHANGED prompt

(* The menu command on the folder as it is now.  One window is opened in a        *)
(* behaviour; what happens in it is the rest of the module.                       *)
ValidateAndOpenSubfolderGroups ==
    /\ win = NoWindow /\ prompt = NoPlans
    /\ GetQualifyingSubfolderCountForMenus(folder) > 0
    /\ OpenSubfolderGroupsInNewWindow(BuildSubfolderGroupPlans(folder))
    /\ UNCHANGED <<folder, closing, gesture, press, pass>>

(* The answer comes later; the plans are the ones the question was about. *)
OnBulkOpenPromptAnswered(yes) ==
    /\ prompt # NoPlans /\ prompt' = NoPlans
    /\ IF yes THEN DoOpenSubfolderGroups(prompt) ELSE UNCHANGED win
    /\ UNCHANGED <<folder, closing, gesture, press, pass>>

EditBookmarks(f) ==
    /\ win = NoWindow /\ f # folder
    /\ folder' = f
    /\ UNCHANGED <<prompt, win, closing, gesture, press, pass>>
-----------------------------------------------------------------------------
(* Where a new tab goes: an index (0 for "append") and a group. *)
GroupLeftOut(mode, w, addsToGroup) ==
    [index |-> IF mode = "afterActive" THEN w.active + 1 ELSE 0, group |-> NoGroup]
ComputeNewTabPlacement(mode, w, addsToGroup) ==
    IF w.active \notin DOMAIN w.strip THEN [index |-> 0, group |-> NoGroup]
    ELSE CASE mode = "endOfStrip"  -> [index |-> 0, group |-> NoGroup]
           [] mode = "endOfGroup"  -> [index |-> 0,
                group |-> IF addsToGroup THEN ActiveGroup(w) ELSE NoGroup]
           [] mode = "afterActive" -> [index |-> w.active + 1, group |-> ActiveGroup(w)]

(* The strip appends to the end of the group it is given, if there is one. *)
InsertIndex(w, p) ==
    IF p.index # 0 THEN p.index
    ELSE IF p.group # NoGroup THEN LastOf(w, p.group) + 1
    ELSE Len(w.strip) + 1

Quiet == ~pass.running /\ win # NoWindow /\ ~closing

NewTab(mode, addsToGroup) ==
    /\ Quiet /\ Len(win.strip) < MaxTabs
    /\ LET p == ComputeNewTabPlacement(mode, win, addsToGroup)
       IN  win' = Inserted(win, InsertIndex(win, p), p.group)
    /\ UNCHANGED <<folder, prompt, closing, gesture, press, pass>>

ActivateTab(i) ==
    /\ Quiet /\ i # win.active
    /\ win' = Settle([win EXCEPT !.active = i])
    /\ UNCHANGED <<folder, prompt, closing, gesture, press, pass>>

(* Header views live as long as their group. *)
NoGesture == [phase |-> "idle", pre |-> FALSE, before |-> [g \in {} |-> FALSE]]

Headers(w, ges) == [g \in Group |-> IF g \in Present(w) THEN ges[g] ELSE NoGesture]

CloseGroup(g) ==
    /\ Quiet /\ g \in Present(win)
    /\ win' \in Removed(win, g)
    /\ gesture' = Headers(win', gesture)
    /\ press' = IF press.header = g THEN [header |-> NoGroup, double |-> FALSE] ELSE press
    /\ UNCHANGED <<folder, prompt, closing, pass>>

(* The group is toggled from elsewhere: a menu, a shortcut, another feature. *)
ToggleElsewhere(g) ==
    /\ Quiet /\ g \in Present(win)
    /\ win' \in Toggled(win, g)
    /\ UNCHANGED <<folder, prompt, closing, gesture, press, pass>>

(* The window starts to close; outside a pass nothing is left to see of it. *)
CloseWindow ==
    /\ pass.running /\ ~closing
    /\ closing' = TRUE
    /\ UNCHANGED <<folder, prompt, win, gesture, press, pass>>
-----------------------------------------------------------------------------
(* The gesture on the header of group g. *)
EqualExceptClickedFlipped(before, now, clicked) ==
    /\ DOMAIN before = DOMAIN now
    /\ \A g \in DOMAIN before : now[g] = (IF g = clicked THEN ~before[g] ELSE before[g])

Latches(g, double, recent) ==
    /\ gesture[g].phase = "recorded" /\ double /\ recent
    /\ EqualExceptClickedFlipped(gesture[g].before, Snapshot(win), g)

(* recent: the press is within the double-click time of the recorded release. *)
OnLeftPress(g, double, recent) ==
    /\ Quiet /\ g \in Present(win) /\ press.header = NoGroup
    /\ press' = [header |-> g, double |-> double]
    /\ gesture' = [gesture EXCEPT ![g] =
                     IF Latches(g, double, recent) THEN [@ EXCEPT !.phase = "latched"] ELSE NoGesture]
    /\ UNCHANGED <<folder, prompt, win, closing, pass>>

(* The release that ends a drag toggles nothing. *)
OnDragEnds(g) ==
    /\ Quiet /\ press.header = g
    /\ press' = [header |-> NoGroup, double |-> FALSE]
    /\ gesture' = [gesture EXCEPT ![g] = NoGesture]
    /\ UNCHANGED <<folder, prompt, win, closing, pass>>

(* A drag past the threshold, a right press, an open editor. *)
Reset(g) ==
    /\ Quiet /\ gesture[g] # NoGesture
    /\ gesture' = [gesture EXCEPT ![g] = NoGesture]
    /\ UNCHANGED <<folder, prompt, win, closing, press, pass>>

RecordSingleToggle(g) ==
    [phase |-> "recorded", pre |-> g \in win.collapsed, before |-> Snapshot(win)]

NoPass == [running |-> FALSE, clicked |-> NoGroup, target |-> FALSE, todo |-> {},
           last |-> NoGroup, moves |-> 0, disturbed |-> FALSE, intact |-> FALSE]

(* The bulk plan.  On a collapse the group of the active tab comes last. *)
PlanTarget(now, clicked, pre) ==
    \A g \in DOMAIN now : ~(IF g = clicked THEN pre ELSE now[g])

ActiveLast(w, target) == IF target THEN ActiveGroup(w) ELSE NoGroup

PlanDoubleClickAll(w, clicked, pre) ==
    LET target == PlanTarget(Snapshot(w), clicked, pre)
        toggle == {g \in Present(w) : (g \in w.collapsed) # target}
        last == ActiveLast(w, target)
    IN  [running |-> TRUE, clicked |-> clicked, target |-> target, todo |-> toggle \ {last},
         last |-> IF last \in toggle THEN last ELSE NoGroup,
         moves |-> 0, disturbed |-> FALSE, intact |-> TRUE]

ConsumeWithoutLooking(g) == gesture[g].phase = "latched"
ConsumeOnDoubleClickRelease(g) ==
    /\ gesture[g].phase = "latched"
    /\ EqualExceptClickedFlipped(gesture[g].before, Snapshot(win), g)

(* The release of the left button on the header it was pressed on. *)
OnLeftRelease(g) ==
    /\ Quiet /\ press.header = g
    /\ press' = [header |-> NoGroup, double |-> FALSE]
    /\ IF press.double /\ ConsumeOnDoubleClickRelease(g)
       THEN /\ gesture' = [gesture EXCEPT ![g] = NoGesture]
            /\ pass' = [PlanDoubleClickAll(win, g, gesture[g].pre)
                          EXCEPT !.intact = \A h \in DOMAIN gesture[g].before :
                                                ~gesture[g].before[h]]
            /\ UNCHANGED win
       ELSE /\ gesture' = [gesture EXCEPT ![g] = RecordSingleToggle(g)]
            /\ win' \in Toggled(win, g)
            /\ UNCHANGED pass
    /\ UNCHANGED <<folder, prompt, closing>>

(* One iteration of the pass: a vanished group and one that already is where the *)
(* pass wants it are skipped; a closing window, or the end of the header that was *)
(* clicked, stops it.                                                             *)
Stopped == closing \/ pass.clicked \notin Present(win)

PassDone == pass.todo = {} /\ pass.last = NoGroup

TogglesBlindly(g) == win' \in Toggled(win, g)
PassToggle(g) ==
    IF g \in Present(win) /\ (g \in win.collapsed) # pass.target
    THEN win' \in Toggled(win, g)
    ELSE UNCHANGED win

RetriesVanished(g) == IF g \in Present(win)
                      THEN [pass EXCEPT !.todo = @ \ {g}, !.last = IF @ = g THEN NoGroup ELSE @]
                      ELSE pass
Visited(g) == [pass EXCEPT !.todo = @ \ {g}, !.last = IF @ = g THEN NoGroup ELSE @]

PassStep ==
    /\ pass.running /\ ~Stopped /\ ~PassDone
    /\ \E g \in IF pass.todo # {} THEN pass.todo ELSE {pass.last} :
         /\ PassToggle(g)
         /\ pass' = [Visited(g) EXCEPT !.moves = IF win'.active = win.active THEN @ ELSE @ + 1]
    /\ UNCHANGED <<folder, prompt, closing, gesture, press>>

PassEnds ==
    /\ pass.running /\ (Stopped \/ PassDone)
    /\ pass' = NoPass
    /\ UNCHANGED <<folder, prompt, win, closing, gesture, press>>

(* An observer of a toggle toggles another group, or closes it. *)
ObserverActs(g) ==
    /\ pass.running /\ ~closing /\ ~pass.disturbed /\ g \in Present(win)
    /\ win' \in Toggled(win, g) \cup Removed(win, g)
    /\ gesture' = Headers(win', gesture)
    /\ pass' = [pass EXCEPT !.disturbed = TRUE]
    /\ UNCHANGED <<folder, prompt, closing, press>>

GroupsInit ==
    /\ folder \in Folders
    /\ prompt = NoPlans
    /\ win = NoWindow /\ closing = FALSE
    /\ gesture = [g \in Group |-> NoGesture]
    /\ press = [header |-> NoGroup, double |-> FALSE]
    /\ pass = NoPass

GroupsNext ==
    \/ ValidateAndOpenSubfolderGroups
    \/ \E yes \in BOOLEAN : OnBulkOpenPromptAnswered(yes)
    \/ \E f \in Folders : EditBookmarks(f)
    \/ \E mode \in {"endOfStrip", "endOfGroup", "afterActive"}, adds \in BOOLEAN :
          NewTab(mode, adds)
    \/ \E i \in DOMAIN win.strip : ActivateTab(i)
    \/ \E g \in Group : \/ CloseGroup(g) \/ ToggleElsewhere(g) \/ Reset(g)
                        \/ \E double, recent \in BOOLEAN : OnLeftPress(g, double, recent)
                        \/ OnLeftRelease(g) \/ OnDragEnds(g) \/ ObserverActs(g)
    \/ CloseWindow \/ PassStep \/ PassEnds

(* The pass is one turn of the UI thread: it goes on until it ends. *)
GroupsSpec ==
    /\ GroupsInit /\ [][GroupsNext]_groupVars
    /\ WF_groupVars(PassStep) /\ WF_groupVars(PassEnds)
-----------------------------------------------------------------------------
Snapshots == UNION {[S -> BOOLEAN] : S \in SUBSET Group}

(* Every variable has its type, and what refers to a group refers to one there is.  *)
GroupsTypeOK ==
    /\ folder \in Folders /\ closing \in BOOLEAN
    /\ \E S \in SUBSET Group : prompt \in [S -> Nat]
    /\ win \in [strip : Seq(Group \cup {NoGroup}), active : Nat, collapsed : SUBSET Group]
    /\ gesture \in [Group -> [phase : {"idle", "recorded", "latched"}, pre : BOOLEAN,
                              before : Snapshots]]
    /\ press \in [header : Present(win) \cup {NoGroup}, double : BOOLEAN]
    /\ pass \in [running : BOOLEAN, clicked : Group \cup {NoGroup}, target : BOOLEAN,
                 todo : SUBSET Group, last : Group \cup {NoGroup}, moves : Nat,
                 disturbed : BOOLEAN, intact : BOOLEAN]
    /\ \A g \in Group : gesture[g] = NoGesture \/ g \in Present(win)

(* A window has an active tab, and the active tab's group is never collapsed.        *)
ActiveIsExpanded ==
    /\ win = NoWindow \/ win.active \in DOMAIN win.strip
    /\ win.collapsed \subseteq Present(win) \ {ActiveGroup(win)}

(* Every group is one stretch of the strip, wherever new tabs are told to go and    *)
(* however many sub-folders were opened.                                            *)
GroupsContiguous ==
    \A i, j \in DOMAIN win.strip :
        i < j /\ win.strip[i] = win.strip[j] /\ win.strip[i] # NoGroup
          => \A k \in i..j : win.strip[k] = win.strip[i]

(* A window of Threshold tabs or more opens only from the question, with no more     *)
(* tabs than the question was about, although the bookmarks may change meanwhile.    *)
BulkOpenIsConsented ==
    [][win = NoWindow /\ win' # NoWindow
         => Len(win'.strip) < Threshold \/ Len(win'.strip) <= Total(prompt)]_groupVars

(* The pass collapses exactly when every group was expanded before the FIRST click,  *)
(* although the plan is made from the window as the first click left it.             *)
TargetIsFromBeforeTheGesture == pass.running => (pass.target <=> pass.intact)

(* A pass that no observer disturbed leaves every group in the target state and has   *)
(* moved the activation at most once.                                                 *)
PassIsUniform ==
    (pass.running /\ PassDone /\ ~pass.disturbed /\ ~closing)
      => /\ \A g \in Present(win) : (g \in win.collapsed) <=> pass.target
         /\ pass.moves <= 1

(* A disturbed pass still never undoes the target: it only toggles towards it.        *)
PassOnlyTogglesTowardsTarget ==
    [][pass.running /\ pass'.running /\ pass'.disturbed = pass.disturbed
         => \A g \in Present(win) \cap Present(win') :
              (g \in win.collapsed) # (g \in win'.collapsed)
                => ((g \in win'.collapsed) <=> pass.target)]_groupVars

(* A pass ends, whatever observers do to the groups.                                  *)
PassTerminates == pass.running ~> ~pass.running

(* The window between any two events.                                                 *)
WindowInv == GroupsTypeOK /\ ActiveIsExpanded /\ GroupsContiguous

(* The bulk pass has the right target and reaches it.                                 *)
PassInv == TargetIsFromBeforeTheGesture /\ PassIsUniform
=============================================================================
