-------------------------- MODULE RefreshRun_proofs --------------------------
(***************************************************************************)
(* Proofs about RefreshRun, for any number of tabs and navigations: the    *)
(* settle gate reports exactly the stops that end the run's own attempt.   *)
(* Then about RefreshByShortcut, for any profiles, windows and chords: it  *)
(* is a RefreshRun, and key events reach the window they belong to.        *)
(***************************************************************************)
EXTENDS RefreshByShortcut, TLAPS

(* The gate inside the load call; `id` is the start it has buffered. *)
OpenGate(id) == [in_load_call |-> TRUE, buffered_start_id |-> id,
                 navigation_id |-> 0, started |-> FALSE]

(* Inside the load call the attempt is observed and the gate remembers a      *)
(* start of ours.                                                             *)
CallOK ==
    phase = "call" =>
        /\ observed = target /\ target # NoTab
        /\ ours # 0 /\ settles = 0
        /\ \/ ourState = "none" /\ gate = OpenGate(0)
           \/ ourState = "started" /\ gate = OpenGate(ours)

(* While an attempt is observed, the gate knows whether ours has started. *)
WatchOK ==
    phase # "call" /\ observed # NoTab =>
        /\ ours # 0 /\ settles = 0
        /\ ~gate.in_load_call
        /\ \/ ourState = "created" /\ pending /\ ~gate.started /\ gate.navigation_id = ours
           \/ ourState = "discarded" /\ ~gate.started
           \/ ourState \in {"started", "ended"} /\ gate.started

(* Ids are given out in order, and the gate waits for no id but the attempt's. *)
IdsOK ==
    /\ ours <= lastNav /\ gate.navigation_id \in {0, ours}
    /\ ourState # "none" => target # NoTab

(* A run that is not held is not in its loop. *)
PhaseOK == held \/ phase = "idle"

(* The inductive invariant. *)
IInv ==
    /\ TypeOK
    /\ FinishedRunIsSilent
    /\ CallOK
    /\ WatchOK
    /\ IdsOK
    /\ PhaseOK
-----------------------------------------------------------------------------
(* The gate that Reset leaves. *)
LEMMA ClosedGateFacts ==
    /\ ClosedGate \in Gate /\ ~ClosedGate.in_load_call /\ ~ClosedGate.started
    /\ ClosedGate.navigation_id = 0
BY DEF ClosedGate, Gate

(* The gate inside the call, and what a start does to it. *)
LEMMA OpenGateFacts ==
    ASSUME NEW id \in Nat
    PROVE  /\ BeginAttempt = OpenGate(0)
           /\ OpenGate(id) \in Gate /\ OpenGate(id).in_load_call
           /\ OpenGate(id).navigation_id = 0 /\ ~OpenGate(id).started
           /\ OnNavigationStarted(OpenGate(0), id) = OpenGate(id)
           /\ OnAttemptDiscarded(OpenGate(id)) = OpenGate(id)
<1>1. BeginAttempt = OpenGate(0)
  BY DEF OpenGate, BeginAttempt
<1>2. /\ OpenGate(id) \in Gate /\ OpenGate(id).in_load_call
      /\ OpenGate(id).navigation_id = 0 /\ ~OpenGate(id).started
  BY DEF OpenGate, Gate
<1>3. OnNavigationStarted(OpenGate(0), id) = OpenGate(id)
  BY DEF OpenGate, OnNavigationStarted
<1>4. OnAttemptDiscarded(OpenGate(id)) = OpenGate(id)
  BY DEF OpenGate, OnAttemptDiscarded
<1> QED
  BY <1>1, <1>2, <1>3, <1>4

(* A start after the call counts only if it is the attempt's. *)
LEMMA StartedGate ==
    ASSUME NEW g \in Gate, NEW id \in Nat, ~g.in_load_call
    PROVE  /\ OnNavigationStarted(g, id) \in Gate
           /\ ~OnNavigationStarted(g, id).in_load_call
           /\ OnNavigationStarted(g, id).navigation_id = g.navigation_id
           /\ g.started => OnNavigationStarted(g, id).started
           /\ OnNavigationStarted(g, id).started /\ ~g.started => id = g.navigation_id
           /\ id # 0 /\ id = g.navigation_id => OnNavigationStarted(g, id).started
BY DEF Gate, OnNavigationStarted

(* The call returns: a start counts exactly if it was buffered under the id. *)
LEMMA IssuedGate ==
    ASSUME NEW buffered \in Nat, NEW id \in Nat
    PROVE  /\ AttemptIssued(OpenGate(buffered), id) \in Gate
           /\ ~AttemptIssued(OpenGate(buffered), id).in_load_call
           /\ AttemptIssued(OpenGate(buffered), id).navigation_id = id
           /\ AttemptIssued(OpenGate(buffered), id).started <=> (id # 0 /\ buffered = id)
BY DEF AttemptIssued, OpenGate, Gate

(* Discarding an attempt touches only one that has not started. *)
LEMMA DiscardedGate ==
    ASSUME NEW g \in Gate
    PROVE  /\ OnAttemptDiscarded(g) \in Gate
           /\ OnAttemptDiscarded(g).in_load_call = g.in_load_call
           /\ OnAttemptDiscarded(g).started = g.started
           /\ OnAttemptDiscarded(g).navigation_id \in {0, g.navigation_id}
           /\ AfterSettle(g) \in Gate
           /\ AfterSettle(g).navigation_id = 0
BY DEF OnAttemptDiscarded, AfterSettle, Gate
-----------------------------------------------------------------------------
(* The initial state is in the invariant. *)
LEMMA InitIInv == Init => IInv
<1> SUFFICES ASSUME Init PROVE IInv
  OBVIOUS
<1>1. TypeOK
  <2>1. held \in BOOLEAN /\ pending \in BOOLEAN
    BY Zenon DEF Init
  <2>2. gate \in Gate
    BY ClosedGateFacts, Zenon DEF Init
  <2>3. /\ loading \subseteq Tab /\ lastNav \in Nat /\ ours \in Nat
        /\ ourState \in {"none", "created", "started", "ended", "discarded"}
        /\ left \subseteq Tab /\ phase \in {"idle", "loop", "call"}
        /\ target \in Tab \cup {NoTab} /\ observed \in {NoTab, target} /\ settles \in 0..1
    BY DEF Init
  <2> QED
    BY <2>1, <2>2, <2>3, Zenon DEF TypeOK
<1>2. FinishedRunIsSilent /\ CallOK /\ WatchOK /\ IdsOK /\ PhaseOK
  BY ClosedGateFacts DEF Init, FinishedRunIsSilent, CallOK, WatchOK, IdsOK, PhaseOK
<1> QED
  BY <1>1, <1>2 DEF IInv

(* The types of all but the gate and the settles. *)
PlainTypes ==
    /\ loading \subseteq Tab /\ lastNav \in Nat /\ ours \in Nat
    /\ ourState \in {"none", "created", "started", "ended", "discarded"}
    /\ held \in BOOLEAN /\ left \subseteq Tab /\ phase \in {"idle", "loop", "call"}
    /\ target \in Tab \cup {NoTab} /\ observed \in {NoTab, target}
    /\ pending \in BOOLEAN

(* Every step preserves them. *)
LEMMA NextPlainTypes == IInv /\ [Next]_vars => PlainTypes'
<1> SUFFICES ASSUME IInv, [Next]_vars PROVE PlainTypes'
  OBVIOUS
<1>0. TypeOK /\ CallOK /\ IdsOK
  BY DEF IInv
<1>1. held' \in BOOLEAN /\ pending' \in BOOLEAN
  BY <1>0, Zenon DEF Next, RunStep, vars, pageVars, TypeOK, Trigger, Cancel, StartFromCursor, Defer,
     RunsOut, Finish, SkipItem, StartItem, OtherStarts, LoadStops, DidStopLoading,
     StartsInsideCall, EarlierLoadStopsInsideCall, LoadRefused, LoadIssued, OursStarts,
     OursIsDiscarded, OursEnds
<1>2. /\ loading' \subseteq Tab /\ lastNav' \in Nat /\ ours' \in Nat
      /\ ourState' \in {"none", "created", "started", "ended", "discarded"}
  BY <1>0 DEF Next, RunStep, vars, pageVars, TypeOK, CallOK, IdsOK, Trigger, Cancel, StartFromCursor,
     Defer, RunsOut, Finish, SkipItem, StartItem, OtherStarts, LoadStops,
     StartsInsideCall, EarlierLoadStopsInsideCall, LoadRefused, LoadIssued, OursStarts,
     OursIsDiscarded, OursEnds
<1>3. /\ left' \subseteq Tab /\ phase' \in {"idle", "loop", "call"}
      /\ target' \in Tab \cup {NoTab} /\ observed' \in {NoTab, target'}
  BY <1>0 DEF Next, RunStep, vars, pageVars, TypeOK, Trigger, Cancel, StartFromCursor, Defer,
     RunsOut, Finish, SkipItem, StartItem, OtherStarts, LoadStops, DidStopLoading,
     StartsInsideCall, EarlierLoadStopsInsideCall, LoadRefused, LoadIssued, OursStarts,
     OursIsDiscarded, OursEnds
<1> QED
  BY <1>1, <1>2, <1>3, Zenon DEF PlainTypes

(* A stop inside the call changes nothing. *)
LEMMA StopInsideCall ==
    ASSUME TypeOK, CallOK, phase = "call", NEW t, DidStopLoading(t)
    PROVE  UNCHANGED <<gate, pending, observed, settles>>
<1>1. PICK id \in Nat : gate = OpenGate(id)
  BY DEF CallOK, TypeOK
<1>2. gate.in_load_call /\ OnAttemptDiscarded(gate) = gate
  BY <1>1, OpenGateFacts
<1> QED
  BY <1>2 DEF DidStopLoading, StopSettles

(* A stop after the call reports a settle exactly when ours has started. *)
LEMMA StopAfterCall ==
    ASSUME TypeOK, WatchOK, IdsOK, phase # "call", NEW t \in Tab, DidStopLoading(t)
    PROVE  /\ gate' \in Gate /\ settles' \in 0..1
           /\ gate'.navigation_id \in {0, gate.navigation_id}
           /\ \/ /\ observed = t /\ gate.started
                 /\ settles' = settles + 1 /\ observed' = NoTab
              \/ /\ ~(observed = t /\ gate.started)
                 /\ UNCHANGED <<settles, observed, pending>>
                 /\ gate'.started = gate.started
                 /\ gate'.in_load_call = gate.in_load_call
                 /\ observed # t \/ pending => gate' = gate
<1>1. gate \in Gate /\ settles \in 0..1 /\ NoTab \notin Tab
  BY RefreshRunAssumption DEF TypeOK
<1>2. CASE observed # t
  BY <1>1, <1>2 DEF DidStopLoading
<1>3. CASE observed = t
  <2> DEFINE g == IF pending THEN gate ELSE OnAttemptDiscarded(gate)
  <2>1. /\ g \in Gate /\ g.in_load_call = gate.in_load_call /\ g.started = gate.started
        /\ g.navigation_id \in {0, gate.navigation_id}
        /\ pending => g = gate
    BY <1>1, DiscardedGate
  <2>2. AfterSettle(g) \in Gate /\ AfterSettle(g).navigation_id = 0
    BY <2>1, DiscardedGate
  <2>3. ~gate.in_load_call /\ settles = 0
    BY <1>1, <1>3 DEF WatchOK
  <2>4. IF StopSettles(g)
        THEN gate' = AfterSettle(g) /\ observed' = NoTab /\ settles' = settles + 1
        ELSE gate' = g /\ UNCHANGED <<pending, observed, settles>>
    BY <1>3 DEF DidStopLoading
  <2> HIDE DEF g
  <2>5. StopSettles(g) <=> gate.started
    BY <2>1, <2>3 DEF StopSettles
  <2> QED
    BY <1>1, <1>3, <2>1, <2>2, <2>3, <2>4, <2>5
<1> QED
  BY <1>2, <1>3

(* All but the types. *)
RestOK == CallOK /\ WatchOK /\ IdsOK /\ PhaseOK /\ FinishedRunIsSilent

(* Every step preserves the invariant. *)
LEMMA NextIInv == IInv /\ [Next]_vars => IInv'
<1> SUFFICES ASSUME IInv, [Next]_vars PROVE IInv'
  OBVIOUS
<1>a. TypeOK /\ CallOK /\ WatchOK /\ IdsOK /\ PhaseOK /\ FinishedRunIsSilent
  BY DEF IInv
<1>b. gate \in Gate /\ settles \in 0..1 /\ ours \in Nat /\ lastNav \in Nat
  BY <1>a DEF TypeOK
<1> USE RefreshRunAssumption DEF RestOK, FinishedRunIsSilent, CallOK,
       WatchOK, IdsOK, PhaseOK
<1>1. ASSUME NEW snapshot \in SUBSET Tab, Trigger(snapshot)
      PROVE  gate' \in Gate /\ settles' \in 0..1 /\ RestOK'
  BY <1>a, <1>b, <1>1, ClosedGateFacts DEF Trigger
<1>2. ASSUME Cancel \/ RunsOut
      PROVE  gate' \in Gate /\ settles' \in 0..1 /\ RestOK'
  BY <1>a, <1>b, <1>2 DEF Cancel, RunsOut, Finish, pageVars
<1>3. ASSUME StartFromCursor \/ Defer
      PROVE  gate' \in Gate /\ settles' \in 0..1 /\ RestOK'
  BY <1>a, <1>b, <1>3 DEF StartFromCursor, Defer, pageVars
<1>4. ASSUME NEW t \in Tab, SkipItem(t)
      PROVE  gate' \in Gate /\ settles' \in 0..1 /\ RestOK'
  BY <1>a, <1>b, <1>4, ClosedGateFacts DEF SkipItem
<1>5. ASSUME NEW t \in Tab, StartItem(t)
      PROVE  gate' \in Gate /\ settles' \in 0..1 /\ RestOK'
  BY <1>a, <1>b, <1>5, OpenGateFacts DEF StartItem
<1>6. ASSUME StartsInsideCall
      PROVE  gate' \in Gate /\ settles' \in 0..1 /\ RestOK'
  BY <1>a, <1>b, <1>6, OpenGateFacts DEF StartsInsideCall, DidStartNavigation
<1>7. ASSUME EarlierLoadStopsInsideCall
      PROVE  gate' \in Gate /\ settles' \in 0..1 /\ RestOK'
  BY <1>a, <1>b, <1>7, StopInsideCall DEF EarlierLoadStopsInsideCall
<1>8. ASSUME LoadRefused
      PROVE  gate' \in Gate /\ settles' \in 0..1 /\ RestOK'
  BY <1>a, <1>b, <1>8, IssuedGate DEF LoadRefused
<1>9. ASSUME LoadIssued
      PROVE  gate' \in Gate /\ settles' \in 0..1 /\ RestOK'
  <2>1. PICK buffered \in Nat :
           /\ gate = OpenGate(buffered)
           /\ \/ ourState = "none" /\ buffered = 0
              \/ ourState = "started" /\ buffered = ours
    BY <1>a, <1>b, <1>9 DEF LoadIssued
  <2>2. /\ gate' \in Gate /\ ~gate'.in_load_call /\ gate'.navigation_id = ours
        /\ gate'.started <=> ourState = "started"
    BY <1>a, <1>b, <1>9, <2>1, IssuedGate DEF LoadIssued
  <2>3. /\ phase' = "idle" /\ pending' /\ UNCHANGED <<lastNav, ours, target, settles>>
        /\ ourState' = IF ourState = "none" THEN "created" ELSE ourState
        /\ \/ held' = FALSE /\ observed' = NoTab
           \/ held' = held /\ observed' = observed
    BY <1>9 DEF LoadIssued, Finish
  <2>4. WatchOK'
    BY <1>a, <1>9, <2>1, <2>2, <2>3 DEF LoadIssued
  <2>5. IdsOK'
    BY <1>a, <1>b, <1>9, <2>2, <2>3 DEF LoadIssued
  <2>6. CallOK' /\ PhaseOK'
    BY <2>3
  <2>7. FinishedRunIsSilent'
    <3>1. CASE held' = held /\ observed' = observed
      BY <1>a, <3>1
    <3>2. CASE observed' = NoTab
      BY <3>2
    <3> QED
      BY <2>3, <3>1, <3>2
  <2> QED
    BY <1>b, <2>2, <2>3, <2>4, <2>5, <2>6, <2>7, Zenon DEF RestOK
<1>10. ASSUME OursStarts
       PROVE  gate' \in Gate /\ settles' \in 0..1 /\ RestOK'
  BY <1>a, <1>b, <1>10, StartedGate DEF OursStarts, DidStartNavigation, TypeOK
<1>11. ASSUME OursIsDiscarded \/ OursEnds
       PROVE  gate' \in Gate /\ settles' \in 0..1 /\ RestOK'
  BY <1>a, <1>b, <1>11 DEF OursIsDiscarded, OursEnds
<1>12. ASSUME NEW t \in Tab, OtherStarts(t)
       PROVE  gate' \in Gate /\ settles' \in 0..1 /\ RestOK'
  BY <1>a, <1>b, <1>12, StartedGate DEF OtherStarts, DidStartNavigation
<1>13. ASSUME NEW t \in Tab, LoadStops(t)
       PROVE  gate' \in Gate /\ settles' \in 0..1 /\ RestOK'
  <2>1. phase = "idle" /\ DidStopLoading(t)
    BY <1>13 DEF LoadStops
  <2>2. UNCHANGED <<lastNav, ours, ourState, held, left, phase, target>>
    BY <1>13 DEF LoadStops
  <2>3. CASE observed = t /\ gate.started
    BY <1>a, <1>b, <2>1, <2>2, <2>3, StopAfterCall
  <2>4. CASE ~(observed = t /\ gate.started)
    BY <1>a, <1>b, <2>1, <2>2, <2>4, StopAfterCall
  <2> QED
    BY <2>3, <2>4
<1>14. ASSUME UNCHANGED vars
       PROVE  gate' \in Gate /\ settles' \in 0..1 /\ RestOK'
  BY <1>a, <1>b, <1>14 DEF vars, pageVars
<1>15. gate' \in Gate /\ settles' \in 0..1 /\ RestOK'
  BY <1>1, <1>2, <1>3, <1>4, <1>5, <1>6, <1>7, <1>8, <1>9, <1>10, <1>11, <1>12, <1>13,
     <1>14, Zenon DEF Next, RunStep
<1>16. TypeOK'
  BY <1>15, NextPlainTypes, Zenon DEF TypeOK, PlainTypes
<1> QED
  BY <1>15, <1>16, Zenon DEF IInv

(* The types and the silence of a finished run hold in every reachable state. *)
THEOREM Invariance == Spec => []RunInv
<1>1. IInv => RunInv
  BY DEF IInv, RunInv
<1> QED
  BY <1>1, InitIInv, NextIInv, PTL DEF Spec

(* Only a stop of the tab reports a settle. *)
LEMMA SettleIsAStop ==
    ASSUME TypeOK, CallOK, [Next]_vars, settles' > settles
    PROVE  \E t \in Tab : LoadStops(t)
<1>1. settles \in 0..1
  BY DEF TypeOK
<1>2. ~EarlierLoadStopsInsideCall
  BY <1>1, StopInsideCall DEF EarlierLoadStopsInsideCall
<1> QED
  BY <1>1, <1>2 DEF Next, RunStep, vars, pageVars, Trigger, Cancel, StartFromCursor, Defer,
     RunsOut, SkipItem, StartItem, OtherStarts, StartsInsideCall, LoadRefused, LoadIssued,
     OursStarts, OursIsDiscarded, OursEnds

(* An attempt settles only at a stop after the end of its own navigation. *)
THEOREM GateIsSound == Spec => SettlesOnlyOurs
<1>1. ASSUME IInv, [Next]_vars, settles' > settles
      PROVE  phase = "idle" /\ ourState = "ended" /\ observed = target
  <2>0. TypeOK /\ CallOK /\ WatchOK /\ IdsOK
    BY <1>1 DEF IInv
  <2>1. PICK t \in Tab : LoadStops(t)
    BY <1>1, <2>0, SettleIsAStop
  <2>2. phase = "idle" /\ DidStopLoading(t) /\ (t = target => ourState # "started")
    BY <2>1 DEF LoadStops
  <2>3. observed = t /\ gate.started
    BY <1>1, <2>0, <2>2, StopAfterCall DEF TypeOK
  <2>4. observed = target /\ observed # NoTab
    BY <2>0, <2>3, RefreshRunAssumption DEF TypeOK
  <2> QED
    BY <2>0, <2>2, <2>3, <2>4 DEF WatchOK
<1>2. IInv /\ [Next]_vars
        => [settles' > settles => phase = "idle" /\ ourState = "ended" /\ observed = target]_vars
  BY <1>1
<1> QED
  BY <1>2, InitIInv, NextIInv, PTL DEF Spec, SettlesOnlyOurs

(* And no such stop goes unreported. *)
THEOREM GateIsComplete == Spec => NoSettleMissed
<1>1. ASSUME IInv, [Next]_vars, phase = "idle", observed = target, ourState = "ended",
             target \in loading \ loading'
      PROVE  settles' = settles + 1
  <2>0. TypeOK /\ CallOK /\ WatchOK /\ IdsOK /\ loading \subseteq Tab
    BY <1>1 DEF IInv, TypeOK
  <2>1. LoadStops(target)
    BY <1>1 DEF Next, RunStep, vars, pageVars, Trigger, Cancel, StartFromCursor, Defer,
       RunsOut, SkipItem, StartItem, OtherStarts, LoadStops, StartsInsideCall,
       EarlierLoadStopsInsideCall, LoadRefused, LoadIssued, OursStarts, OursIsDiscarded,
       OursEnds
  <2>2. gate.started /\ target \in Tab
    BY <1>1, <2>0, RefreshRunAssumption DEF WatchOK
  <2> QED
    BY <1>1, <2>0, <2>1, <2>2, StopAfterCall DEF LoadStops
<1>2. IInv /\ [Next]_vars
        => [phase = "idle" /\ observed = target /\ ourState = "ended"
              /\ target \in loading \ loading' => settles' = settles + 1]_vars
  BY <1>1
<1> QED
  BY <1>2, InitIInv, NextIInv, PTL DEF Spec, NoSettleMissed
(* A run that is held between two handlers has tabs left to try. *)
LEMMA HeldRunsGoOn == Spec => []NoPressIsWasted
<1>1. Init => NoPressIsWasted
  BY DEF Init, NoPressIsWasted
<1>2. NoPressIsWasted /\ [Next]_vars => NoPressIsWasted'
  BY DEF NoPressIsWasted, Next, RunStep, vars, pageVars, Trigger, Cancel, StartFromCursor, Defer,
     RunsOut, Finish, SkipItem, StartItem, OtherStarts, LoadStops, StartsInsideCall,
     EarlierLoadStopsInsideCall, LoadRefused, LoadIssued, OursStarts, OursIsDiscarded, OursEnds
<1> QED
  BY <1>1, <1>2, PTL DEF Spec
-----------------------------------------------------------------------------
(* The run started and cancelled by a shortcut is a run: every step of the    *)
(* composition is one of RefreshRun or leaves it alone, so that its           *)
(* properties hold of the composition.                                        *)
THEOREM ShortcutImplementsRun == ShortcutSpec => Spec
<1>1. ShortcutInit => Init
  BY DEF ShortcutInit
<1>2. [ShortcutNext]_allVars => [Next]_vars
  BY DEF ShortcutNext, allVars, PressChord, RefreshAllInitialUrls, MenuRefresh, WindowCloses,
     RunGoesOn, Next
<1> QED
  BY <1>1, <1>2, PTL DEF ShortcutSpec, Spec

(* What the run checks of the composition. *)
THEOREM ShortcutRunIsSound ==
    ShortcutSpec => []RunInv /\ SettlesOnlyOurs /\ NoSettleMissed
BY ShortcutImplementsRun, Invariance, GateIsSound, GateIsComplete, PTL

(* Whatever starts and cancels runs, a press cancels tabs that were still to  *)
(* be tried or starts a run: RetireFinishedRun has unlinked the former one.   *)
THEOREM EveryPressActs == ShortcutSpec => []NoPressIsWasted
BY ShortcutImplementsRun, HeldRunsGoOn, PTL
-----------------------------------------------------------------------------
(* A set of rows that is not empty has a first one. *)
LEMMA FirstRow ==
    ASSUME NEW S \in SUBSET Row, S # {}
    PROVE  \E row \in S : \A other \in S : row <= other
<1>1. Row = {1, 2, 3, 4, 5}
  BY DEF Row, kIdcReloadInitialUrl, kIdcRefreshAllInitialUrls
<1>2. CASE 1 \in S
  BY <1>1, <1>2
<1>3. CASE 1 \notin S /\ 2 \in S
  BY <1>1, <1>3
<1>4. CASE 1 \notin S /\ 2 \notin S /\ 3 \in S
  BY <1>1, <1>4
<1>5. CASE 1 \notin S /\ 2 \notin S /\ 3 \notin S /\ 4 \in S
  BY <1>1, <1>5
<1>6. CASE 1 \notin S /\ 2 \notin S /\ 3 \notin S /\ 4 \notin S
  <2>1. \A row \in S : row = 5
    BY <1>1, <1>6
  <2> QED
    BY <2>1
<1> QED
  BY <1>2, <1>3, <1>4, <1>5, <1>6

(* CommandForChord is the first enabled row bound to the chord. *)
LEMMA CommandWins ==
    ASSUME NEW p, NEW chord, NEW row \in Row
    PROVE  CommandForChord(p, chord) = row <=> Wins(p, row, chord)
<1> DEFINE S == BoundTo(p, chord)
<1>1. S \subseteq Row
  BY DEF BoundTo, EnabledShortcuts
<1>2. Row \subseteq Int /\ NoCommand \notin Row
  BY DEF Row, NoCommand, kIdcReloadInitialUrl, kIdcRefreshAllInitialUrls
<1>3. CASE S = {}
  BY <1>2, <1>3 DEF CommandForChord, Wins
<1>4. CASE S # {}
  <2> DEFINE first == CHOOSE r \in S : \A other \in S : r <= other
  <2>1. first \in S /\ \A other \in S : first <= other
    BY <1>1, <1>4, FirstRow
  <2>2. CommandForChord(p, chord) = first
    BY <1>4 DEF CommandForChord
  <2>3. ASSUME Wins(p, row, chord) PROVE first = row
    <3> HIDE DEF first
    <3>1. row \in S /\ first <= row /\ row <= first
      BY <2>1, <2>3 DEF Wins
    <3> QED
      BY <1>1, <1>2, <2>1, <3>1
  <2> QED
    BY <2>1, <2>2, <2>3 DEF Wins
<1> QED
  BY <1>3, <1>4

(* The command found for a chord is a row or none. *)
LEMMA CommandTypes ==
    ASSUME NEW p, NEW chord
    PROVE  CommandForChord(p, chord) \in Row \cup {NoCommand}
<1>1. BoundTo(p, chord) \subseteq Row
  BY DEF BoundTo, EnabledShortcuts
<1>2. CASE BoundTo(p, chord) = {}
  BY <1>2 DEF CommandForChord
<1>3. CASE BoundTo(p, chord) # {}
  BY <1>1, <1>3, FirstRow DEF CommandForChord
<1> QED
  BY <1>2, <1>3

(* Whatever is stored, a key event is resolved by its own window.             *)
LEMMA ResolutionIsLocal == ResolvedByItsWindow
<1> SUFFICES ASSUME NEW w \in Window, NEW chord \in Chord,
                    NEW row \in {kIdcToggleTabStrip, kIdcRefreshAllInitialUrls}
             PROVE  CommandForKeyEventOverride(w, chord) = row
                      <=> Wins(Owner[w], row, chord) /\ IsAvailableForTarget(row, w)
  BY DEF ResolvedByItsWindow
<1>1. w # NoWindow
  BY ShortcutsAssumption
<1>2. row \in Row /\ IsEventWindowResolved(row) /\ row # NoCommand /\ ~IsEventWindowResolved(NoCommand)
  BY DEF Row, IsEventWindowResolved, NoCommand, kIdcReloadInitialUrl, kIdcToggleTabStrip,
     kIdcRefreshAllInitialUrls
<1>3. CommandForChord(Owner[w], chord) = row <=> Wins(Owner[w], row, chord)
  BY <1>2, CommandWins
<1> QED
  BY <1>1, <1>2, <1>3 DEF CommandForKeyEventOverride

(* Without a conflict every row wins the chord it is listed with, and in the  *)
(* last active window both ways of resolving a key event agree.               *)
LEMMA ListIsTrue == ListedChordWorks
<1> SUFFICES ASSUME NEW w \in Window, lastActive = w, Conflicts(Owner[w]) = {},
                    NEW row \in EnabledShortcuts
             PROVE  CommandForKeyEventOverride(w, GetCurrentChord(Owner[w], row))
                      = IF IsEventWindowResolved(row) /\ ~IsAvailableForTarget(row, w)
                        THEN NoCommand ELSE row
  BY DEF ListedChordWorks, BuildShortcutList
<1> DEFINE p == Owner[w]
           chord == GetCurrentChord(p, row)
<1>1. w # NoWindow /\ row \in Row /\ EnabledShortcuts \subseteq Row /\ Row \subseteq Int
  BY ShortcutsAssumption DEF EnabledShortcuts, Row, kIdcReloadInitialUrl,
     kIdcRefreshAllInitialUrls
<1>2. Wins(p, row, chord)
  <2>1. row \in BoundTo(p, chord)
    BY DEF BoundTo
  <2>2. ASSUME NEW other \in BoundTo(p, chord), ~(row <= other) PROVE FALSE
    <3>1. other \in EnabledShortcuts /\ GetCurrentChord(p, other) = GetCurrentChord(p, row)
      BY <2>2 DEF BoundTo
    <3>2. other < row
      BY <1>1, <2>2, <3>1
    <3>3. <<other, row>> \in Conflicts(p)
      BY <3>1, <3>2 DEF Conflicts
    <3> QED
      BY <3>3
  <2> QED
    BY <2>1, <2>2 DEF Wins
<1>3. CommandForChord(p, chord) = row
  BY <1>1, <1>2, CommandWins
<1> QED
  BY <1>1, <1>3 DEF CommandForKeyEventOverride

(* The types of the registry are preserved. *)
LEMMA ShortcutTypes ==
    /\ ShortcutInit => ShortcutsTypeOK
    /\ ShortcutsTypeOK /\ [ShortcutNext]_allVars => ShortcutsTypeOK'
<1>1. ShortcutInit => ShortcutsTypeOK
  BY RefreshByShortcutAssumption DEF ShortcutInit, ShortcutsTypeOK
<1>2. ASSUME ShortcutsTypeOK, [ShortcutNext]_allVars PROVE ShortcutsTypeOK'
  <2>1. CASE UNCHANGED shortcutVars
    BY <1>2, <2>1 DEF shortcutVars, ShortcutsTypeOK
  <2>2. ASSUME NEW request \in Requests, Rebind(request[1], request[2], request[3])
        PROVE  ShortcutsTypeOK'
    <3>1. request[1] \in Profile /\ request[2] \in Row /\ request[3] \in Stored
      BY RefreshByShortcutAssumption DEF Stored
    <3> QED
      BY <1>2, <2>2, <3>1 DEF Rebind, StoreRebind, ShortcutsTypeOK
  <2>3. ASSUME NEW w \in Window \cup {NoWindow}, ActivateWindow(w) PROVE ShortcutsTypeOK'
    BY <1>2, <2>3 DEF ActivateWindow, ShortcutsTypeOK
  <2> QED
    BY <1>2, <2>1, <2>2, <2>3 DEF ShortcutNext, allVars, PressChord, MenuRefresh, WindowCloses,
       RunGoesOn
<1> QED
  BY <1>1, <1>2

(* The registry is sound in every reachable state. *)
THEOREM ShortcutsAreSound == ShortcutSpec => []ShortcutInv
<1>1. ShortcutsTypeOK => ShortcutInv
  BY ResolutionIsLocal, ListIsTrue DEF ShortcutInv
<1> QED
  BY <1>1, ShortcutTypes, PTL DEF ShortcutSpec

(* A rebind changes one binding of one profile, to a chord no other enabled   *)
(* row of the profile has.                                                    *)
LEMMA RebindAddsNoConflict ==
    ASSUME ShortcutsTypeOK, NEW q \in Profile, NEW row \in Row, NEW chord \in Chord,
           Rebind(q, row, chord), NEW p \in Profile
    PROVE  Conflicts(p)' \subseteq Conflicts(p)
<1>1. EnabledShortcuts' = EnabledShortcuts
  BY DEF Rebind, EnabledShortcuts
<1>2. \A other \in Row : <<p, other>> # <<q, row>> =>
         GetCurrentChord(p, other)' = GetCurrentChord(p, other)
  BY DEF Rebind, StoreRebind, GetCurrentChord, ShortcutsTypeOK
<1>3. GetCurrentChord(q, row)' = chord
  BY DEF Rebind, StoreRebind, GetCurrentChord, ShortcutsTypeOK
<1>4. \A other \in EnabledShortcuts \ {row} : GetCurrentChord(q, other) # chord
  BY DEF Rebind, ValidateRebind
<1>5. EnabledShortcuts \subseteq Row /\ Row \subseteq Int
  BY DEF EnabledShortcuts, Row, kIdcReloadInitialUrl, kIdcRefreshAllInitialUrls
<1>6. ASSUME NEW a \in EnabledShortcuts, NEW b \in EnabledShortcuts, a < b,
             GetCurrentChord(p, a)' = GetCurrentChord(p, b)'
      PROVE  GetCurrentChord(p, a) = GetCurrentChord(p, b)
  <2>1. CASE p # q \/ (a # row /\ b # row)
    BY <1>2, <1>5, <1>6, <2>1
  <2>2. CASE p = q /\ a = row
    BY <1>2, <1>3, <1>4, <1>5, <1>6, <2>2
  <2>3. CASE p = q /\ b = row
    BY <1>2, <1>3, <1>4, <1>5, <1>6, <2>3
  <2> QED
    BY <2>1, <2>2, <2>3
<1> QED
  BY <1>1, <1>6 DEF Conflicts

(* No step makes a new conflict. *)
THEOREM RebindsAddNoConflicts == ShortcutSpec => NoNewConflicts
<1>1. ASSUME ShortcutsTypeOK, [ShortcutNext]_allVars
      PROVE  [\A p \in Profile : Conflicts(p)' \subseteq Conflicts(p)]_shortcutVars
  <2>1. CASE UNCHANGED shortcutVars
    BY <2>1
  <2>2. ASSUME NEW request \in Requests, Rebind(request[1], request[2], request[3])
        PROVE  \A p \in Profile : Conflicts(p)' \subseteq Conflicts(p)
    <3>1. request[1] \in Profile /\ request[2] \in Row /\ request[3] \in Chord
      BY RefreshByShortcutAssumption
    <3> QED
      BY <1>1, <2>2, <3>1, RebindAddsNoConflict
  <2>3. ASSUME NEW w \in Window \cup {NoWindow}, ActivateWindow(w)
        PROVE  \A p \in Profile : Conflicts(p)' \subseteq Conflicts(p)
    BY <2>3 DEF ActivateWindow, Conflicts, EnabledShortcuts, GetCurrentChord
  <2> QED
    BY <1>1, <2>1, <2>2, <2>3 DEF ShortcutNext, allVars, PressChord, MenuRefresh, WindowCloses,
       RunGoesOn
<1> QED
  BY <1>1, ShortcutTypes, PTL DEF ShortcutSpec, NoNewConflicts

=============================================================================
