----------------------- MODULE RefreshScheduler_proofs -----------------------
(***************************************************************************)
(* Proofs about RefreshScheduler, for every interval, floor, number of     *)
(* items and load delay: the floor between two starts, the armed backstop, *)
(* one OnRunFinished per run, and no start outside a run.                  *)
(***************************************************************************)
EXTENDS RefreshScheduler, TLAPS

(* The items of a history `record` start in order and spaced. *)
Spaced(record) ==
    \A i, j \in Item : i < j /\ record[i] # -1 /\ record[j] # -1 =>
        record[j] >= record[i] + MinSpacing

(* The items of `record` lie before `from` and another start at `time` keeps  *)
(* the floor to all of them.                                                  *)
MayStart(record, from, time) ==
    \A i \in Item : record[i] # -1 => i < from /\ record[i] + MinSpacing <= time

(* A live run: what each of the three timer tasks may rely on. *)
WaitOK ==
    waiting =>
        /\ timer.task = "interval"
        /\ cursor \in Item /\ startedAt[cursor] = lastStart
        /\ timer.due >= lastStart + Interval
        /\ timer.due <= lastStart + (IF Interval >= MaxStartDelay
                                     THEN Interval ELSE MaxStartDelay)
        /\ MayStart(startedAt, cursor + 1, lastStart + MinSpacing)

TimerOK ==
    /\ running <=> timer.task # "none"
    /\ timer.task = "interval" => waiting
    /\ timer.task = "start" => MayStart(startedAt, cursor, timer.due)
    /\ timer.task = "defer" => MayStart(startedAt, cursor, now)

(* The inductive invariant. *)
IInv ==
    /\ TypeOK
    /\ Spaced(startedAt)
    /\ WaitOK
    /\ TimerOK
    /\ FinishesOncePerRun

(* Whatever integers the two prefs hold, Params::FromMilliseconds returns     *)
(* parameters for which the assumption on Interval and MinSpacing holds.      *)
THEOREM ParamsAreValid ==
    ASSUME NEW x \in Int, NEW y \in Int
    PROVE  LET params == FromMilliseconds(x, y)
           IN  /\ params.interval \in Nat /\ params.min_spacing \in Nat
               /\ 0 < params.min_spacing
               /\ params.min_spacing <= params.interval
               /\ params.interval <= 600000
BY DEF FromMilliseconds, kDefaultIntervalMs, kDefaultMinSpacingMs

(* Starting item i now, when the floor allows it, keeps the history spaced. *)
LEMMA StartKeepsSpacing ==
    ASSUME NEW record \in [Item -> Nat \cup {-1}], Spaced(record),
           NEW from \in Nat, NEW time \in Nat, MayStart(record, from, time),
           NEW i \in Item, from <= i
    PROVE  LET new == [record EXCEPT ![i] = time]
           IN  /\ new \in [Item -> Nat \cup {-1}]
               /\ Spaced(new)
               /\ MayStart(new, i + 1, time + MinSpacing)
<1> DEFINE new == [record EXCEPT ![i] = time]
<1>1. new \in [Item -> Nat \cup {-1}]
  OBVIOUS
<1>2. \A k \in Item : new[k] = IF k = i THEN time ELSE record[k]
  OBVIOUS
<1>3. Item \subseteq Int /\ MinSpacing \in Nat
  BY RefreshSchedulerAssumption DEF Item
<1> HIDE DEF new
<1>4. Spaced(new)
  <2> SUFFICES ASSUME NEW j \in Item, NEW k \in Item, j < k, new[j] # -1, new[k] # -1
               PROVE  new[k] >= new[j] + MinSpacing
    BY DEF Spaced
  <2>1. CASE k = i
    BY <1>2, <1>3, <2>1 DEF MayStart
  <2>2. CASE k # i
    <3>1. k < from /\ j # i
      BY <1>2, <1>3, <2>2 DEF MayStart
    <3> QED
      BY <1>2, <2>2, <3>1 DEF Spaced
  <2> QED
    BY <2>1, <2>2
<1>5. MayStart(new, i + 1, time + MinSpacing)
  BY <1>2, <1>3 DEF MayStart
<1> QED
  BY <1>1, <1>4, <1>5 DEF new

(* Finish leaves a run that is over, from any state. *)
LEMMA FinishIInv ==
    ASSUME Finish, TypeOK,
           now' \in Nat, dialog' \in BOOLEAN, cursor' \in Nat, itemCount' \in 0..MaxItems,
           lastStart' \in Nat, startedAt' \in [Item -> Nat \cup {-1}], Spaced(startedAt'),
           runs' = finishes + 1
    PROVE  IInv'
<1>1. TypeOK'
  <2>1. running' \in BOOLEAN /\ waiting' \in BOOLEAN /\ settles' \subseteq Item
    BY Zenon DEF Finish
  <2>2. /\ timer' \in [task : {"none", "interval", "defer", "start"}, due : Nat]
        /\ runs' \in Nat /\ finishes' \in Nat
    BY DEF Finish, Stopped, TypeOK
  <2> QED
    BY <2>1, <2>2, Zenon DEF TypeOK
<1>2. WaitOK' /\ TimerOK'
  BY DEF Finish, WaitOK, TimerOK, Stopped
<1>3. FinishesOncePerRun'
  BY DEF Finish, FinishesOncePerRun, TypeOK
<1>4. Spaced(startedAt)'
  BY DEF Spaced
<1> QED
  BY <1>1, <1>2, <1>3, <1>4 DEF IInv

(* StartFromCursor, called when the floor allows a start, restores the        *)
(* invariant whether it defers, starts an item or skips them all.             *)
LEMMA StartFromCursorIInv ==
    ASSUME TypeOK, NEW from \in Nat, NEW n \in 0..MaxItems, NEW last \in Nat,
           NEW kept \in SUBSET Item,
           NEW record \in [Item -> Nat \cup {-1}], Spaced(record),
           MayStart(record, from, now),
           StartFromCursor(from, n, last, kept, record),
           itemCount' = n, dialog' = dialog, runs' = finishes + 1, runs' \in Nat
    PROVE  IInv'
<1>0. /\ Interval \in Nat /\ MinSpacing \in Nat /\ 0 < MinSpacing /\ MinSpacing <= Interval
      /\ MaxItems \in Nat /\ MaxStartDelay \in Nat
  BY RefreshSchedulerAssumption
<1>1. CASE Defer(from, n, last) /\ settles' = kept /\ startedAt' = record
  <2>1. TypeOK'
    <3>1. /\ timer' \in [task : {"none", "interval", "defer", "start"}, due : Nat]
          /\ now' \in Nat /\ lastStart' \in Nat /\ finishes' \in Nat /\ cursor' \in Nat
          /\ settles' \subseteq Item
      BY <1>0, <1>1 DEF Defer, TypeOK
    <3>2. dialog' \in BOOLEAN /\ running' \in BOOLEAN /\ waiting' \in BOOLEAN
      BY <1>1, Zenon DEF Defer, TypeOK
    <3>3. startedAt' \in [Item -> Nat \cup {-1}] /\ itemCount' \in 0..MaxItems
      BY <1>1, Zenon
    <3> QED
      BY <3>1, <3>2, <3>3, Zenon DEF TypeOK
  <2>2. WaitOK' /\ FinishesOncePerRun'
    BY <1>1 DEF Defer, WaitOK, FinishesOncePerRun, TypeOK
  <2>3. TimerOK'
    BY <1>1 DEF Defer, TimerOK, MayStart
  <2>4. Spaced(startedAt)'
    BY <1>1 DEF Spaced
  <2> QED
    BY <2>1, <2>2, <2>3, <2>4 DEF IInv
<1>2. ASSUME NEW i \in Item, NEW delay \in 0..MaxStartDelay,
             StartItem(i, from, n, delay), startedAt' = [record EXCEPT ![i] = now],
             i + 1 # n => \E early \in SUBSET (from..i) : settles' = kept \cup early
      PROVE  IInv'
  <2>1. /\ cursor' = i /\ lastStart' = now /\ now' = now + delay
        /\ from <= i /\ i < n /\ i \in Nat
    BY <1>2, <1>0 DEF StartItem, Item
  <2>2. /\ startedAt' \in [Item -> Nat \cup {-1}] /\ Spaced(startedAt')
        /\ MayStart(startedAt', i + 1, now + MinSpacing) /\ startedAt'[i] = now
    BY <1>2, <2>1, StartKeepsSpacing DEF TypeOK
  <2>3. now' \in Nat /\ cursor' \in Nat /\ lastStart' \in Nat /\ dialog' \in BOOLEAN
    BY <1>0, <2>1 DEF TypeOK
  <2>4. CASE i + 1 = n
    <3>1. Finish
      BY <1>2, <2>4 DEF StartItem
    <3> QED
      BY <2>2, <2>3, <3>1, FinishIInv
  <2>5. CASE i + 1 # n
    <3>1. /\ running' = TRUE /\ waiting' = TRUE /\ finishes' = finishes
          /\ timer' = [task |-> "interval", due |-> BackstopDue(now, now + delay)]
      BY <1>2, <2>1, <2>5 DEF StartItem
    <3>2. /\ BackstopDue(now, now + delay) \in Nat
          /\ BackstopDue(now, now + delay) >= now + Interval
          /\ BackstopDue(now, now + delay) <= now + (IF Interval >= MaxStartDelay
                                                     THEN Interval ELSE MaxStartDelay)
      BY <1>0 DEF BackstopDue, TypeOK
    <3>3. settles' \subseteq Item
      <4>1. from..i \subseteq Item
        BY <1>0, <2>1 DEF Item
      <4> QED
        BY <1>2, <2>5, <4>1
    <3>4. TypeOK'
      BY <2>2, <2>3, <3>1, <3>2, <3>3 DEF TypeOK
    <3>5. WaitOK'
      BY <1>2, <2>1, <2>2, <3>1, <3>2 DEF WaitOK, MayStart
    <3>6. TimerOK' /\ FinishesOncePerRun' /\ Spaced(startedAt)'
      BY <2>2, <3>1 DEF TimerOK, FinishesOncePerRun, Spaced
    <3> QED
      BY <3>4, <3>5, <3>6 DEF IInv
  <2> QED
    BY <2>4, <2>5
<1>3. CASE SkipAll(from, n, last) /\ startedAt' = record
  BY <1>3, FinishIInv DEF SkipAll, TypeOK
<1> QED
  BY <1>1, <1>2, <1>3 DEF StartFromCursor

(* AdvanceAndScheduleNext, from a wait, with a time not before the floor. *)
LEMMA AdvanceIInv ==
    ASSUME IInv, running, waiting, NEW notBefore \in Nat, NEW kept \in SUBSET Item,
           notBefore >= lastStart + MinSpacing,
           AdvanceAndScheduleNext(notBefore, kept),
           UNCHANGED <<dialog, itemCount, runs>>
    PROVE  IInv'
<1>0. /\ TypeOK /\ Spaced(startedAt) /\ runs = finishes + 1
      /\ MinSpacing \in Nat /\ Item \subseteq Int
  BY RefreshSchedulerAssumption DEF IInv, FinishesOncePerRun, Item
<1>1. MayStart(startedAt, cursor + 1, lastStart + MinSpacing)
  BY DEF IInv, WaitOK
<1>2. MayStart(startedAt, cursor + 1, notBefore)
  BY <1>0, <1>1 DEF MayStart, TypeOK
<1>3. cursor + 1 \in Nat /\ itemCount \in 0..MaxItems
  BY <1>0 DEF TypeOK
<1>4. CASE cursor + 1 >= itemCount
  BY <1>0, <1>3, <1>4, FinishIInv DEF AdvanceAndScheduleNext, NextCursor, TypeOK
<1>5. CASE ~(cursor + 1 >= itemCount) /\ notBefore > now
  <2>1. /\ cursor' = cursor + 1 /\ waiting' = FALSE
        /\ timer' = [task |-> "start", due |-> notBefore]
        /\ settles' = kept
        /\ UNCHANGED <<now, running, lastStart, startedAt, finishes>>
    BY <1>5 DEF AdvanceAndScheduleNext, NextCursor
  <2>2. TypeOK'
    BY <1>0, <1>3, <2>1 DEF TypeOK
  <2>3. WaitOK' /\ FinishesOncePerRun'
    BY <2>1 DEF WaitOK, FinishesOncePerRun, IInv
  <2>4. TimerOK'
    BY <1>2, <2>1 DEF TimerOK, MayStart
  <2>5. Spaced(startedAt)'
    BY <1>0, <2>1 DEF Spaced
  <2> QED
    BY <2>2, <2>3, <2>4, <2>5 DEF IInv
<1>6. CASE ~(cursor + 1 >= itemCount) /\ ~(notBefore > now)
  <2>1. StartFromCursor(cursor + 1, itemCount, lastStart, kept, startedAt)
    BY <1>6 DEF AdvanceAndScheduleNext, NextCursor
  <2>2. MayStart(startedAt, cursor + 1, now)
    BY <1>0, <1>2, <1>6 DEF MayStart, TypeOK
  <2>3. startedAt \in [Item -> Nat \cup {-1}] /\ runs \in Nat /\ lastStart \in Nat
    BY <1>0 DEF TypeOK
  <2> QED
    BY <1>0, <1>3, <2>1, <2>2, <2>3, StartFromCursorIInv
<1> QED
  BY <1>4, <1>5, <1>6

(* The initial state is in the invariant. *)
LEMMA InitIInv == Init => IInv
<1> SUFFICES ASSUME Init PROVE IInv
  OBVIOUS
<1>1. TypeOK
  <2>1. /\ timer \in [task : {"none", "interval", "defer", "start"}, due : Nat]
        /\ now \in Nat /\ cursor \in Nat /\ itemCount \in 0..MaxItems /\ lastStart \in Nat
        /\ runs \in Nat /\ finishes \in Nat /\ settles \subseteq Item
        /\ startedAt \in [Item -> Nat \cup {-1}]
    BY RefreshSchedulerAssumption DEF Init, Stopped
  <2>2. dialog \in BOOLEAN /\ running \in BOOLEAN /\ waiting \in BOOLEAN
    BY Zenon DEF Init
  <2> QED
    BY <2>1, <2>2, Zenon DEF TypeOK
<1>2. Spaced(startedAt) /\ WaitOK /\ TimerOK /\ FinishesOncePerRun
  BY DEF Init, Spaced, WaitOK, TimerOK, FinishesOncePerRun, Stopped
<1> QED
  BY <1>1, <1>2 DEF IInv

(* Every step preserves the invariant. *)
LEMMA NextIInv == IInv /\ [Next]_vars => IInv'
<1> SUFFICES ASSUME IInv, [Next]_vars PROVE IInv'
  OBVIOUS
<1>0. TypeOK /\ Spaced(startedAt) /\ Interval \in Nat /\ MinSpacing \in Nat
        /\ MinSpacing <= Interval /\ Item \subseteq Int /\ MaxItems \in Nat
  BY RefreshSchedulerAssumption DEF IInv, Item
<1>1. ASSUME NEW n \in 0..MaxItems, Start(n)
      PROVE  IInv'
  <2> DEFINE none == [i \in Item |-> -1]
  <2>1. none \in [Item -> Nat \cup {-1}] /\ Spaced(none) /\ MayStart(none, 0, now)
    BY DEF Spaced, MayStart
  <2>2. runs' = finishes + 1 /\ runs' \in Nat
    BY <1>0, <1>1 DEF Start, IInv, FinishesOncePerRun, TypeOK
  <2>3. itemCount' = n /\ dialog' = dialog /\ StartFromCursor(0, n, 0, {}, none)
    BY <1>1 DEF Start
  <2> HIDE DEF none
  <2> QED
    BY <1>0, <2>1, <2>2, <2>3, StartFromCursorIInv
<1>2. ASSUME NEW index \in Item, NotifyItemSettled(index)
      PROVE  IInv'
  <2>1. TypeOK'
    BY <1>0, <1>2 DEF NotifyItemSettled, TypeOK
  <2> QED
    BY <1>2, <2>1 DEF NotifyItemSettled, IInv, Spaced, WaitOK, TimerOK, MayStart,
                      FinishesOncePerRun
<1>3. ASSUME NEW index \in Item, OnSettled(index)
      PROVE  IInv'
  <2>1. CASE Awaited(index)
    <3>1. running /\ waiting /\ AdvanceAndScheduleNext(SettleFloor, settles \ {index})
      BY <1>3, <2>1 DEF OnSettled, Awaited
    <3>2. SettleFloor \in Nat /\ SettleFloor >= lastStart + MinSpacing
      BY <1>0 DEF SettleFloor, TypeOK
    <3>3. settles \ {index} \in SUBSET Item /\ UNCHANGED <<dialog, itemCount, runs>>
      BY <1>0, <1>3 DEF OnSettled, TypeOK
    <3> QED
      BY <3>1, <3>2, <3>3, AdvanceIInv
  <2>2. CASE ~Awaited(index)
    <3>1. /\ settles' = settles \ {index}
          /\ UNCHANGED <<now, dialog, running, waiting, cursor, itemCount, lastStart, timer,
                         startedAt, runs, finishes>>
      BY <1>3, <2>2 DEF OnSettled
    <3>2. TypeOK'
      BY <1>0, <3>1 DEF TypeOK
    <3> QED
      BY <3>1, <3>2 DEF IInv, Spaced, WaitOK, TimerOK, MayStart, FinishesOncePerRun
  <2> QED
    BY <2>1, <2>2
<1>4. CASE OnIntervalElapsed
  <2>1. /\ running /\ waiting /\ timer.due <= now /\ timer.due >= lastStart + Interval
    BY <1>4 DEF OnIntervalElapsed, TimerFires, IInv, TimerOK, WaitOK
  <2>2. now \in Nat /\ now >= lastStart + MinSpacing /\ settles \in SUBSET Item
    BY <1>0, <2>1 DEF TypeOK
  <2> QED
    BY <1>4, <2>1, <2>2, AdvanceIInv DEF OnIntervalElapsed
<1>5. CASE OnDeferElapsed \/ OnSpacingElapsed
  <2>1. /\ StartFromCursor(cursor, itemCount, lastStart, settles, startedAt)
        /\ running /\ UNCHANGED <<dialog, itemCount, runs>>
    BY <1>5 DEF OnDeferElapsed, OnSpacingElapsed, TimerFires
  <2>2. MayStart(startedAt, cursor, now)
    <3>1. CASE OnDeferElapsed
      BY <3>1 DEF OnDeferElapsed, TimerFires, IInv, TimerOK
    <3>2. CASE OnSpacingElapsed
      <4>1. timer.due <= now /\ MayStart(startedAt, cursor, timer.due)
        BY <3>2 DEF OnSpacingElapsed, TimerFires, IInv, TimerOK
      <4> QED
        BY <1>0, <4>1 DEF MayStart, TypeOK
    <3> QED
      BY <1>5, <3>1, <3>2
  <2>3. runs' = finishes + 1
    BY <2>1 DEF IInv, FinishesOncePerRun
  <2>4. /\ startedAt \in [Item -> Nat \cup {-1}] /\ runs' \in Nat /\ cursor \in Nat
        /\ itemCount \in 0..MaxItems /\ settles \in SUBSET Item /\ lastStart \in Nat
    BY <1>0, <2>1 DEF TypeOK
  <2> QED
    BY <1>0, <2>1, <2>2, <2>3, <2>4, StartFromCursorIInv
<1>6. CASE Cancel
  BY <1>0, <1>6, FinishIInv DEF Cancel, IInv, FinishesOncePerRun, TypeOK
<1>7. CASE DialogChanges \/ Tick
  <2>1. TypeOK' /\ now' >= now
    <3>1. now' \in Nat /\ now' >= now
      BY <1>0, <1>7 DEF DialogChanges, Tick, TypeOK
    <3>2. dialog' \in BOOLEAN
      BY <1>0, <1>7, Zenon DEF DialogChanges, Tick, TypeOK
    <3> QED
      BY <1>0, <1>7, <3>1, <3>2, Zenon DEF DialogChanges, Tick, TypeOK
  <2>2. UNCHANGED <<running, waiting, cursor, itemCount, lastStart, timer, settles,
                    startedAt, runs, finishes>>
    BY <1>7 DEF DialogChanges, Tick
  <2>3. MayStart(startedAt, cursor, now) => MayStart(startedAt, cursor, now')
    BY <1>0, <2>1 DEF MayStart, TypeOK
  <2> QED
    BY <2>1, <2>2, <2>3 DEF IInv, Spaced, WaitOK, TimerOK, MayStart, FinishesOncePerRun
<1>8. CASE UNCHANGED vars
  BY <1>8 DEF vars, IInv, TypeOK, Spaced, WaitOK, TimerOK, MayStart, FinishesOncePerRun
<1> QED
  BY <1>1, <1>2, <1>3, <1>4, <1>5, <1>6, <1>7, <1>8 DEF Next

(* The invariant holds throughout. *)
THEOREM Invariance == Spec => []IInv
<1>1. Init => IInv
  BY InitIInv
<1>2. IInv /\ [Next]_vars => IInv'
  BY NextIInv
<1> QED
  BY <1>1, <1>2, PTL DEF Spec

(* Every variable keeps its type. *)
THEOREM TypeCorrect == Spec => []TypeOK
<1>1. IInv => TypeOK
  BY DEF IInv
<1> QED
  BY <1>1, Invariance, PTL

(* The floor of initial_url_refresh_scheduler.h: the loads of a run start in  *)
(* snapshot order and at least MinSpacing apart.                              *)
THEOREM FloorHolds == Spec => []StartsAreSpaced
<1>1. IInv => StartsAreSpaced
  BY DEF IInv, Spaced, StartsAreSpaced, Started
<1> QED
  BY <1>1, Invariance, PTL

(* A live run always has its timer armed, and waits for an item no longer     *)
(* than the interval after its start (or until its load call returns).        *)
THEOREM BackstopHolds == Spec => []BackstopIsArmed
<1>1. IInv => BackstopIsArmed
  BY DEF IInv, WaitOK, TimerOK, BackstopIsArmed
<1> QED
  BY <1>1, Invariance, PTL

(* OnRunFinished is called exactly once for every Start. *)
THEOREM OneFinishPerRun == Spec => []FinishesOncePerRun
<1>1. IInv => FinishesOncePerRun
  BY DEF IInv
<1> QED
  BY <1>1, Invariance, PTL

(* Types, backstop and finishes together, as the run of the scheduler checks   *)
(* them.                                                                      *)
THEOREM SchedulerIsSound == Spec => []SchedulerInv
<1>1. TypeOK /\ BackstopIsArmed /\ FinishesOncePerRun => SchedulerInv
  BY DEF SchedulerInv
<1> QED
  BY <1>1, TypeCorrect, BackstopHolds, OneFinishPerRun, PTL

(* StartFromCursor overwrites nothing of a history that lies before `from`. *)
LEMMA StartKeepsHistory ==
    ASSUME NEW from, NEW n, NEW last, NEW kept, NEW record \in [Item -> Nat \cup {-1}],
           from \in Nat, MayStart(record, from, now),
           StartFromCursor(from, n, last, kept, record)
    PROVE  \A i \in Item : record[i] # -1 => startedAt'[i] = record[i]
<1> Item \subseteq Int
  BY RefreshSchedulerAssumption DEF Item
<1> QED
  BY DEF StartFromCursor, StartItem, MayStart

(* A load is started at most once in a run, and only while the run is on:     *)
(* late settles and timers of a finished or cancelled run start nothing.      *)
THEOREM NothingStartsAfterFinish == Spec => NoStartAfterFinish
<1> DEFINE Quiet == startedAt' # startedAt =>
                      \/ runs' # runs
                      \/ /\ running
                         /\ \A i \in Item : Started(i) => startedAt'[i] = startedAt[i]
<1>1. IInv /\ [Next]_vars => [Quiet]_vars
  <2> SUFFICES ASSUME IInv, Next, startedAt' # startedAt, runs' = runs
               PROVE  /\ running
                      /\ \A i \in Item : startedAt[i] # -1 => startedAt'[i] = startedAt[i]
    BY DEF Started
  <2>0. TypeOK /\ MinSpacing \in Nat /\ Item \subseteq Int
    BY RefreshSchedulerAssumption DEF IInv, Item
  <2>1. ASSUME NEW n \in 0..MaxItems, Start(n)
        PROVE  FALSE
    BY <2>0, <2>1 DEF Start, TypeOK
  <2>2. ASSUME NEW time \in Nat, NEW kept \in SUBSET Item, running, waiting,
               time >= lastStart + MinSpacing, AdvanceAndScheduleNext(time, kept)
        PROVE  \A i \in Item : startedAt[i] # -1 => startedAt'[i] = startedAt[i]
    <3>1. StartFromCursor(cursor + 1, itemCount, lastStart, kept, startedAt) /\ time <= now
      <4>1. ~(cursor + 1 >= itemCount) /\ ~(time > now)
        BY <2>2 DEF AdvanceAndScheduleNext, NextCursor
      <4>2. StartFromCursor(cursor + 1, itemCount, lastStart, kept, startedAt)
        BY <2>2, <4>1, Zenon DEF AdvanceAndScheduleNext, NextCursor
      <4> QED
        BY <2>0, <4>1, <4>2 DEF TypeOK
    <3>2. MayStart(startedAt, cursor + 1, lastStart + MinSpacing)
      BY <2>2 DEF IInv, WaitOK
    <3>3. MayStart(startedAt, cursor + 1, now)
      BY <2>0, <2>2, <3>1, <3>2 DEF MayStart, TypeOK
    <3> QED
      BY <2>0, <3>1, <3>3, StartKeepsHistory DEF TypeOK
  <2>3. ASSUME NEW index \in Item, OnSettled(index)
        PROVE  /\ running
               /\ \A i \in Item : startedAt[i] # -1 => startedAt'[i] = startedAt[i]
    <3>1. running /\ waiting /\ AdvanceAndScheduleNext(SettleFloor, settles \ {index})
      BY <2>3 DEF OnSettled, Awaited
    <3>2. SettleFloor \in Nat /\ SettleFloor >= lastStart + MinSpacing
      BY <2>0 DEF SettleFloor, TypeOK
    <3>3. settles \ {index} \in SUBSET Item
      BY <2>0 DEF TypeOK
    <3> QED
      BY <2>2, <3>1, <3>2, <3>3
  <2>4. CASE OnIntervalElapsed
    <3>1. /\ running /\ waiting /\ timer.due <= now /\ timer.due >= lastStart + Interval
      BY <2>4 DEF OnIntervalElapsed, TimerFires, IInv, TimerOK, WaitOK
    <3>2. now \in Nat /\ now >= lastStart + MinSpacing /\ settles \in SUBSET Item
      BY <2>0, <3>1, RefreshSchedulerAssumption DEF TypeOK
    <3> QED
      BY <2>2, <2>4, <3>1, <3>2 DEF OnIntervalElapsed
  <2>5. CASE OnDeferElapsed
    <3>1. running /\ StartFromCursor(cursor, itemCount, lastStart, settles, startedAt)
      BY <2>5 DEF OnDeferElapsed, TimerFires
    <3>2. MayStart(startedAt, cursor, now)
      BY <2>5 DEF OnDeferElapsed, TimerFires, IInv, TimerOK
    <3> QED
      BY <2>0, <3>1, <3>2, StartKeepsHistory DEF TypeOK
  <2>6. CASE OnSpacingElapsed
    <3>1. running /\ StartFromCursor(cursor, itemCount, lastStart, settles, startedAt)
      BY <2>6 DEF OnSpacingElapsed, TimerFires
    <3>2. timer.due <= now /\ MayStart(startedAt, cursor, timer.due)
      BY <2>6 DEF OnSpacingElapsed, TimerFires, IInv, TimerOK
    <3>3. MayStart(startedAt, cursor, now)
      BY <2>0, <3>2 DEF MayStart, TypeOK
    <3> QED
      BY <2>0, <3>1, <3>3, StartKeepsHistory DEF TypeOK
  <2> QED
    BY <2>1, <2>3, <2>4, <2>5, <2>6
       DEF Next, NotifyItemSettled, Cancel, DialogChanges, Tick
<1> QED
  BY <1>1, Invariance, PTL DEF Spec, NoStartAfterFinish
=============================================================================
