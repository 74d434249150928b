-------------------------- MODULE RefreshScheduler --------------------------
(***************************************************************************)
(* The pacing engine of "refresh all tabs to their initial URLs",          *)
(* initial_url_refresh_scheduler.cc.  THE RULE: start the next item when   *)
(* the previous one settles or `interval` after its start, whichever comes *)
(* first, but never sooner than `min_spacing` after its start.             *)
(*                                                                         *)
(* The delegate is left free: an item may be ineligible, its load call may *)
(* take time, a settle may come synchronously, late, twice or never, and a *)
(* dialog may defer the run.  Timers and posted tasks run at any time      *)
(* after they are due.  Items are numbered from 0 as in the code.          *)
(***************************************************************************)
EXTENDS Integers, FiniteSetsExt

CONSTANTS
    Interval, MinSpacing,  \* the validated Params
    MaxItems,              \* bound on item_count
    MaxStartDelay,         \* bound on the time a StartItem call takes
    MaxRuns,               \* bound on runs
    MaxTime                \* bound on the clock

ASSUME RefreshSchedulerAssumption ==
    /\ Interval \in Nat /\ MinSpacing \in Nat
    /\ 0 < MinSpacing /\ MinSpacing <= Interval
    /\ MaxItems \in Nat /\ MaxStartDelay \in Nat /\ MaxRuns \in Nat /\ MaxTime \in Nat

Item == 0..(MaxItems - 1)

VARIABLES
    now,        \* tick_clock_
    dialog,     \* an app-modal dialog is on screen (ShouldDefer)
    running, waiting, cursor, itemCount, lastStart,
    timer,      \* the one OneShotTimer: what it will run, and when it is due
    settles,    \* indices of posted OnSettled tasks
    startedAt,  \* history: when each item's load was started, -1 if it was not
    runs,       \* history: calls of Start
    finishes    \* history: calls of the delegate's OnRunFinished

vars == <<now, dialog, running, waiting, cursor, itemCount, lastStart, timer, settles,
          startedAt, runs, finishes>>

Stopped == [task |-> "none", due |-> 0]
-----------------------------------------------------------------------------
(* Params::FromMilliseconds: an out-of-range value is discarded for its       *)
(* default, then min_spacing is clamped to interval.                          *)
kDefaultIntervalMs == 5000
kDefaultMinSpacingMs == 750

FromMilliseconds(intervalMs, minSpacingMs) ==
    LET interval == IF intervalMs < 250 \/ intervalMs > 600000
                    THEN kDefaultIntervalMs ELSE intervalMs
        spacing  == IF minSpacingMs < 100 \/ minSpacingMs > 600000
                    THEN kDefaultMinSpacingMs ELSE minSpacingMs
    IN  [interval    |-> interval,
         min_spacing |-> IF spacing <= interval THEN spacing ELSE interval]
-----------------------------------------------------------------------------
Finish ==
    /\ running' = FALSE /\ waiting' = FALSE
    /\ timer' = Stopped
    /\ settles' = {}
    /\ finishes' = finishes + 1

(* When the backstop is due, for an item started at `start`: anchored to the  *)
(* start, not to the return of StartItem.                                     *)
BackstopFromReturn(start, return) == return + Interval
BackstopDue(start, return) ==
    IF start + Interval >= return THEN start + Interval ELSE return

(* StartFromCursor with n items, from item `from`, up to the point where the  *)
(* loop returns: it defers, or skips to item `i` and starts it, or skips all. *)
(* The load call takes `delay`; `early` are the attempted items that settled  *)
(* synchronously, inside StartItem.                                           *)
DeferForgetsTimer(from, n, last) ==
    /\ dialog /\ from < n
    /\ timer' = Stopped
    /\ cursor' = from /\ lastStart' = last
    /\ running' = TRUE /\ waiting' = FALSE
    /\ UNCHANGED <<now, finishes>>

Defer(from, n, last) ==
    /\ dialog /\ from < n
    /\ timer' = [task |-> "defer", due |-> now + Interval]
    /\ cursor' = from /\ lastStart' = last
    /\ running' = TRUE /\ waiting' = FALSE
    /\ UNCHANGED <<now, finishes>>

StartItem(i, from, n, delay) ==
    /\ ~dialog /\ from <= i /\ i < n
    /\ cursor' = i
    /\ lastStart' = now
    /\ now' = now + delay
    /\ IF i + 1 = n THEN Finish
       ELSE /\ running' = TRUE /\ waiting' = TRUE
            /\ timer' = [task |-> "interval", due |-> BackstopDue(now, now')]
            /\ UNCHANGED finishes

SkipAll(from, n, last) ==
    /\ ~dialog \/ from >= n
    /\ cursor' = IF from >= n THEN from ELSE n
    /\ lastStart' = last
    /\ Finish
    /\ UNCHANGED now

(* `last` is last_start_ on entry: skipping an item restores it.  `kept` are  *)
(* the settles already posted, `record` the history so far.                   *)
StartFromCursor(from, n, last, kept, record) ==
    \/ Defer(from, n, last) /\ settles' = kept /\ startedAt' = record
    \/ \E i \in Item, delay \in 0..MaxStartDelay :
          /\ StartItem(i, from, n, delay)
          /\ startedAt' = [record EXCEPT ![i] = now]
          /\ i + 1 # n => \E early \in SUBSET (from..i) : settles' = kept \cup early
    \/ SkipAll(from, n, last) /\ startedAt' = record

(* AdvanceAndScheduleNext: on to the next item, now or once `notBefore` is    *)
(* reached.                                                                   *)
SameCursor == cursor
NextCursor == cursor + 1

AdvanceAndScheduleNext(notBefore, kept) ==
    LET next == NextCursor
    IN  IF next >= itemCount
        THEN /\ cursor' = next
             /\ Finish
             /\ UNCHANGED <<now, lastStart, startedAt>>
        ELSE IF notBefore > now
        THEN /\ cursor' = next /\ waiting' = FALSE
             /\ timer' = [task |-> "start", due |-> notBefore]
             /\ settles' = kept
             /\ UNCHANGED <<now, running, lastStart, startedAt, finishes>>
        ELSE StartFromCursor(next, itemCount, lastStart, kept, startedAt)
-----------------------------------------------------------------------------
Start(n) ==
    /\ ~running
    /\ runs < MaxRuns
    /\ runs' = runs + 1
    /\ itemCount' = n
    /\ StartFromCursor(0, n, 0, {}, [i \in Item |-> -1])
    /\ UNCHANGED dialog

(* A signal is taken only for the item being waited on; it is posted, and     *)
(* checked again on delivery.                                                 *)
Awaited(index) == running /\ waiting /\ index = cursor

NotifyItemSettled(index) ==
    /\ Awaited(index)
    /\ settles' = settles \cup {index}
    /\ UNCHANGED <<now, dialog, running, waiting, cursor, itemCount, lastStart, timer,
                   startedAt, runs, finishes>>

(* The floor a settle has to respect. *)
NoFloor == now
SettleFloor == lastStart + MinSpacing

OnSettled(index) ==
    /\ index \in settles
    /\ IF Awaited(index)
       THEN AdvanceAndScheduleNext(SettleFloor, settles \ {index})
       ELSE /\ settles' = settles \ {index}
            /\ UNCHANGED <<now, running, waiting, cursor, lastStart, timer, startedAt,
                           finishes>>
    /\ UNCHANGED <<dialog, itemCount, runs>>

(* The handlers return at once when the run is over (and Finish has stopped   *)
(* the timer, so that they are not even called).                              *)
TimerFires(task) == running /\ timer.task = task /\ timer.due <= now

OnIntervalElapsed ==
    /\ TimerFires("interval")
    /\ AdvanceAndScheduleNext(now, settles)
    /\ UNCHANGED <<dialog, itemCount, runs>>

(* OnDeferElapsed, and the spacing timer, go on from the cursor. *)
OnDeferElapsed ==
    /\ TimerFires("defer")
    /\ StartFromCursor(cursor, itemCount, lastStart, settles, startedAt)
    /\ UNCHANGED <<dialog, itemCount, runs>>

OnSpacingElapsed ==
    /\ TimerFires("start")
    /\ StartFromCursor(cursor, itemCount, lastStart, settles, startedAt)
    /\ UNCHANGED <<dialog, itemCount, runs>>

(* A second press of the command, or the window closing. *)
Cancel ==
    /\ running
    /\ Finish
    /\ UNCHANGED <<now, dialog, cursor, itemCount, lastStart, startedAt, runs>>

DialogChanges ==
    /\ dialog' = ~dialog
    /\ UNCHANGED <<now, running, waiting, cursor, itemCount, lastStart, timer, settles,
                   startedAt, runs, finishes>>

Tick ==
    /\ now < MaxTime
    /\ now' = now + 1
    /\ UNCHANGED <<dialog, running, waiting, cursor, itemCount, lastStart, timer, settles,
                   startedAt, runs, finishes>>

Init ==
    /\ now = 0 /\ dialog \in BOOLEAN
    /\ running = FALSE /\ waiting = FALSE /\ cursor = 0 /\ itemCount = 0 /\ lastStart = 0
    /\ timer = Stopped /\ settles = {}
    /\ startedAt = [i \in Item |-> -1]
    /\ runs = 0 /\ finishes = 0

Next ==
    \/ \E n \in 0..MaxItems : Start(n)
    \/ \E index \in Item : NotifyItemSettled(index) \/ OnSettled(index)
    \/ OnIntervalElapsed \/ OnDeferElapsed \/ OnSpacingElapsed
    \/ Cancel \/ DialogChanges \/ Tick

Spec == Init /\ [][Next]_vars

(* Time passes while a timer is pending, a due timer fires and posted tasks   *)
(* run.                                                                       *)
Fairness ==
    /\ WF_vars(timer.task # "none" /\ timer.due > now /\ Tick)
    /\ WF_vars(OnIntervalElapsed \/ OnDeferElapsed \/ OnSpacingElapsed)
    /\ WF_vars(\E index \in Item : OnSettled(index))

FairSpec == Spec /\ Fairness
-----------------------------------------------------------------------------
(* Every variable has its type. *)
TypeOK ==
    /\ now \in Nat /\ dialog \in BOOLEAN
    /\ running \in BOOLEAN /\ waiting \in BOOLEAN
    /\ cursor \in Nat /\ itemCount \in 0..MaxItems /\ lastStart \in Nat
    /\ timer \in [task : {"none", "interval", "defer", "start"}, due : Nat]
    /\ settles \subseteq Item
    /\ startedAt \in [Item -> Nat \cup {-1}]
    /\ runs \in Nat /\ finishes \in Nat

Started(i) == startedAt[i] # -1

(* The floor: two loads of one run are started at least MinSpacing apart,     *)
(* whatever the mix of settles, timeouts, skips and deferrals, and in the     *)
(* order of the snapshot.                                                     *)
StartsAreSpaced ==
    \A i, j \in Item : i < j /\ Started(i) /\ Started(j) =>
        startedAt[j] >= startedAt[i] + MinSpacing

(* Progress never hangs on the delegate: a live run always has its timer      *)
(* armed, while it waits for an item no later than Interval after that item's *)
(* start or the moment its load call returned.  A finished run has none.      *)
BackstopIsArmed ==
    /\ running <=> timer.task # "none"
    /\ waiting => /\ timer.task = "interval"
                  /\ cursor \in Item /\ startedAt[cursor] = lastStart
                  /\ timer.due <= lastStart + (IF Interval >= MaxStartDelay
                                               THEN Interval ELSE MaxStartDelay)

(* OnRunFinished is called exactly once per run. *)
FinishesOncePerRun == runs = finishes + (IF running THEN 1 ELSE 0)

(* The scheduler between any two tasks: types, the armed timer, the finishes. *)
SchedulerInv == TypeOK /\ BackstopIsArmed /\ FinishesOncePerRun

(* A load is never started twice in a run, and none is started once the run   *)
(* has finished or been cancelled: a late settle or timer revives nothing.    *)
NoStartAfterFinish ==
    [][startedAt' # startedAt =>
          \/ runs' # runs
          \/ /\ running
             /\ \A i \in Item : Started(i) => startedAt'[i] = startedAt[i]]_vars

(* Once dialogs stop deferring it, a run comes to its end: no item can wedge  *)
(* it.  (Only behaviours that stay within the clock's bound are judged.)      *)
RunFinishes == [](now < MaxTime) /\ <>[]~dialog => (running ~> ~running)
=============================================================================
