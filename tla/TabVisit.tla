------------------------------ MODULE TabVisit ------------------------------
(***************************************************************************)
(* Tab visit-order navigation for one profile: the traversal coordinator   *)
(* (tab_visit_traversal_coordinator.cc), the observer bridge that feeds it *)
(* (tab_visit_observer_bridge.cc), the journal service                     *)
(* (settled_visit_journal_service.cc) whose calls are posted to the store  *)
(* sequence, and the clear-browsing-data hook                              *)
(* (settled_visit_journal_factory.cc).                                     *)
(*                                                                         *)
(* A UI-thread handler is one action.  The store runs on a sequence of its *)
(* own: `queue` holds the posted calls in order, StoreStep runs the oldest *)
(* one, and its result comes back through `replies`, also in order, to be  *)
(* delivered at any later time between two UI handlers.                    *)
(***************************************************************************)
EXTENDS TabTraversal, VisitsStore

CONSTANTS
    Uid,          \* durable tab identities
    Url,          \* the URLs IsRecordableVisitUrl accepts
    Blank,        \* a valid URL it rejects: about:blank, a new-tab page
    Empty,        \* the URL of a tab that has committed nothing yet
    InsertUrl,    \* the URLs a tab may show when it is inserted
    StoreMayFail, \* TRUE: SQL statements may fail and a DB may be razed
    ReopenOutcomes, \* what the reopen function may do: see Reopens
    PrefMayChange,\* TRUE: the user may flip the reopen_closed pref
    MaxLog,       \* bound on the session log's length
    MaxQueue,     \* bound on posted store calls when the user acts
    MaxSidecar,   \* bound on the tabs that are ever closed
    MaxClears,    \* bound on clears of browsing data per session
    MaxRestarts,  \* bound on restarts
    MaxTime       \* bound on the clock

ASSUME TabVisitAssumption ==
    /\ NoUid \notin Uid
    /\ Blank \notin Url /\ Empty \notin Url \cup {Blank}
    /\ InsertUrl \subseteq Url \cup {Blank, Empty}
    /\ ReopenOutcomes \subseteq {"exact", "fallback", "fails"}
    /\ StoreMayFail \in BOOLEAN /\ PrefMayChange \in BOOLEAN
    /\ MaxLog \in Nat /\ MaxQueue \in Nat /\ MaxSidecar \in Nat
    /\ MaxClears \in Nat /\ MaxRestarts \in Nat /\ MaxTime \in Nat

VARIABLES
    \* The browser around the component.
    tabs,              \* live uid -> its last committed URL
    activeTab,         \* the selected tab's uid, NoUid without tabs
    reopenClosed,      \* the kReopenClosed pref
    now,               \* base::Time::Now()
    restarts,          \* how often the program was restarted
    \* TabVisitTraversalCoordinator.
    settledLog,        \* settled_uid_log_
    anchor,            \* anchor_uid_
    traversalActive,   \* traversal_active_
    controller,        \* controller_
    debounceArmed,     \* debounce_timer_ is running
    journalLoaded,     \* journal_loaded_
    loadPosted,        \* the constructor's LoadPersistedJournal task is pending
    reopenable,        \* reopenable_: uid -> last_known_url
    recentlyReopened,  \* recently_reopened_
    generation,        \* reopenable_generation_
    reopenedUrl,       \* reopened_url_by_uid_
    gestureGeneration, \* history: generation when the gesture began
    \* The store sequence.
    store, queue, replies

browserVars == <<tabs, activeTab, reopenClosed, now, restarts>>
gestureVars == <<anchor, traversalActive, controller, debounceArmed, reopenedUrl,
                 gestureGeneration>>
reopenVars  == <<reopenable, recentlyReopened, generation>>
loadVars    == <<journalLoaded, loadPosted>>
storeVars   == <<store, queue, replies>>
vars == <<browserVars, settledLog, gestureVars, reopenVars, loadVars, storeVars>>

Live == DOMAIN tabs
EmptyFunction == <<>>
-----------------------------------------------------------------------------
(* The calls the journal service posts.  `gen` is history in an append (the *)
(* generation at which the visit began) and in a clear.                     *)
RecordVisit(uid, gen) == [op |-> "append", uid |-> uid, at |-> now, gen |-> gen]
SetTabState(uid, closed, url) ==
    [op |-> "upsert", uid |-> uid, row |-> [closed |-> closed, url |-> url]]
GetVisits == [op |-> "readAll"]
GetAllTabStates(gen) == [op |-> "readTabStates", gen |-> gen]
ClearCall(begin, end, gen) ==
    [op |-> "clear", begin |-> begin, end |-> end, gen |-> gen]

Post(calls) == queue' = queue \o calls

(* What one call does to the store. *)
RunCall(s, call) ==
    CASE call.op = "append" -> AppendVisit(s, call.uid, call.at)
      [] call.op = "upsert" -> UpsertTabState(s, call.uid, call.row)
      [] call.op = "clear"  -> ClearForBrowsingDataRemoval(s, call.begin, call.end)
      [] OTHER              -> s

(* The reply the call's .Then() brings back to the UI thread. *)
ReplyOnlyWithRows(s, call) ==
    IF call.op = "readAll" /\ ReadAll(s) # <<>>
    THEN <<[op |-> "readAll", rows |-> ReadAll(s)]>> ELSE <<>>

ReplyTo(s, call) ==
    CASE call.op = "readAll" -> <<[op |-> "readAll", rows |-> ReadAll(s)]>>
      [] call.op = "readTabStates" ->
            <<[op |-> "readTabStates", gen |-> call.gen, rows |-> ReadTabStates(s)]>>
      [] call.op = "clear" -> <<[op |-> "clear"]>>
      [] OTHER -> <<>>

(* The stores the calls lead through, and the store once every posted call has run. *)
StoresAlong(s, calls) ==
    LET ran[i \in 0..Len(calls)] == IF i = 0 THEN s ELSE RunCall(ran[i - 1], calls[i])
    IN  ran

DrainedStore == StoresAlong(store, queue)[Len(queue)]
-----------------------------------------------------------------------------
(* RecordSettledUid: append, unless the tail is the same tab. *)
Settled(log, uid) ==
    IF uid = NoUid \/ (log # <<>> /\ Last(log) = uid) THEN log ELSE Append(log, uid)

(* CollectReachableUids. *)
CollectReachableUids ==
    Live \cup (IF reopenClosed THEN DOMAIN reopenable ELSE {})

CanGoBack ==
    IF traversalActive THEN ControllerCanGoBack(controller)
    ELSE CanBeginBackTraversal(settledLog, CollectReachableUids)

CanGoForward == traversalActive /\ ControllerCanGoForward(controller)

(* TryReopenClosedUid succeeds: `how` is the outcome of the injected reopen *)
(* function, ReopenClosedTabByUid: "exact" (TabRestoreService has the tab), *)
(* "fallback" (a tab that navigates to the URL later) or "fails".  Without  *)
(* any window there is no target, and a tab that had committed nothing has  *)
(* neither a restore entry nor a valid URL to fall back to.                 *)
Reopens(uid, how) ==
    /\ uid \notin Live
    /\ reopenClosed
    /\ uid \in DOMAIN reopenable
    /\ reopenable[uid] # Empty
    /\ how # "fails" /\ Live # {}

(* Bring `uid` to the front: resolve it, reopening it if it is closed, and  *)
(* activate it; with no location nothing is activated.  RebindSidecar drops *)
(* the closed record, leaves a tombstone and posts the row as open.         *)
Land(uid, how) ==
    /\ tabs' = IF Reopens(uid, how)
               THEN Put(tabs, uid, IF how = "exact" THEN reopenable[uid] ELSE Empty)
               ELSE tabs
    /\ activeTab' = IF uid \in DOMAIN tabs' THEN uid ELSE activeTab
    /\ IF Reopens(uid, how)
       THEN /\ reopenable' = Restrict(reopenable, DOMAIN reopenable \ {uid})
            /\ recentlyReopened' = recentlyReopened \cup {uid}
       ELSE UNCHANGED <<reopenable, recentlyReopened>>
    /\ UNCHANGED generation

RebindCalls(uid, how) ==
    IF Reopens(uid, how) THEN <<SetTabState(uid, FALSE, reopenable[uid])>> ELSE <<>>

(* The bounds: the user acts only while the log and the queue have room. *)
LogHasRoom == Len(settledLog) < MaxLog
QueueHasRoom == Len(queue) < MaxQueue
SidecarHasRoom(uid) ==
    Cardinality({uid} \cup DOMAIN DrainedStore.sidecar \cup DOMAIN reopenable
                  \cup recentlyReopened) <= MaxSidecar
-----------------------------------------------------------------------------
(* The bridge: what the tab strip reports (OnTabStripModelChanged). *)

(* kInserted: a new tab, or one restored with its old uid (session restore,  *)
(* Cmd+Shift+T), in the background or the foreground.  Never a commit.       *)
InsertTab(uid, url, foreground) ==
    /\ uid \notin Live
    /\ tabs' = Put(tabs, uid, url)
    /\ activeTab' = IF foreground \/ Live = {} THEN uid ELSE activeTab
    /\ UNCHANGED <<reopenClosed, now, restarts, settledLog, gestureVars, reopenVars,
                   loadVars, storeVars>>

(* The coordinator owns the single commit of a gesture: while one is on, the *)
(* bridge records nothing.                                                   *)
BridgeIgnoresGesture == TRUE
BridgeCommits == ~traversalActive

(* kSelectionOnly with a new active tab. *)
SelectTab(uid) ==
    /\ uid \in Live \ {activeTab}
    /\ LogHasRoom /\ QueueHasRoom
    /\ activeTab' = uid
    /\ IF BridgeCommits
       THEN /\ settledLog' = Settled(settledLog, uid)
            /\ Post(IF tabs[uid] \in Url THEN <<RecordVisit(uid, generation)>> ELSE <<>>)
       ELSE UNCHANGED <<settledLog, queue>>
    /\ UNCHANGED <<tabs, reopenClosed, now, restarts, gestureVars, reopenVars, loadVars,
                   store, replies>>

(* kRemoved with a deleting reason: PersistClosedTabsToSidecar and           *)
(* AddReopenable.  The successor's activation is part of the same change and *)
(* never commits.                                                            *)
CloseTab(uid, successor) ==
    /\ uid \in Live
    /\ QueueHasRoom /\ SidecarHasRoom(uid)
    /\ tabs' = Restrict(tabs, Live \ {uid})
    /\ activeTab' = successor
    /\ successor \in (IF activeTab # uid THEN {activeTab}
                      ELSE IF Live = {uid} THEN {NoUid} ELSE Live \ {uid})
    /\ recentlyReopened' = recentlyReopened \ {uid}
    /\ reopenable' = Put(reopenable, uid, tabs[uid])
    /\ Post(<<SetTabState(uid, TRUE, tabs[uid])>>)
    /\ UNCHANGED <<reopenClosed, now, restarts, settledLog, gestureVars, generation,
                   loadVars, store, replies>>

(* A tab commits a navigation. *)
Navigate(uid, url) ==
    /\ uid \in Live
    /\ tabs[uid] # url
    /\ tabs' = [tabs EXCEPT ![uid] = url]
    /\ UNCHANGED <<activeTab, reopenClosed, now, restarts, settledLog, gestureVars,
                   reopenVars, loadVars, storeVars>>

(* The user flips the reopen_closed pref, also in the middle of a gesture. *)
SetReopenClosed ==
    /\ PrefMayChange
    /\ reopenClosed' = ~reopenClosed
    /\ UNCHANGED <<tabs, activeTab, now, restarts, settledLog, gestureVars, reopenVars,
                   loadVars, storeVars>>
-----------------------------------------------------------------------------
(* Gestures. *)

(* EnsureGesture: the anchor and the frozen order; `c` is the stepped        *)
(* controller that StepAndActivate continues with.                           *)
Gesture(c, how) ==
    /\ traversalActive' = TRUE
    /\ anchor' = IF traversalActive THEN anchor
                 ELSE IF settledLog = <<>> THEN NoUid ELSE Last(settledLog)
    /\ gestureGeneration' = IF traversalActive THEN gestureGeneration ELSE generation
    /\ controller' = c
    /\ Land(Current(c), how)
    /\ reopenedUrl' = IF Reopens(Current(c), how)
                      THEN Put(reopenedUrl, Current(c), reopenable[Current(c)])
                      ELSE reopenedUrl
    /\ Post(RebindCalls(Current(c), how))
    /\ debounceArmed' = TRUE
    /\ UNCHANGED <<reopenClosed, now, restarts, settledLog, loadVars, store, replies>>

(* StepBack and StepForward ignore a direction that cannot land. *)
StepBack(how) ==
    /\ CanGoBack
    /\ LogHasRoom /\ QueueHasRoom
    /\ Gesture(Back(BeginGesture(controller, settledLog, CollectReachableUids)), how)

StepForward(how) ==
    /\ CanGoForward
    /\ QueueHasRoom
    /\ Gesture(Forward(controller), how)

(* Dropping the gesture's state, common to Settle and CancelGesture.  (The    *)
(* code leaves anchor_uid_ behind; nothing reads it until the next gesture    *)
(* sets it, so the model forgets it.)                                         *)
EndGesture ==
    /\ traversalActive' = FALSE
    /\ controller' = IdleController
    /\ debounceArmed' = FALSE
    /\ reopenedUrl' = EmptyFunction
    /\ anchor' = NoUid /\ gestureGeneration' = 0

(* The URL a settled visit is recorded under: the committed one, or, for a   *)
(* fallback reopen that has not committed yet, the URL it was reopened at.   *)
CommittedUrlOnly(uid, how) ==
    IF uid \in Live THEN tabs[uid]
    ELSE IF how = "exact" THEN reopenable[uid] ELSE Empty
SettledUrl(uid, how) ==
    LET reopened == IF Reopens(uid, how) THEN Put(reopenedUrl, uid, reopenable[uid])
                    ELSE reopenedUrl
        committed == IF uid \in Live THEN tabs[uid]
                     ELSE IF how = "exact" THEN reopenable[uid] ELSE Empty
    IN  IF committed \notin Url /\ uid \in DOMAIN reopened THEN reopened[uid]
        ELSE committed

(* Settle is a no-op outside a gesture. *)
SettleSkipsAnchor == traversalActive /\ Current(controller) # anchor
SettleRuns == traversalActive

(* Settle: one commit, if the gesture landed off its anchor and the landing  *)
(* still resolves.  The bridge stays suppressed throughout.                  *)
Settle(how) ==
    /\ SettleRuns
    /\ EndGesture
    /\ IF HasCurrent(controller) /\ Current(controller) # anchor
       THEN LET uid == Current(controller)
                found == uid \in Live \/ Reopens(uid, how)
            IN  /\ Land(uid, how)
                /\ settledLog' = IF found THEN Settled(settledLog, uid) ELSE settledLog
                /\ Post(RebindCalls(uid, how)
                        \o (IF found /\ SettledUrl(uid, how) \in Url
                            THEN <<RecordVisit(uid, gestureGeneration)>> ELSE <<>>))
       ELSE UNCHANGED <<tabs, activeTab, reopenVars, settledLog, queue>>
    /\ UNCHANGED <<reopenClosed, now, restarts, loadVars, store, replies>>

(* A key event without the full chord settles (TabVisitGestureWatcher). *)
ReleaseChord(how) == Settle(how)

(* The fallback timer, armed by every step, settles too. *)
DebounceFires(how) == debounceArmed /\ Settle(how)

(* Escape. *)
CancelGesture ==
    /\ traversalActive
    /\ EndGesture
    /\ UNCHANGED <<browserVars, settledLog, reopenVars, loadVars, storeVars>>
-----------------------------------------------------------------------------
(* Loading, clearing and the store sequence. *)

(* The constructor's deferred task: read the journal, then the sidecar. *)
LoadPersistedJournal ==
    /\ loadPosted
    /\ loadPosted' = FALSE
    /\ Post(<<GetVisits, GetAllTabStates(generation)>>)
    /\ UNCHANGED <<browserVars, settledLog, gestureVars, reopenVars, journalLoaded,
                   store, replies>>

(* PrepareForBrowsingDataClear, synchronously before the clear is posted. *)
PrepareKeepsGesture ==
    /\ UNCHANGED gestureVars
    /\ reopenable' = EmptyFunction
    /\ generation' = generation + 1
    /\ UNCHANGED recentlyReopened
PrepareForBrowsingDataClear ==
    /\ EndGesture
    /\ reopenable' = EmptyFunction
    /\ generation' = generation + 1
    /\ UNCHANGED recentlyReopened

(* ClearJournalForBrowsingData: prepare, then post the clear of [begin, end). *)
ClearBrowsingData(begin, end) ==
    /\ generation < MaxClears /\ QueueHasRoom
    /\ begin <= now /\ begin < end
    /\ PrepareForBrowsingDataClear
    /\ Post(<<ClearCall(begin, end, generation + 1)>>)
    /\ UNCHANGED <<browserVars, settledLog, loadVars, store, replies>>

(* The store sequence runs the oldest call.  A failed statement leaves the   *)
(* database as it was (the transaction rolls back), a failed read returns no *)
(* rows; the reply still comes.                                              *)
StoreStep ==
    /\ queue # <<>>
    /\ store' \in {RunCall(store, Head(queue))} \cup (IF StoreMayFail THEN {store} ELSE {})
    /\ queue' = Tail(queue)
    /\ \E read \in {store'} \cup (IF StoreMayFail THEN {EmptyStore} ELSE {}) :
          replies' = replies \o ReplyTo(read, Head(queue))
    /\ UNCHANGED <<browserVars, settledLog, gestureVars, reopenVars, loadVars>>

(* OnJournalLoaded: persisted rows without the legacy ones first, then what  *)
(* accrued meanwhile; of a run of visits to the same tab one is kept.        *)
Identified(rows) == ElementsAt(rows, {i \in 1..Len(rows) : rows[i] # NoUid})

Coalesced(log) ==
    ElementsAt(log, {i \in 1..Len(log) : i < Len(log) => log[i + 1] # log[i]})

RuntimeFirst(rows, log) == Coalesced(log \o Identified(rows))
MergedLog(rows, log) == Coalesced(Identified(rows) \o log)

OnJournalLoaded(rows) ==
    /\ settledLog' = MergedLog(rows, settledLog)
    /\ journalLoaded' = TRUE
    /\ UNCHANGED <<loadPosted, reopenVars, queue>>

(* A sidecar read posted before a clear is stale once the clear has begun. *)
NeverStale(gen) == FALSE
IsStale(gen) == gen # generation

(* OnReopenableLoaded: a stale reply is dropped; closed rows are added       *)
(* unless reopened since, and never over a newer in-memory row.              *)
OnReopenableLoaded(gen, rows) ==
    /\ reopenable' =
        IF IsStale(gen) THEN reopenable
        ELSE [uid \in DOMAIN reopenable
                        \cup ({u \in DOMAIN rows : rows[u].closed} \ recentlyReopened)
                |-> IF uid \in DOMAIN reopenable THEN reopenable[uid] ELSE rows[uid].url]
    /\ UNCHANGED <<settledLog, loadVars, recentlyReopened, generation, queue>>

(* ResyncCoordinatorThenDone: OnBrowsingDataCleared re-reads the sidecar. *)
OnBrowsingDataCleared ==
    /\ Post(<<GetAllTabStates(generation)>>)
    /\ UNCHANGED <<settledLog, loadVars, reopenVars>>

(* The UI thread runs the oldest reply. *)
DeliverReply ==
    /\ replies # <<>>
    /\ replies' = Tail(replies)
    /\ LET reply == Head(replies)
       IN  \/ reply.op = "readAll" /\ OnJournalLoaded(reply.rows)
           \/ reply.op = "readTabStates" /\ OnReopenableLoaded(reply.gen, reply.rows)
           \/ reply.op = "clear" /\ OnBrowsingDataCleared
    /\ UNCHANGED <<browserVars, gestureVars, store>>

Tick ==
    /\ now < MaxTime
    /\ now' = now + 1
    /\ UNCHANGED <<tabs, activeTab, reopenClosed, restarts, settledLog, gestureVars,
                   reopenVars, loadVars, storeVars>>
-----------------------------------------------------------------------------
(* A quit or a crash: the calls that have run survive, the queued ones do    *)
(* not, and an unusable database is deleted and recreated empty              *)
(* (VisitsStore::Open).  The new process has nothing volatile.               *)
Restart ==
    /\ restarts < MaxRestarts
    /\ restarts' = restarts + 1
    /\ tabs' = EmptyFunction /\ activeTab' = NoUid
    /\ settledLog' = <<>>
    /\ EndGesture
    /\ reopenable' = EmptyFunction /\ recentlyReopened' = {} /\ generation' = 0
    /\ journalLoaded' = FALSE /\ loadPosted' = TRUE
    /\ queue' = <<>> /\ replies' = <<>>
    /\ store' \in {store} \cup (IF StoreMayFail THEN {EmptyStore} ELSE {})
    /\ UNCHANGED <<reopenClosed, now>>

(* A profile starts with an empty journal or with a migrated legacy row. *)
Init ==
    /\ tabs = EmptyFunction /\ activeTab = NoUid /\ reopenClosed = TRUE
    /\ now = 0 /\ restarts = 0
    /\ settledLog = <<>>
    /\ anchor = NoUid /\ traversalActive = FALSE /\ controller = IdleController
    /\ debounceArmed = FALSE /\ reopenedUrl = EmptyFunction /\ gestureGeneration = 0
    /\ reopenable = EmptyFunction /\ recentlyReopened = {} /\ generation = 0
    /\ journalLoaded = FALSE /\ loadPosted = TRUE
    /\ queue = <<>> /\ replies = <<>>
    /\ store \in {EmptyStore,
                  [EmptyStore EXCEPT !.visits = <<[uid |-> NoUid, at |-> 0]>>]}

UserStep ==
    \/ \E uid \in Uid :
          \/ \E url \in InsertUrl, fg \in BOOLEAN : InsertTab(uid, url, fg)
          \/ SelectTab(uid)
          \/ \E successor \in Uid \cup {NoUid} : CloseTab(uid, successor)
          \/ \E url \in Url : Navigate(uid, url)
    \/ SetReopenClosed
    \/ \E how \in ReopenOutcomes : StepBack(how) \/ StepForward(how) \/ ReleaseChord(how)
    \/ CancelGesture
    \/ \E begin \in 0..MaxTime, end \in 1..(MaxTime + 1) : ClearBrowsingData(begin, end)

SystemStep ==
    \/ \E how \in ReopenOutcomes : DebounceFires(how)
    \/ LoadPersistedJournal
    \/ StoreStep
    \/ DeliverReply
    \/ Tick
    \/ Restart

Next == UserStep \/ SystemStep

Spec == Init /\ [][Next]_vars

(* The task queues are served and the timer fires; the user owes nothing. *)
Fairness ==
    /\ WF_vars(LoadPersistedJournal)
    /\ WF_vars(StoreStep)
    /\ WF_vars(DeliverReply)
    /\ WF_vars(\E how \in ReopenOutcomes : DebounceFires(how))

FairSpec == Spec /\ Fairness
-----------------------------------------------------------------------------
TabUrl == Url \cup {Blank, Empty}
Row == [closed : BOOLEAN, url : TabUrl]

CallOK(call) ==
    \/ /\ call.op = "append"
       /\ call = [op |-> "append", uid |-> call.uid, at |-> call.at, gen |-> call.gen]
       /\ call.uid \in Uid /\ call.at \in Nat /\ call.gen \in Nat
    \/ /\ call.op = "upsert"
       /\ call = [op |-> "upsert", uid |-> call.uid, row |-> call.row]
       /\ call.uid \in Uid /\ call.row \in Row
    \/ call = [op |-> "readAll"]
    \/ /\ call.op = "readTabStates"
       /\ call = [op |-> "readTabStates", gen |-> call.gen]
       /\ call.gen \in Nat
    \/ /\ call.op = "clear"
       /\ call = [op |-> "clear", begin |-> call.begin, end |-> call.end, gen |-> call.gen]
       /\ call.begin \in Nat /\ call.end \in Nat /\ call.gen \in Nat

(* Every variable has its type; the partial maps are functions on sets of    *)
(* uids, and the controller is active exactly during a gesture.              *)
TypeOK ==
    /\ Live \subseteq Uid /\ \A uid \in Live : tabs[uid] \in TabUrl
    /\ activeTab \in Live \cup {NoUid}
    /\ reopenClosed \in BOOLEAN /\ now \in 0..MaxTime /\ restarts \in 0..MaxRestarts
    /\ \A i \in DOMAIN settledLog : settledLog[i] \in Uid
    /\ anchor \in Uid \cup {NoUid}
    /\ traversalActive \in BOOLEAN /\ controller.active = traversalActive
    /\ debounceArmed \in BOOLEAN /\ journalLoaded \in BOOLEAN /\ loadPosted \in BOOLEAN
    /\ DOMAIN reopenable \subseteq Uid
    /\ \A uid \in DOMAIN reopenable : reopenable[uid] \in TabUrl
    /\ recentlyReopened \subseteq Uid /\ generation \in 0..MaxClears
    /\ DOMAIN reopenedUrl \subseteq Uid
    /\ \A i \in DOMAIN queue : CallOK(queue[i])
    /\ \A i \in DOMAIN store.visits : store.visits[i].uid \in Uid \cup {NoUid}
    /\ DOMAIN store.sidecar \subseteq Uid

(* While a gesture is on, the log's tail is the tab it started from, whatever *)
(* the user clicks, closes or reopens meanwhile and even if the persisted     *)
(* journal arrives in the middle of it: Settle compares the landing with the  *)
(* anchor to decide whether there is a visit to commit, and its append is     *)
(* never coalesced away.                                                      *)
AnchorIsTail ==
    traversalActive => settledLog # <<>> /\ anchor = Last(settledLog)

(* The cursor always rests on a landable tab: a gesture is never started, or  *)
(* extended, in a direction that cannot land, so Settle always has a landing. *)
CursorLandable == traversalActive => HasCurrent(controller)

(* The coordinator between any two handlers: its types, the anchor and the    *)
(* cursor of a gesture.                                                       *)
CoordinatorInv == TypeOK /\ AnchorIsTail /\ CursorLandable

(* A visit is journaled only at the end of a gesture or outside one, only for *)
(* the tab that is in front when the handler returns, and that tab is the     *)
(* log's tail: a preview never reaches the journal, and the volatile and the  *)
(* persisted order get the visit together.                                    *)
VisitsAreSettled ==
    [][Len(queue') > Len(queue) /\ Last(queue').op = "append" =>
          /\ ~traversalActive'
          /\ activeTab' = Last(queue').uid
          /\ Last(settledLog') = Last(queue').uid]_vars

(* A gesture that commits to a tab it reopened journals the visit although    *)
(* the reopened page has not committed yet: the visit of a tab last seen at a *)
(* recordable URL is not lost on a restart.                                   *)
ReopenedVisitIsJournaled ==
    [][\A uid \in DOMAIN reopenedUrl :
          Len(settledLog') > Len(settledLog) /\ ~traversalActive'
             /\ Last(settledLog') = uid /\ reopenedUrl[uid] \in Url
             /\ uid \in Live
          => Last(queue').op = "append" /\ Last(queue').uid = uid]_vars

(* The in-memory closed-tab records never run ahead of the store: each one is *)
(* what the sidecar will hold, closed and at the same URL, once the posted    *)
(* calls have run.  A late read, a clear or a reopen in between resurrects    *)
(* nothing the store has dropped (without SQL failures).                      *)
ReopenableBacked ==
    LET closed == ClosedRows(DrainedStore)
    IN  \A uid \in DOMAIN reopenable :
           uid \in DOMAIN closed /\ reopenable[uid] = closed[uid].url

(* And they do not fall behind it for good: once no sidecar read is under way *)
(* or owed by a clear, every closed row of the sidecar can be reopened.       *)
SidecarReadPending ==
    \/ loadPosted
    \/ \E i \in DOMAIN queue : queue[i].op \in {"readTabStates", "clear"}
    \/ \E i \in DOMAIN replies : replies[i].op \in {"readTabStates", "clear"}

NoClosedTabForgotten ==
    ~SidecarReadPending => DOMAIN ClosedRows(DrainedStore) \subseteq DOMAIN reopenable

(* The closed-tab cache and the sidecar agree, in both directions, whatever    *)
(* reads, clears and reopens are under way.                                   *)
CacheAgreesWithSidecar == ReopenableBacked /\ NoClosedTabForgotten

(* A clear is a barrier on the store sequence: no visit of a gesture or a     *)
(* selection that began before the clear is appended behind it, and no        *)
(* sidecar read from before it is still believed.                             *)
ClearIsABarrier ==
    \A i, j \in DOMAIN queue : i < j =>
        /\ queue[i].op = "clear" /\ queue[j].op = "append" => queue[i].gen <= queue[j].gen
        /\ queue[i].op = "readTabStates" /\ queue[j].op = "clear" =>
              queue[i].gen < generation

(* Where every visited page is recordable, nothing is cleared and the journal *)
(* has not reached its cap, the order Back walks is the order of the journal  *)
(* the next process will read: what was persisted and what this session       *)
(* added, merged in any interleaving of the load with appends, is one order.  *)
MruSurvivesRestart ==
    journalLoaded /\ Len(DrainedStore.visits) < MaxVisits =>
        DeriveMruOrder(settledLog)
          = DeriveMruOrder(Identified(ReadAll(DrainedStore)))

(* A gesture ends, by release, Escape, a clear or the debounce timer: the     *)
(* bridge is not suppressed for ever.                                         *)
GestureEnds == traversalActive ~> ~traversalActive

(* The persisted order is loaded in every session, whatever runs meanwhile.   *)
JournalLoads == ~journalLoaded ~> journalLoaded
=============================================================================
