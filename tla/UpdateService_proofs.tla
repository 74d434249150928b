------------------------ MODULE UpdateService_proofs ------------------------
(***************************************************************************)
(* What the update service promises its profiles, for any number of        *)
(* profiles, versions, error texts and sizes of a download.                *)
(***************************************************************************)
EXTENDS UpdateService, TLAPS

VersionOrNone == Versions \cup {NoVersion}
Texts == ErrorTexts \cup {{}, Unavailable}

Events == [type : {"checkStarted", "upToDate", "updateFound", "downloadStarted",
                   "downloadProgress", "readyToInstall", "error"},
           version : VersionOrNone, error : Texts, received : Nat, total : Nat]

Messages == {"", "unavailable", "signatureFailed", "installFailed", "downloadFailed",
             "checkFailed"}

Rows == [status : Statuses \cup {"noPage", "nothingYet"}, version : VersionOrNone,
         progress : 0..100, message : Messages, retry : BOOLEAN]

(* A row that tells its machine's snapshot. *)
Tells(r, s) ==
    r # NoPage => r = IF s.status = "idle" THEN NothingYet ELSE MapSnapshot(s)

(* What a facade knows when the updater could not be started. *)
Dead == [status |-> "error", version |-> NoVersion, progress |-> 0, error |-> Unavailable]
-----------------------------------------------------------------------------
(* The state machine. *)
LEMMA PercentIsBounded ==
    ASSUME NEW received \in Nat, NEW total \in Nat, total > 0, received <= total
    PROVE  (100 * received) \div total \in 0..100
<1> DEFINE q == (100 * received) \div total
<1>1. /\ q \in Int
      /\ total * q <= 100 * received
      /\ 100 * received < total * q + total
  BY SMT
<1> HIDE DEF q
<1>2. q >= 0
  BY <1>1, SMT
<1>3. q <= 100
  BY <1>1, SMT
<1> QED
  BY <1>1, <1>2, <1>3 DEF q

(* Every event leaves a snapshot of the type, none takes a facade back to     *)
(* idle, and only an offer the profile has not skipped makes it available.    *)
Lands(s, skip, e, t) ==
    /\ t \in Snapshots
    /\ t.status = "idle" => s.status = "idle"
    /\ t.status = "available" =>
          \/ s.status = "available" /\ s.version = t.version
          \/ e.type = "updateFound" /\ e.version # skip /\ t.version = e.version
    /\ e.type = "updateFound" =>
          \/ t.status = "available" /\ t.version = e.version
          \/ e.version = skip
          \/ t.status \in {"downloading", "ready"}

LEMMA EventLands ==
    ASSUME NEW s \in Snapshots, NEW skip \in VersionOrNone, NEW e \in Events
    PROVE  Lands(s, skip, e, OnEvent(s, skip, e))
<1> USE DEF Snapshots, Statuses, VersionOrNone, Texts, Events
<1>0. Idle \in Snapshots
  BY DEF Idle
<1>1. CASE e.type = "checkStarted"
  BY <1>0, <1>1 DEF Lands, OnEvent, OnCheckStarted, Idle
<1>2. CASE e.type = "upToDate"
  BY <1>2 DEF Lands, OnEvent, OnUpToDate
<1>3. CASE e.type = "updateFound"
  <2>1. OnEvent(s, skip, e) = OnUpdateFound(s, skip, e)
    BY <1>3 DEF OnEvent
  <2>2. CASE s.status \in {"downloading", "ready"}
    BY <1>3, <2>1, <2>2 DEF Lands, OnUpdateFound
  <2>3. CASE s.status \notin {"downloading", "ready"} /\ e.version = skip
    BY <1>3, <2>1, <2>3 DEF Lands, OnUpdateFound
  <2>4. CASE s.status \notin {"downloading", "ready"} /\ e.version # skip
    <3>1. OnEvent(s, skip, e) = [status |-> "available", version |-> e.version,
                                 progress |-> 0, error |-> {}]
      BY <2>1, <2>4 DEF OnUpdateFound, Idle
    <3> QED
      BY <1>3, <2>4, <3>1 DEF Lands
  <2> QED
    BY <2>2, <2>3, <2>4
<1>4. CASE e.type = "downloadStarted"
  <2>1. OnEvent(s, skip, e) = OnDownloadStarted(s, skip, e)
    BY <1>4 DEF OnEvent
  <2>2. CASE s.status = "available"
    <3>1. OnEvent(s, skip, e) = [status |-> "downloading", version |-> s.version,
                                 progress |-> 0, error |-> s.error]
      BY <2>1, <2>2 DEF OnDownloadStarted
    <3> QED
      BY <1>4, <2>2, <3>1 DEF Lands
  <2>3. CASE s.status # "available"
    BY <1>4, <2>1, <2>3 DEF Lands, OnDownloadStarted
  <2> QED
    BY <2>2, <2>3
<1>5. CASE e.type = "downloadProgress"
  <2>1. OnEvent(s, skip, e) = OnDownloadProgress(s, skip, e)
    BY <1>5 DEF OnEvent
  <2>2. CASE s.status = "downloading" /\ e.total > 0
    <3> DEFINE p == IF e.received > e.total THEN 100 ELSE (100 * e.received) \div e.total
    <3>1. p \in 0..100
      BY <2>2, PercentIsBounded
    <3>2. OnEvent(s, skip, e) = [s EXCEPT !.progress = p]
      BY <2>1, <2>2 DEF OnDownloadProgress
    <3> HIDE DEF p
    <3> QED
      BY <1>5, <2>2, <3>1, <3>2 DEF Lands
  <2>3. CASE ~(s.status = "downloading" /\ e.total > 0)
    BY <1>5, <2>1, <2>3 DEF Lands, OnDownloadProgress
  <2> QED
    BY <2>2, <2>3
<1>6. CASE e.type = "readyToInstall"
  <2>1. OnEvent(s, skip, e) = OnReadyToInstall(s, skip, e)
    BY <1>6 DEF OnEvent
  <2>2. CASE s.status = "downloading"
    <3>1. OnEvent(s, skip, e) = [status |-> "ready", version |-> s.version,
                                 progress |-> 100, error |-> s.error]
      BY <2>1, <2>2 DEF OnReadyToInstall
    <3> QED
      BY <1>6, <2>2, <3>1 DEF Lands
  <2>3. CASE s.status # "downloading"
    BY <1>6, <2>1, <2>3 DEF Lands, OnReadyToInstall
  <2> QED
    BY <2>2, <2>3
<1>7. CASE e.type = "error"
  BY <1>7 DEF Lands, OnEvent, OnError
<1> QED
  BY <1>1, <1>2, <1>3, <1>4, <1>5, <1>6, <1>7

(* The page's row after it heard a snapshot. *)
LEMMA RowLands ==
    ASSUME NEW s \in Snapshots, NEW r \in Rows, NEW t \in Snapshots, Tells(r, s),
           t.status = "idle" => s.status = "idle"
    PROVE  /\ OnSnapshot(r, t) \in Rows /\ Tells(OnSnapshot(r, t), t)
           /\ r = NoPage => OnSnapshot(r, t) = NoPage
<1> USE DEF Snapshots, Statuses, VersionOrNone
<1>1. MapSnapshot(t) \in Rows
  <2>1. ClassifyUpdateError(t.error) \in Messages
    BY DEF ClassifyUpdateError, Messages
  <2>2. ASSUME NEW st \in Statuses, NEW v \in VersionOrNone, NEW p \in 0..100,
               NEW m \in Messages, NEW again \in BOOLEAN
        PROVE  [status |-> st, version |-> v, progress |-> p, message |-> m,
                retry |-> again] \in Rows
    BY DEF Rows
  <2> DEFINE p == IF t.status = "downloading" THEN t.progress ELSE 0
             m == IF t.status = "error" THEN ClassifyUpdateError(t.error) ELSE ""
             again == /\ t.status = "error"
                      /\ ClassifyUpdateError(t.error) \notin {"signatureFailed", "unavailable"}
  <2>3. p \in 0..100
    OBVIOUS
  <2>4. m \in Messages
    BY <2>1 DEF Messages
  <2>5. again \in BOOLEAN
    OBVIOUS
  <2>6. t.status \in Statuses /\ t.version \in VersionOrNone
    OBVIOUS
  <2> HIDE DEF p, m, again
  <2>7. [status |-> t.status, version |-> t.version, progress |-> p, message |-> m,
         retry |-> again] \in Rows
    BY <2>2, <2>3, <2>4, <2>5, <2>6
  <2> QED
    BY <2>7 DEF MapSnapshot, p, m, again
<1>2. CASE r = NoPage
  BY <1>2 DEF OnSnapshot, Tells
<1>3. CASE r # NoPage /\ t.status = "idle"
  BY <1>3 DEF OnSnapshot, Tells
<1>4. CASE r # NoPage /\ t.status # "idle"
  BY <1>1, <1>4 DEF OnSnapshot, Tells
<1> QED
  BY <1>2, <1>3, <1>4
-----------------------------------------------------------------------------
(* What every reachable state satisfies.  Beside the invariants of the runs:  *)
(* only a live facade has a page, and an updater that did not start never     *)
(* opens a session, so its facades keep what they were told when built.       *)
Asleep ==
    startError # {} => sparkle = "idle" /\ \A f \in alive : snapshot[f] = Dead

RowsOK ==
    /\ row \in [Facades -> Rows]
    /\ \A f \in Facades : Tells(row[f], snapshot[f])
    /\ \A f \in Facades \ alive : row[f] = NoPage

UInv == TypeOK /\ RowsOK /\ OfferIsLive /\ OfferReachesEveryFacade /\ Asleep

(* The owner's broadcast reaches every live facade and its page. *)
LEMMA BroadcastLands ==
    ASSUME TypeOK, NEW e \in Events, NEW r \in [Facades -> Rows],
           \A f \in Facades : Tells(r[f], snapshot[f]),
           \A f \in Facades \ alive : r[f] = NoPage,
           alive' = alive, Broadcast(e, r)
    PROVE  /\ snapshot' \in [Facades -> Snapshots]
           /\ RowsOK'
           /\ \A f \in alive : Lands(snapshot[f], skipped[f], e, snapshot'[f])
<1> DEFINE new(f) == IF f \in alive THEN OnEvent(snapshot[f], skipped[f], e) ELSE snapshot[f]
<1>1. /\ snapshot' = [f \in Facades |-> new(f)]
      /\ row' = [f \in Facades |-> OnSnapshot(r[f], new(f))]
  BY DEF Broadcast
<1>2. /\ snapshot \in [Facades -> Snapshots] /\ skipped \in [Facades -> VersionOrNone]
      /\ alive \subseteq Facades
  BY DEF TypeOK, VersionOrNone
<1>3. ASSUME NEW f \in Facades
      PROVE  /\ new(f) \in Snapshots
             /\ new(f).status = "idle" => snapshot[f].status = "idle"
             /\ f \in alive => Lands(snapshot[f], skipped[f], e, new(f))
  <2>1. CASE f \in alive
    <3>1. Lands(snapshot[f], skipped[f], e, OnEvent(snapshot[f], skipped[f], e))
      BY <1>2, EventLands
    <3> QED
      BY <2>1, <3>1 DEF Lands
  <2>2. CASE f \notin alive
    BY <1>2, <2>2
  <2> QED
    BY <2>1, <2>2
<1> HIDE DEF new
<1>4. ASSUME NEW f \in Facades
      PROVE  /\ OnSnapshot(r[f], new(f)) \in Rows /\ Tells(OnSnapshot(r[f], new(f)), new(f))
             /\ r[f] = NoPage => OnSnapshot(r[f], new(f)) = NoPage
  <2>1. snapshot[f] \in Snapshots /\ r[f] \in Rows /\ Tells(r[f], snapshot[f])
    BY <1>2
  <2> QED
    BY <1>3, <2>1, RowLands
<1>5. snapshot' \in [Facades -> Snapshots]
  BY <1>1, <1>3
<1>6. RowsOK'
  <2>1. row' \in [Facades -> Rows]
    BY <1>1, <1>4
  <2>2. \A f \in Facades : Tells(row'[f], snapshot'[f])
    BY <1>1, <1>4
  <2>3. \A f \in Facades \ alive : row'[f] = NoPage
    BY <1>1, <1>4
  <2> QED
    BY <2>1, <2>2, <2>3 DEF RowsOK, Tells, MapSnapshot
<1>7. \A f \in alive : Lands(snapshot[f], skipped[f], e, snapshot'[f])
  BY <1>1, <1>2, <1>3
<1> QED
  BY <1>5, <1>6, <1>7

Drivers == [foundReply : BOOLEAN, readyReply : BOOLEAN, pending : VersionOrNone,
            expected : Expected \cup {0}, received : Nat]

Stages == {"idle", "asked", "checking", "scheduled", "offer", "accepted", "skipping",
           "downloading", "receiving", "ready", "installing", "ending"}

LEMMA EventsAreEvents ==
    /\ \A t \in {"checkStarted", "upToDate", "downloadStarted", "readyToInstall"} :
          Event(t) \in Events
    /\ \A v \in VersionOrNone :
          Found(v) \in Events /\ Found(v).type = "updateFound" /\ Found(v).version = v
    /\ \A t \in Texts : Failed(t) \in Events
    /\ \A m, n \in Nat :
          [Event("downloadProgress") EXCEPT !.received = m, !.total = n] \in Events
<1>1. /\ \A t \in {"checkStarted", "upToDate", "downloadStarted", "readyToInstall"} :
            Event(t) \in Events
      /\ \A v \in VersionOrNone :
            Found(v) \in Events /\ Found(v).type = "updateFound" /\ Found(v).version = v
      /\ \A t \in Texts : Failed(t) \in Events
  BY DEF Event, Found, Failed, Events, VersionOrNone, Texts
<1>2. ASSUME NEW m \in Nat, NEW n \in Nat
      PROVE  [Event("downloadProgress") EXCEPT !.received = m, !.total = n] \in Events
  <2>1. Event("downloadProgress") \in Events
    BY DEF Event, Events, VersionOrNone, Texts
  <2>2. ASSUME NEW e \in Events
        PROVE  [e EXCEPT !.received = m, !.total = n] \in Events
    <3>1. [e EXCEPT !.received = m] \in Events
      BY DEF Events
    <3>2. \A d \in Events : [d EXCEPT !.total = n] \in Events
      BY DEF Events
    <3>3. [e EXCEPT !.received = m, !.total = n] = [[e EXCEPT !.received = m] EXCEPT !.total = n]
      OBVIOUS
    <3> QED
      BY <3>1, <3>2, <3>3
  <2> QED
    BY <2>1, <2>2
<1> QED
  BY <1>1, <1>2

(* A callback of the user driver that broadcasts keeps the invariant. *)
LEMMA CallbackKeeps ==
    ASSUME UInv, NEW e \in Events, NEW r \in [Facades -> Rows],
           \A f \in Facades : Tells(r[f], snapshot[f]),
           \A f \in Facades \ alive : r[f] = NoPage,
           Broadcast(e, r), UNCHANGED <<startError, alive, skipped>>,
           startError = {}, driver' \in Drivers, sparkle' \in Stages, OfferIsLive',
           driver'.pending = NoVersion \/ (e.type = "updateFound" /\ e.version = driver'.pending)
    PROVE  UInv'
<1>1. TypeOK
  BY DEF UInv
<1>2. /\ snapshot' \in [Facades -> Snapshots]
      /\ RowsOK'
      /\ \A f \in alive : Lands(snapshot[f], skipped[f], e, snapshot'[f])
  BY <1>1, BroadcastLands
<1>3. TypeOK'
  BY <1>1, <1>2 DEF TypeOK, Drivers, Stages, VersionOrNone
<1>4. OfferReachesEveryFacade'
  BY <1>2 DEF OfferReachesEveryFacade, Lands
<1>5. Asleep'
  BY DEF Asleep
<1> QED
  BY <1>2, <1>3, <1>4, <1>5 DEF UInv

LEMMA NotifyKeeps ==
    ASSUME UInv, NEW e \in Events, NotifySinks(e), UNCHANGED <<startError, alive, skipped>>,
           sparkle # "idle", driver' \in Drivers, sparkle' \in Stages, OfferIsLive',
           driver'.pending = NoVersion \/ (e.type = "updateFound" /\ e.version = driver'.pending)
    PROVE  UInv'
<1>1. startError = {}
  BY DEF UInv, Asleep
<1>2. RowsOK
  BY DEF UInv
<1> QED
  BY <1>1, <1>2, CallbackKeeps DEF NotifySinks, RowsOK

(* A step that leaves the snapshots alone, or only a page's row. *)
LEMMA QuietKeeps ==
    ASSUME UInv, UNCHANGED <<startError, alive, snapshot>>, RowsOK',
           skipped' \in [Facades -> VersionOrNone],
           driver' \in Drivers, sparkle' \in Stages, OfferIsLive',
           startError # {} => sparkle' = sparkle,
           driver'.pending = NoVersion \/ UNCHANGED <<driver, skipped>>
    PROVE  UInv'
<1>1. TypeOK'
  BY DEF UInv, TypeOK, Drivers, Stages, VersionOrNone
<1>2. OfferReachesEveryFacade'
  BY DEF UInv, OfferReachesEveryFacade
<1>3. Asleep'
  BY DEF UInv, Asleep
<1> QED
  BY <1>1, <1>2, <1>3 DEF UInv

LEMMA UInitHolds == Init => UInv
<1> SUFFICES ASSUME Init PROVE UInv
  OBVIOUS
<1>1. Idle \in Snapshots
  BY DEF Idle, Snapshots, Statuses
<1>2. TypeOK
  BY <1>1 DEF Init, TypeOK
<1>3. RowsOK
  <2>1. NoPage \in Rows
    BY DEF NoPage, BlankRow, Rows, VersionOrNone, Messages
  <2> QED
    BY <2>1 DEF Init, RowsOK, Tells
<1>4. OfferIsLive /\ OfferReachesEveryFacade /\ Asleep
  BY DEF Init, OfferIsLive, OfferReachesEveryFacade, Asleep
<1> QED
  BY <1>2, <1>3, <1>4 DEF UInv

(* What a page or a profile does. *)
LEMMA FacadeKeeps ==
    ASSUME UInv, NEW f \in Facades,
           \/ CreateFacade(f) \/ DestroyFacade(f) \/ CheckForUpdate(f) \/ ClosePage(f)
           \/ CommandDownload(f) \/ CommandSkipVersion(f) \/ CommandInstallAndRelaunch(f)
    PROVE  UInv'
<1>1. /\ TypeOK /\ RowsOK /\ OfferIsLive /\ OfferReachesEveryFacade /\ Asleep
      /\ driver \in Drivers /\ sparkle \in Stages /\ skipped \in [Facades -> VersionOrNone]
      /\ NoVersion \in VersionOrNone /\ NoVersion \notin Versions
      /\ snapshot \in [Facades -> Snapshots]
  BY UpdateServiceAssumption DEF UInv, TypeOK, Drivers, Stages, VersionOrNone
<1>2. Idle \in Snapshots /\ NoPage \in Rows /\ NothingYet \in Rows /\ NothingYet # NoPage
  <2>1. Idle \in Snapshots
    BY DEF Idle, Snapshots, Statuses
  <2>2. NoPage \in Rows
    BY DEF NoPage, BlankRow, Rows, VersionOrNone, Messages
  <2>3. NothingYet \in Rows
    BY DEF NothingYet, BlankRow, Rows, VersionOrNone, Messages
  <2>4. NothingYet # NoPage
    BY DEF NothingYet, NoPage, BlankRow
  <2> QED
    BY <2>1, <2>2, <2>3, <2>4
<1>3. CASE CreateFacade(f)
  <2> DEFINE told == IF startError = {} THEN Idle ELSE OnEvent(Idle, skipped[f], Failed(startError))
             new == AddEventSink(skipped[f])
  <2>1. /\ f \notin alive /\ alive' = alive \cup {f} /\ snapshot' = [snapshot EXCEPT ![f] = new]
        /\ UNCHANGED <<startError, sparkle, driver, skipped, row>>
    BY <1>3 DEF CreateFacade
  <2>2. startError # {} => OnEvent(Idle, skipped[f], Failed(startError)) = Dead
    BY <1>1 DEF TypeOK, OnEvent, Failed, Event, OnError, Idle, Dead
  <2>3. startError # {} => driver.pending = NoVersion
    BY <1>1 DEF OfferIsLive, Asleep
  <2>4. Dead \in Snapshots
    BY DEF Dead, Snapshots, Statuses
  <2>5. startError # {} => new = Dead
    BY <2>2, <2>3 DEF AddEventSink
  <2>6. startError = {} =>
          new = IF driver.pending = NoVersion THEN Idle
                ELSE OnEvent(Idle, skipped[f], Found(driver.pending))
    BY DEF AddEventSink
  <2> HIDE DEF new
  <2>7. driver.pending # NoVersion =>
          /\ startError = {}
          /\ Lands(Idle, skipped[f], Found(driver.pending), new)
          /\ Found(driver.pending).type = "updateFound"
          /\ Found(driver.pending).version = driver.pending
    <3>1. /\ Found(driver.pending) \in Events
          /\ Found(driver.pending).type = "updateFound"
          /\ Found(driver.pending).version = driver.pending
      BY <1>1, EventsAreEvents DEF Drivers
    <3>2. Lands(Idle, skipped[f], Found(driver.pending),
                OnEvent(Idle, skipped[f], Found(driver.pending)))
      BY <1>1, <1>2, <3>1, EventLands
    <3> QED
      BY <2>3, <2>6, <3>1, <3>2
  <2>8. new \in Snapshots
    BY <1>2, <2>4, <2>5, <2>6, <2>7 DEF Lands
  <2>9. TypeOK'
    BY <1>1, <2>1, <2>8 DEF TypeOK
  <2>10. RowsOK'
    <3>1. row'[f] = NoPage
      BY <1>1, <2>1 DEF RowsOK
    <3>2. \A g \in Facades : Tells(row'[g], snapshot'[g])
      BY <1>1, <2>1, <3>1 DEF RowsOK, Tells
    <3> QED
      BY <1>1, <2>1, <3>2 DEF RowsOK, Tells, MapSnapshot
  <2>11. OfferIsLive' /\ OfferReachesEveryFacade'
    <3>1. OfferIsLive'
      BY <1>1, <2>1 DEF OfferIsLive
    <3>2. ASSUME driver.pending # NoVersion, NEW g \in alive'
          PROVE  \/ snapshot'[g].status = "available" /\ snapshot'[g].version = driver.pending
                 \/ skipped[g] = driver.pending
                 \/ snapshot'[g].status \in {"downloading", "ready"}
      <4>1. CASE g = f
        BY <1>1, <2>1, <2>7, <3>2, <4>1 DEF Lands
      <4>2. CASE g # f
        BY <1>1, <2>1, <3>2, <4>2 DEF OfferReachesEveryFacade, TypeOK
      <4> QED
        BY <4>1, <4>2
    <3> QED
      BY <2>1, <3>1, <3>2 DEF OfferReachesEveryFacade
  <2>12. Asleep'
    BY <1>1, <2>1, <2>5 DEF Asleep, TypeOK
  <2> QED
    BY <2>9, <2>10, <2>11, <2>12 DEF UInv
<1>4. CASE DestroyFacade(f)
  <2>1. /\ alive' = alive \ {f} /\ snapshot' = [snapshot EXCEPT ![f] = Idle]
        /\ skipped' = [skipped EXCEPT ![f] = NoVersion] /\ row' = [row EXCEPT ![f] = NoPage]
        /\ UNCHANGED <<startError, sparkle, driver>>
    BY <1>4 DEF DestroyFacade
  <2>2. TypeOK'
    BY <1>1, <1>2, <2>1 DEF TypeOK
  <2>3. RowsOK'
    BY <1>1, <1>2, <2>1 DEF RowsOK, Tells, MapSnapshot
  <2>4. OfferIsLive' /\ OfferReachesEveryFacade' /\ Asleep'
    BY <1>1, <2>1 DEF OfferIsLive, OfferReachesEveryFacade, Asleep, TypeOK
  <2> QED
    BY <2>2, <2>3, <2>4 DEF UInv
<1>5. CASE CheckForUpdate(f)
  <2> DEFINE r == IF row[f] = NoPage THEN [row EXCEPT ![f] = SubscribeToSnapshots(f)] ELSE row
  <2>1. SubscribeToSnapshots(f) \in Rows /\ Tells(SubscribeToSnapshots(f), snapshot[f])
    <3>1. snapshot[f] \in Snapshots
      BY <1>1
    <3>2. CASE snapshot[f].status = "idle"
      BY <1>2, <3>2 DEF SubscribeToSnapshots, OnSnapshot, Tells
    <3>3. CASE snapshot[f].status # "idle"
      <4>1. Tells(NothingYet, Idle) /\ Idle.status = "idle"
        BY DEF Tells, Idle
      <4> QED
        BY <1>2, <3>1, <3>3, <4>1, RowLands DEF SubscribeToSnapshots
    <3> QED
      BY <3>2, <3>3
  <2>2. /\ r \in [Facades -> Rows] /\ \A g \in Facades : Tells(r[g], snapshot[g])
        /\ \A g \in Facades \ alive : r[g] = NoPage
    <3>1. f \in alive
      BY <1>5 DEF CheckForUpdate
    <3> QED
      BY <1>1, <2>1, <3>1 DEF RowsOK
  <2>3. UNCHANGED <<startError, driver, alive, skipped>>
    BY <1>5 DEF CheckForUpdate
  <2>4. CASE driver.pending # NoVersion
    <3>1. Broadcast(Found(driver.pending), r) /\ UNCHANGED sparkle
      BY <1>5, <2>4 DEF CheckForUpdate, ShowUpdateInFocus
    <3>2. /\ Found(driver.pending) \in Events
          /\ Found(driver.pending).type = "updateFound"
          /\ Found(driver.pending).version = driver'.pending
      BY <1>1, <2>3, EventsAreEvents DEF Drivers
    <3>3. startError = {}
      BY <1>1, <2>4 DEF OfferIsLive, Asleep
    <3>4. OfferIsLive'
      BY <1>1, <2>3, <3>1 DEF OfferIsLive
    <3> HIDE DEF r
    <3> QED
      BY <1>1, <2>2, <2>3, <3>1, <3>2, <3>3, <3>4, CallbackKeeps
  <2>5. CASE driver.pending = NoVersion
    <3>1. /\ row' = r /\ UNCHANGED snapshot
          /\ sparkle' = IF startError = {} /\ sparkle = "idle" THEN "asked" ELSE sparkle
      BY <1>5, <2>5 DEF CheckForUpdate
    <3>2. RowsOK'
      <4> HIDE DEF r
      <4> QED
        BY <2>2, <2>3, <3>1 DEF RowsOK, Tells, MapSnapshot
    <3>3. sparkle' \in Stages /\ OfferIsLive'
      BY <1>1, <2>3, <3>1 DEF Stages, OfferIsLive
    <3> QED
      BY <1>1, <2>3, <2>5, <3>1, <3>2, <3>3, QuietKeeps
  <2> QED
    BY <2>4, <2>5
<1>6. CASE ClosePage(f)
  <2>1. row' = [row EXCEPT ![f] = NoPage]
        /\ UNCHANGED <<startError, sparkle, driver, alive, snapshot, skipped>>
    BY <1>6 DEF ClosePage
  <2>2. RowsOK'
    BY <1>1, <1>2, <2>1 DEF RowsOK, Tells, MapSnapshot
  <2>3. OfferIsLive'
    BY <1>1, <2>1 DEF OfferIsLive
  <2> QED
    BY <1>1, <2>1, <2>2, <2>3, QuietKeeps
<1>7. ASSUME NEW choice \in {"accepted", "skipping"}, ConsumeFoundReply(choice)
      PROVE  driver' \in Drivers /\ sparkle' \in Stages /\ OfferIsLive'
             /\ driver'.pending = NoVersion /\ (startError # {} => sparkle' = sparkle)
  <2>1. CASE driver.foundReply
    <3>1. driver' = [driver EXCEPT !.foundReply = FALSE, !.pending = NoVersion]
          /\ sparkle' = choice
      BY <1>7, <2>1 DEF ConsumeFoundReply
    <3>2. driver' \in Drivers /\ driver'.foundReply = FALSE /\ driver'.pending = NoVersion
      <4>1. driver' = [foundReply |-> FALSE, readyReply |-> driver.readyReply,
                       pending |-> NoVersion, expected |-> driver.expected,
                       received |-> driver.received]
        BY <1>1, <3>1 DEF Drivers
      <4> QED
        BY <1>1, <4>1 DEF Drivers
    <3>3. sparkle' \in Stages /\ OfferIsLive'
      BY <3>1, <3>2 DEF Stages, OfferIsLive
    <3>4. startError = {}
      BY <1>1, <2>1 DEF OfferIsLive, Asleep
    <3> QED
      BY <3>2, <3>3, <3>4
  <2>2. CASE ~driver.foundReply
    BY <1>1, <1>7, <2>2 DEF ConsumeFoundReply, OfferIsLive
  <2> QED
    BY <2>1, <2>2
<1>8. CASE CommandDownload(f)
  <2>1. ConsumeFoundReply("accepted") /\ UNCHANGED <<startError, alive, snapshot, skipped, row>>
    BY <1>8 DEF CommandDownload
  <2>2. RowsOK'
    BY <1>1, <2>1 DEF RowsOK, Tells, MapSnapshot
  <2> QED
    BY <1>1, <1>7, <2>1, <2>2, QuietKeeps
<1>9. CASE CommandSkipVersion(f)
  <2>1. /\ ConsumeFoundReply("skipping") /\ UNCHANGED <<startError, alive, snapshot, row>>
        /\ skipped' = [skipped EXCEPT ![f] = row[f].version]
    BY <1>9 DEF CommandSkipVersion
  <2>2. RowsOK'
    BY <1>1, <2>1 DEF RowsOK, Tells, MapSnapshot
  <2>3. skipped' \in [Facades -> VersionOrNone]
    BY <1>1, <2>1 DEF RowsOK, Rows
  <2> QED
    BY <1>1, <1>7, <2>1, <2>2, <2>3, QuietKeeps
<1>10. CASE CommandInstallAndRelaunch(f)
  <2>1. /\ driver' = [driver EXCEPT !.readyReply = FALSE]
        /\ sparkle' = IF driver.readyReply /\ sparkle = "ready" THEN "installing" ELSE sparkle
        /\ UNCHANGED <<startError, alive, snapshot, skipped, row>>
    BY <1>10 DEF CommandInstallAndRelaunch
  <2>2. RowsOK'
    BY <1>1, <2>1 DEF RowsOK, Tells, MapSnapshot
  <2>3. /\ driver' \in Drivers /\ driver'.foundReply = driver.foundReply
        /\ driver'.pending = driver.pending
    BY <1>1, <2>1 DEF Drivers
  <2>4. sparkle' \in Stages /\ (sparkle' = "offer" <=> sparkle = "offer")
    BY <1>1, <2>1 DEF Stages
  <2>5. TypeOK' /\ OfferIsLive' /\ OfferReachesEveryFacade' /\ Asleep'
    <3>1. TypeOK'
      BY <1>1, <2>1, <2>3, <2>4 DEF TypeOK, Drivers, Stages, VersionOrNone
    <3>2. OfferIsLive'
      BY <1>1, <2>3, <2>4 DEF OfferIsLive
    <3>3. OfferReachesEveryFacade' /\ Asleep'
      BY <1>1, <2>1, <2>3 DEF OfferReachesEveryFacade, Asleep
    <3> QED
      BY <3>1, <3>2, <3>3
  <2> QED
    BY <2>2, <2>5 DEF UInv
<1> QED
  BY <1>3, <1>4, <1>5, <1>6, <1>8, <1>9, <1>10

(* The lengths of a download. *)
LEMMA LengthsAreNat ==
    ASSUME driver \in Drivers, NEW n \in Chunks
    PROVE  Received(n) \in Nat /\ driver.expected \in Nat
<1>1. driver.received \in Nat /\ n \in Nat
  BY UpdateServiceAssumption DEF Drivers
<1>2. driver.expected \in Expected \cup {0}
  BY DEF Drivers
<1>3. \A k \in Expected \cup {0} : k \in Nat
  BY UpdateServiceAssumption
<1>4. Received(n) \in Nat
  BY <1>1 DEF Received
<1> QED
  BY <1>2, <1>3, <1>4

(* What Sparkle does. *)
LEMMA SparkleKeeps ==
    ASSUME UInv,
           \/ BackgroundCheck \/ ShowUserInitiatedUpdateCheck \/ SparkleAnswers
           \/ ScheduledCheckEnds \/ ShowDownloadInitiated
           \/ \E n \in Expected : DidReceiveExpectedContentLength(n)
           \/ \E n \in Chunks : DidReceiveDataOfLength(n)
           \/ ShowReadyToInstall \/ DismissUpdateInstallation
    PROVE  UInv'
<1>1. /\ TypeOK /\ RowsOK /\ OfferIsLive /\ OfferReachesEveryFacade /\ Asleep
      /\ driver \in Drivers /\ sparkle \in Stages /\ skipped \in [Facades -> VersionOrNone]
      /\ NoVersion \in VersionOrNone /\ NoVersion \notin Versions
  BY UpdateServiceAssumption DEF UInv, TypeOK, Drivers, Stages, VersionOrNone
<1>2. /\ DropPendingOffer \in Drivers /\ DropPendingOffer.foundReply = FALSE
      /\ DropPendingOffer.pending = NoVersion
  <2>1. DropPendingOffer = [foundReply |-> FALSE, readyReply |-> driver.readyReply,
                            pending |-> NoVersion, expected |-> driver.expected,
                            received |-> driver.received]
    <3>1. driver \in Drivers
      BY <1>1
    <3>2. DropPendingOffer = [driver EXCEPT !.pending = NoVersion, !.foundReply = FALSE]
      BY DEF DropPendingOffer
    <3> QED
      BY <3>1, <3>2 DEF Drivers
  <2> QED
    BY <1>1, <2>1 DEF Drivers
<1>3. sparkle # "offer" => driver.foundReply = FALSE /\ driver.pending = NoVersion
  <2>1. driver.foundReply \in BOOLEAN
    BY <1>1 DEF Drivers
  <2> QED
    BY <1>1, <2>1 DEF OfferIsLive
<1>4. ASSUME UNCHANGED <<startError, driver, alive, snapshot, skipped, row>>,
             sparkle # "offer", sparkle' \in Stages \ {"offer"},
             startError # {} => sparkle' = sparkle
      PROVE  UInv'
  <2>1. RowsOK'
    BY <1>1, <1>4 DEF RowsOK, Tells, MapSnapshot
  <2>2. OfferIsLive'
    BY <1>3, <1>4 DEF OfferIsLive
  <2> QED
    BY <1>1, <1>4, <2>1, <2>2, QuietKeeps
<1>5. CASE BackgroundCheck
  BY <1>4, <1>5 DEF BackgroundCheck, Stages
<1>6. CASE ScheduledCheckEnds
  BY <1>1, <1>4, <1>6 DEF ScheduledCheckEnds, Stages, Asleep
<1>7. CASE ShowUserInitiatedUpdateCheck
  <2>1. OfferIsLive'
    BY <1>3, <1>7 DEF ShowUserInitiatedUpdateCheck, OfferIsLive
  <2>2. Event("checkStarted") \in Events
    BY EventsAreEvents
  <2>3. /\ NotifySinks(Event("checkStarted")) /\ UNCHANGED <<startError, alive, skipped, driver>>
        /\ sparkle = "asked" /\ sparkle' = "checking"
    BY <1>7 DEF ShowUserInitiatedUpdateCheck
  <2>4. driver' \in Drivers /\ sparkle' \in Stages /\ driver'.pending = NoVersion
    BY <1>1, <1>3, <2>3 DEF Stages
  <2> QED
    BY <2>1, <2>2, <2>3, <2>4, NotifyKeeps
<1>8. ASSUME NEW v \in Versions, ShowUpdateFound(v)
      PROVE  UInv'
  <2>1. /\ sparkle # "idle" /\ sparkle' = "offer" /\ NotifySinks(Found(v))
        /\ driver' = [driver EXCEPT !.foundReply = TRUE, !.pending = v]
        /\ UNCHANGED <<startError, alive, skipped>>
    BY <1>8 DEF ShowUpdateFound
  <2>2. Found(v) \in Events /\ Found(v).type = "updateFound" /\ Found(v).version = v
    BY EventsAreEvents DEF VersionOrNone
  <2>3. driver' = [foundReply |-> TRUE, readyReply |-> driver.readyReply, pending |-> v,
                   expected |-> driver.expected, received |-> driver.received]
    BY <1>1, <2>1 DEF Drivers
  <2>4. driver' \in Drivers /\ driver'.foundReply = TRUE /\ driver'.pending = v
    BY <1>1, <2>3 DEF Drivers, VersionOrNone
  <2>5. OfferIsLive' /\ sparkle' \in Stages
    BY <1>1, <2>1, <2>4 DEF OfferIsLive, Stages
  <2> QED
    BY <2>1, <2>2, <2>4, <2>5, NotifyKeeps
<1>9. CASE ShowUpdateNotFound
  <2>1. /\ sparkle # "idle" /\ sparkle' = "ending" /\ NotifySinks(Event("upToDate"))
        /\ driver' = DropPendingOffer /\ UNCHANGED <<startError, alive, skipped>>
    BY <1>9 DEF ShowUpdateNotFound
  <2>2. OfferIsLive' /\ sparkle' \in Stages
    BY <1>2, <2>1 DEF OfferIsLive, Stages
  <2> QED
    BY <1>2, <2>1, <2>2, EventsAreEvents, NotifyKeeps
<1>10. ASSUME NEW t \in ErrorTexts, ShowUpdaterError(t)
       PROVE  UInv'
  <2>1. /\ sparkle # "idle" /\ sparkle' = "ending" /\ NotifySinks(Failed(t))
        /\ driver' = DropPendingOffer /\ UNCHANGED <<startError, alive, skipped>>
    BY <1>10 DEF ShowUpdaterError
  <2>2. OfferIsLive' /\ sparkle' \in Stages
    BY <1>2, <2>1 DEF OfferIsLive, Stages
  <2>3. Failed(t) \in Events
    BY EventsAreEvents DEF Texts
  <2> QED
    BY <1>2, <2>1, <2>2, <2>3, NotifyKeeps
<1>11. CASE ShowDownloadInitiated
  <2>1. /\ sparkle = "accepted" /\ sparkle' = "downloading"
        /\ NotifySinks(Event("downloadStarted"))
        /\ driver' = [driver EXCEPT !.pending = NoVersion]
        /\ UNCHANGED <<startError, alive, skipped>>
    BY <1>11 DEF ShowDownloadInitiated
  <2>2. driver' \in Drivers /\ driver'.pending = NoVersion
        /\ driver'.foundReply = driver.foundReply
    BY <1>1, <2>1 DEF Drivers
  <2>3. OfferIsLive' /\ sparkle' \in Stages
    BY <1>3, <2>1, <2>2 DEF OfferIsLive, Stages
  <2> QED
    BY <2>1, <2>2, <2>3, EventsAreEvents, NotifyKeeps
<1>12. ASSUME NEW n \in Expected, DidReceiveExpectedContentLength(n)
       PROVE  UInv'
  <2>1. /\ sparkle = "downloading" /\ sparkle' = "receiving"
        /\ driver' = [driver EXCEPT !.expected = n]
        /\ UNCHANGED <<startError, alive, snapshot, skipped, row>>
    BY <1>12 DEF DidReceiveExpectedContentLength
  <2>2. /\ driver' \in Drivers /\ driver'.pending = driver.pending
        /\ driver'.foundReply = driver.foundReply
    BY <1>1, <2>1 DEF Drivers
  <2>3. OfferIsLive' /\ sparkle' \in Stages /\ startError = {} /\ driver'.pending = NoVersion
    BY <1>1, <1>3, <2>1, <2>2 DEF OfferIsLive, Stages, Asleep
  <2>4. RowsOK'
    BY <1>1, <2>1 DEF RowsOK, Tells, MapSnapshot
  <2> QED
    BY <1>1, <2>1, <2>2, <2>3, <2>4, QuietKeeps
<1>13. ASSUME NEW n \in Chunks, DidReceiveDataOfLength(n)
       PROVE  UInv'
  <2> DEFINE e == [Event("downloadProgress")
                     EXCEPT !.received = Received(n), !.total = driver.expected]
  <2>1. /\ sparkle \in {"downloading", "receiving"} /\ sparkle' = "receiving"
        /\ NotifySinks(e) /\ driver' = [driver EXCEPT !.received = Received(n)]
        /\ UNCHANGED <<startError, alive, skipped>>
    BY <1>13 DEF DidReceiveDataOfLength
  <2>2. Received(n) \in Nat /\ driver.expected \in Nat
    BY <1>1, LengthsAreNat
  <2>3. e \in Events
    BY <2>2, EventsAreEvents
  <2>4. /\ driver' \in Drivers /\ driver'.pending = driver.pending
        /\ driver'.foundReply = driver.foundReply
    BY <1>1, <2>1, <2>2 DEF Drivers
  <2>5. OfferIsLive' /\ sparkle' \in Stages /\ sparkle # "idle" /\ driver'.pending = NoVersion
    BY <1>3, <2>1, <2>4 DEF OfferIsLive, Stages
  <2> HIDE DEF e
  <2> QED
    BY <2>1, <2>3, <2>4, <2>5, NotifyKeeps
<1>14. CASE ShowReadyToInstall
  <2>1. /\ sparkle = "receiving" /\ sparkle' = "ready"
        /\ NotifySinks(Event("readyToInstall"))
        /\ driver' = [driver EXCEPT !.readyReply = TRUE]
        /\ UNCHANGED <<startError, alive, skipped>>
    BY <1>14 DEF ShowReadyToInstall
  <2>2. /\ driver' \in Drivers /\ driver'.pending = driver.pending
        /\ driver'.foundReply = driver.foundReply
    BY <1>1, <2>1 DEF Drivers
  <2>3. OfferIsLive' /\ sparkle' \in Stages /\ driver'.pending = NoVersion
    BY <1>3, <2>1, <2>2 DEF OfferIsLive, Stages
  <2> QED
    BY <2>1, <2>2, <2>3, EventsAreEvents, NotifyKeeps
<1>15. CASE DismissUpdateInstallation
  <2>1. /\ sparkle # "idle" /\ sparkle' = "idle" /\ driver' = DropPendingOffer
        /\ UNCHANGED <<startError, alive, snapshot, skipped, row>>
    BY <1>15 DEF DismissUpdateInstallation
  <2>2. OfferIsLive' /\ sparkle' \in Stages /\ startError = {}
    BY <1>1, <1>2, <2>1 DEF OfferIsLive, Stages, Asleep
  <2>3. RowsOK'
    BY <1>1, <2>1 DEF RowsOK, Tells, MapSnapshot
  <2> QED
    BY <1>1, <1>2, <2>1, <2>2, <2>3, QuietKeeps
<1> QED
  BY <1>5, <1>6, <1>7, <1>8, <1>9, <1>10, <1>11, <1>12, <1>13, <1>14, <1>15
     DEF SparkleAnswers

(* Every step preserves the invariant. *)
LEMMA UNextHolds == UInv /\ [Next]_vars => UInv'
<1> SUFFICES ASSUME UInv, [Next]_vars PROVE UInv'
  OBVIOUS
<1>1. CASE UNCHANGED vars
  BY <1>1 DEF vars, UInv, TypeOK, RowsOK, Tells, MapSnapshot, OfferIsLive,
     OfferReachesEveryFacade, Asleep
<1>2. CASE Next
  BY <1>2, FacadeKeeps, SparkleKeeps DEF Next
<1> QED
  BY <1>1, <1>2

LEMMA UInvAlways == Spec => []UInv
BY UInitHolds, UNextHolds, PTL DEF Spec

(* The reply block of an offer is live exactly while Sparkle waits for it,    *)
(* and the offer reaches every facade (ShowUpdateFound, AddEventSink,         *)
(* ShowUpdateInFocus) but one that skipped the version or shows a download,   *)
(* for any number of profiles.                                                *)
THEOREM OffersAreLiveAndSeen == Spec => []OfferInv
<1>1. UInv => OfferInv
  BY DEF UInv, OfferInv
<1> QED
  BY <1>1, UInvAlways, PTL

(* Each open About row is the row of its facade's snapshot (OnSnapshot), each *)
(* progress is a percentage, and an updater that could not be started is      *)
(* reported as unavailable, with no retry, to every facade (AddEventSink).    *)
THEOREM RowsTellTheMachines == Spec => []FacadeInv
<1>1. UInv => FacadeInv
  <2> SUFFICES ASSUME UInv PROVE FacadeInv
    OBVIOUS
  <2>1. TypeOK /\ RowsOK /\ Asleep
    BY DEF UInv
  <2>2. RowFollowsMachine
    BY <2>1 DEF RowsOK, Tells, RowFollowsMachine
  <2>3. DeadUpdaterReported
    <3>1. /\ MapSnapshot(Dead).status = "error" /\ MapSnapshot(Dead).message = "unavailable"
          /\ ~MapSnapshot(Dead).retry
      BY DEF Dead, MapSnapshot, ClassifyUpdateError, Unavailable
    <3> QED
      BY <2>1, <3>1 DEF Asleep, DeadUpdaterReported
  <2> QED
    BY <2>1, <2>2, <2>3 DEF FacadeInv
<1> QED
  BY <1>1, UInvAlways, PTL

(* No step of any profile, page or Sparkle brings back, in a facade, a        *)
(* version its profile skipped (OnUpdateFound), with any number of offers.    *)
THEOREM SkippedVersionsStayHidden == Spec => SkippedNeverSurfaces
<1> DEFINE Hides == \A f \in alive \cap alive' :
                      /\ snapshot'[f].status = "available"
                      /\ \/ snapshot[f].status # "available"
                         \/ snapshot[f].version # snapshot'[f].version
                      => snapshot'[f].version # skipped[f]
<1>1. UInv /\ [Next]_vars => Hides
  <2> SUFFICES ASSUME UInv, [Next]_vars PROVE Hides
    OBVIOUS
  <2>1. TypeOK /\ RowsOK /\ driver \in Drivers
    BY DEF UInv, TypeOK, Drivers, VersionOrNone
  <2>2. snapshot \in [Facades -> Snapshots] /\ skipped \in [Facades -> VersionOrNone]
        /\ alive \subseteq Facades
    BY <2>1 DEF TypeOK, VersionOrNone
  <2>3. ASSUME NEW e \in Events, NEW r, Broadcast(e, r)
        PROVE  Hides
    <3>1. \A f \in alive : snapshot'[f] = OnEvent(snapshot[f], skipped[f], e)
      BY <2>2, <2>3 DEF Broadcast
    <3>2. \A f \in alive : Lands(snapshot[f], skipped[f], e, snapshot'[f])
      BY <2>2, <3>1, EventLands
    <3> QED
      BY <3>2 DEF Lands
  <2>4. ASSUME UNCHANGED snapshot PROVE Hides
    BY <2>4
  <2>5. CASE UNCHANGED vars
    BY <2>4, <2>5 DEF vars
  <2>6. ASSUME NEW f \in Facades, CreateFacade(f) \/ DestroyFacade(f) PROVE Hides
    <3>1. \A g \in alive \cap alive' : snapshot'[g] = snapshot[g]
      BY <2>2, <2>6 DEF CreateFacade, DestroyFacade
    <3> QED
      BY <3>1
  <2>7. ASSUME NEW f \in Facades, CheckForUpdate(f) PROVE Hides
    <3>1. Found(driver.pending) \in Events
      BY <2>1, EventsAreEvents DEF Drivers
    <3>2. CASE driver.pending # NoVersion
      BY <2>3, <2>7, <3>1, <3>2 DEF CheckForUpdate, ShowUpdateInFocus
    <3>3. CASE driver.pending = NoVersion
      BY <2>4, <2>7, <3>3 DEF CheckForUpdate
    <3> QED
      BY <3>2, <3>3
  <2>8. ASSUME NEW f \in Facades,
               \/ ClosePage(f) \/ CommandDownload(f) \/ CommandSkipVersion(f)
               \/ CommandInstallAndRelaunch(f)
        PROVE  Hides
    BY <2>4, <2>8 DEF ClosePage, CommandDownload, CommandSkipVersion, CommandInstallAndRelaunch
  <2>9. CASE \/ BackgroundCheck \/ ScheduledCheckEnds \/ DismissUpdateInstallation
             \/ \E n \in Expected : DidReceiveExpectedContentLength(n)
    BY <2>4, <2>9 DEF BackgroundCheck, ScheduledCheckEnds, DismissUpdateInstallation,
       DidReceiveExpectedContentLength
  <2>10. CASE ShowUserInitiatedUpdateCheck \/ ShowUpdateNotFound \/ ShowDownloadInitiated
              \/ ShowReadyToInstall
    BY <2>3, <2>10, EventsAreEvents DEF ShowUserInitiatedUpdateCheck, ShowUpdateNotFound,
       ShowDownloadInitiated, ShowReadyToInstall, NotifySinks
  <2>11. ASSUME NEW v \in Versions, ShowUpdateFound(v) PROVE Hides
    BY <2>3, <2>11, EventsAreEvents DEF ShowUpdateFound, NotifySinks, VersionOrNone
  <2>12. ASSUME NEW t \in ErrorTexts, ShowUpdaterError(t) PROVE Hides
    BY <2>3, <2>12, EventsAreEvents DEF ShowUpdaterError, NotifySinks, Texts
  <2>13. ASSUME NEW n \in Chunks, DidReceiveDataOfLength(n) PROVE Hides
    <3>1. Received(n) \in Nat /\ driver.expected \in Nat
      BY <2>1, LengthsAreNat
    <3>2. [Event("downloadProgress") EXCEPT !.received = Received(n),
                                            !.total = driver.expected] \in Events
      BY <3>1, EventsAreEvents
    <3> QED
      BY <2>3, <2>13, <3>2 DEF DidReceiveDataOfLength, NotifySinks
  <2> QED
    BY <2>5, <2>6, <2>7, <2>8, <2>9, <2>10, <2>11, <2>12, <2>13 DEF Next, SparkleAnswers
<1>2. UInv /\ [Next]_vars =>
        [\A f \in alive \cap alive' :
           /\ snapshot'[f].status = "available"
           /\ snapshot[f].status # "available" \/ snapshot[f].version # snapshot'[f].version
           => snapshot'[f].version # skipped[f]]_vars
  BY <1>1
<1> QED
  BY <1>2, UInvAlways, PTL DEF Spec, SkippedNeverSurfaces
=============================================================================
