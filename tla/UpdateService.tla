---------------------------- MODULE UpdateService ----------------------------
(***************************************************************************)
(* In-app updates: the pure state machine (update_state_machine.cc), the   *)
(* Sparkle user driver (roamux_update_user_driver.mm), the process-wide    *)
(* owner with one facade per profile (roamux_update_service.mm) and the    *)
(* About row of a facade (roamux_version_updater.cc).  Sparkle itself is   *)
(* external: `sparkle` is the stage of its one update session.             *)
(*                                                                         *)
(* An error text is the set of the words ClassifyUpdateError looks for.    *)
(***************************************************************************)
EXTENDS Integers

CONSTANTS
    Facades,      \* profiles that can have a RoamuxUpdateService
    Versions,     \* versions Sparkle may offer
    NoVersion,
    ErrorTexts,   \* texts of the errors Sparkle reports
    Expected,     \* content lengths Sparkle may announce, 0 for unknown
    Chunks,       \* sizes of a piece of download
    MaxReceived   \* bound on _receivedLength

ASSUME UpdateServiceAssumption ==
    /\ NoVersion \notin Versions
    /\ Expected \subseteq Nat /\ Chunks \subseteq Nat \ {0} /\ MaxReceived \in Nat

VARIABLES
    startError,   \* start_error_: the updater is dead, with this text
    sparkle,      \* stage of Sparkle's session
    driver,       \* the user driver's reply blocks, pending offer and lengths
    alive,        \* the facades that exist
    snapshot,     \* snapshot_ of each facade's state machine
    skipped,      \* skipped_version_ of each
    row           \* what the About page of each was last told; NoPage: no page

vars == <<startError, sparkle, driver, alive, snapshot, skipped, row>>

Unavailable == {"tag", "sign"}

Idle == [status |-> "idle", version |-> NoVersion, progress |-> 0, error |-> {}]
-----------------------------------------------------------------------------
(* The state machine: one event applied to one snapshot. *)
OnCheckStarted(s, skip, e) == [Idle EXCEPT !.status = "checking"]

OnUpToDate(s, skip, e) == IF s.status = "checking" THEN [s EXCEPT !.status = "upToDate"] ELSE s

SkippedIsSilent(s, skip, e) ==
    IF s.status \in {"downloading", "ready"} \/ e.version = skip THEN s
    ELSE [Idle EXCEPT !.status = "available", !.version = e.version]
SkipForgotten(s, skip, e) ==
    IF s.status \in {"downloading", "ready"} THEN s
    ELSE [Idle EXCEPT !.status = "available", !.version = e.version]
OnUpdateFound(s, skip, e) ==
    IF s.status \in {"downloading", "ready"} THEN s
    ELSE IF e.version = skip
         THEN IF s.status = "checking" THEN [s EXCEPT !.status = "upToDate"] ELSE s
    ELSE [Idle EXCEPT !.status = "available", !.version = e.version]

OnDownloadStarted(s, skip, e) ==
    IF s.status = "available" THEN [s EXCEPT !.status = "downloading", !.progress = 0] ELSE s

(* Progress in per cent, clamped. *)
OnDownloadProgress(s, skip, e) ==
    IF s.status = "downloading" /\ e.total > 0
    THEN [s EXCEPT !.progress =
            IF e.received > e.total THEN 100 ELSE (100 * e.received) \div e.total]
    ELSE s

OnReadyToInstall(s, skip, e) ==
    IF s.status = "downloading" THEN [s EXCEPT !.status = "ready", !.progress = 100] ELSE s

OnError(s, skip, e) == [s EXCEPT !.status = "error", !.error = e.error]

OnEvent(s, skip, e) ==
    CASE e.type = "checkStarted"     -> OnCheckStarted(s, skip, e)
      [] e.type = "upToDate"         -> OnUpToDate(s, skip, e)
      [] e.type = "updateFound"      -> OnUpdateFound(s, skip, e)
      [] e.type = "downloadStarted"  -> OnDownloadStarted(s, skip, e)
      [] e.type = "downloadProgress" -> OnDownloadProgress(s, skip, e)
      [] e.type = "readyToInstall"   -> OnReadyToInstall(s, skip, e)
      [] e.type = "error"            -> OnError(s, skip, e)

Event(t) == [type |-> t, version |-> NoVersion, error |-> {}, received |-> 0, total |-> 0]
Found(v) == [Event("updateFound") EXCEPT !.version = v]
Failed(t) == [Event("error") EXCEPT !.error = t]
-----------------------------------------------------------------------------
(* The About row of a snapshot. *)
ClassifyUpdateError(text) ==
    IF "tag" \in text THEN "unavailable"
    ELSE IF "sign" \in text THEN "signatureFailed"
    ELSE IF "install" \in text THEN "installFailed"
    ELSE IF "download" \in text THEN "downloadFailed"
    ELSE "checkFailed"

BlankRow(s) == [status |-> s, version |-> NoVersion, progress |-> 0,
                message |-> "", retry |-> FALSE]
NoPage == BlankRow("noPage")
NothingYet == BlankRow("nothingYet")

MapSnapshot(s) ==
    [status   |-> s.status,
     version  |-> s.version,
     progress |-> IF s.status = "downloading" THEN s.progress ELSE 0,
     message  |-> IF s.status = "error" THEN ClassifyUpdateError(s.error) ELSE "",
     retry    |-> /\ s.status = "error"
                  /\ ClassifyUpdateError(s.error) \notin {"signatureFailed", "unavailable"}]

(* OnSnapshot: the idle snapshot is not shown. *)
OnSnapshot(r, s) == IF r = NoPage \/ s.status = "idle" THEN r ELSE MapSnapshot(s)

(* The owner's broadcast: every live facade applies it and tells its page; r are *)
(* the pages' rows so far.                                                        *)
Broadcast(e, r) ==
    LET new(f) == IF f \in alive THEN OnEvent(snapshot[f], skipped[f], e) ELSE snapshot[f]
    IN  /\ snapshot' = [f \in Facades |-> new(f)]
        /\ row' = [f \in Facades |-> OnSnapshot(r[f], new(f))]

NotifySinks(e) == Broadcast(e, row)
-----------------------------------------------------------------------------
(* A facade is built: the start error and the pending offer are replayed. *)
NoReplay(skip) == IF startError = {} THEN Idle ELSE OnEvent(Idle, skip, Failed(startError))
AddEventSink(skip) ==
    LET told == IF startError = {} THEN Idle ELSE OnEvent(Idle, skip, Failed(startError))
    IN  IF driver.pending = NoVersion THEN told
        ELSE OnEvent(told, skip, Found(driver.pending))

CreateFacade(f) ==
    /\ f \notin alive
    /\ alive' = alive \cup {f}
    /\ snapshot' = [snapshot EXCEPT ![f] = AddEventSink(skipped[f])]
    /\ UNCHANGED <<startError, sparkle, driver, skipped, row>>

DestroyFacade(f) ==
    /\ f \in alive
    /\ alive' = alive \ {f}
    /\ snapshot' = [snapshot EXCEPT ![f] = Idle]
    /\ skipped' = [skipped EXCEPT ![f] = NoVersion]
    /\ row' = [row EXCEPT ![f] = NoPage]
    /\ UNCHANGED <<startError, sparkle, driver>>

(* SubscribeToSnapshots: the subscriber hears the current snapshot at once. *)
SubscribedSilently(f) == NothingYet
SubscribeToSnapshots(f) == OnSnapshot(NothingYet, snapshot[f])

ShowUpdateInFocus(r) == Broadcast(Found(driver.pending), r)

(* The page asks for a check: it subscribes the first time, then the owner asks *)
(* Sparkle.  With a session open Sparkle brings the pending offer into focus.   *)
CheckForUpdate(f) ==
    /\ f \in alive
    /\ LET r == IF row[f] = NoPage THEN [row EXCEPT ![f] = SubscribeToSnapshots(f)] ELSE row
       IN  IF driver.pending # NoVersion
           THEN ShowUpdateInFocus(r) /\ UNCHANGED sparkle
           ELSE /\ row' = r
                /\ sparkle' = IF startError = {} /\ sparkle = "idle" THEN "asked" ELSE sparkle
                /\ UNCHANGED snapshot
    /\ UNCHANGED <<startError, driver, alive, skipped>>

ClosePage(f) ==
    /\ row[f] # NoPage
    /\ row' = [row EXCEPT ![f] = NoPage]
    /\ UNCHANGED <<startError, sparkle, driver, alive, snapshot, skipped>>

Shows(f, status) == row[f].status = status

(* Consumption invalidates before it invokes; without a reply it does nothing. *)
ConsumeFoundReply(choice) ==
    /\ driver' = IF driver.foundReply
                 THEN [driver EXCEPT !.foundReply = FALSE, !.pending = NoVersion]
                 ELSE driver
    /\ sparkle' = IF driver.foundReply THEN choice ELSE sparkle

CommandDownload(f) ==
    /\ Shows(f, "available")
    /\ ConsumeFoundReply("accepted")
    /\ UNCHANGED <<startError, alive, snapshot, skipped, row>>

CommandSkipVersion(f) ==
    /\ Shows(f, "available")
    /\ skipped' = [skipped EXCEPT ![f] = row[f].version]
    /\ ConsumeFoundReply("skipping")
    /\ UNCHANGED <<startError, alive, snapshot, row>>

CommandInstallAndRelaunch(f) ==
    /\ Shows(f, "ready")
    /\ driver' = [driver EXCEPT !.readyReply = FALSE]
    /\ sparkle' = IF driver.readyReply /\ sparkle = "ready" THEN "installing" ELSE sparkle
    /\ UNCHANGED <<startError, alive, snapshot, skipped, row>>
-----------------------------------------------------------------------------
(* The callbacks Sparkle makes on the driver, in the order of a session. *)
BackgroundCheck ==
    /\ startError = {} /\ sparkle = "idle"
    /\ sparkle' = "scheduled"
    /\ UNCHANGED <<startError, driver, alive, snapshot, skipped, row>>

ShowUserInitiatedUpdateCheck ==
    /\ sparkle = "asked" /\ sparkle' = "checking"
    /\ NotifySinks(Event("checkStarted"))
    /\ UNCHANGED <<startError, driver, alive, skipped>>

ShowUpdateFound(v) ==
    /\ sparkle \in {"checking", "scheduled"} /\ sparkle' = "offer"
    /\ driver' = [driver EXCEPT !.foundReply = TRUE, !.pending = v]
    /\ NotifySinks(Found(v))
    /\ UNCHANGED <<startError, alive, skipped>>

(* A scheduled check that finds nothing, or fails, is not reported. *)
ScheduledCheckEnds ==
    /\ sparkle = "scheduled" /\ sparkle' = "idle"
    /\ UNCHANGED <<startError, driver, alive, snapshot, skipped, row>>

DropPendingOffer == [driver EXCEPT !.pending = NoVersion, !.foundReply = FALSE]

ShowUpdateNotFound ==
    /\ sparkle = "checking" /\ sparkle' = "ending"
    /\ driver' = DropPendingOffer
    /\ NotifySinks(Event("upToDate"))
    /\ UNCHANGED <<startError, alive, skipped>>

ShowUpdaterError(t) ==
    /\ sparkle \in {"checking", "offer", "accepted", "downloading", "receiving",
                   "installing"}
    /\ sparkle' = "ending"
    /\ driver' = DropPendingOffer
    /\ NotifySinks(Failed(t))
    /\ UNCHANGED <<startError, alive, skipped>>

ShowDownloadInitiated ==
    /\ sparkle = "accepted" /\ sparkle' = "downloading"
    /\ driver' = [driver EXCEPT !.pending = NoVersion]
    /\ NotifySinks(Event("downloadStarted"))
    /\ UNCHANGED <<startError, alive, skipped>>

(* Sparkle announces the length at most once, before the first piece. *)
DidReceiveExpectedContentLength(n) ==
    /\ sparkle = "downloading" /\ sparkle' = "receiving"
    /\ driver' = [driver EXCEPT !.expected = n]
    /\ UNCHANGED <<startError, alive, snapshot, skipped, row>>

Received(n) == driver.received + n

DidReceiveDataOfLength(n) ==
    /\ sparkle \in {"downloading", "receiving"} /\ sparkle' = "receiving"
    /\ Received(n) <= MaxReceived
    /\ driver' = [driver EXCEPT !.received = Received(n)]
    /\ NotifySinks([Event("downloadProgress")
                      EXCEPT !.received = Received(n), !.total = driver.expected])
    /\ UNCHANGED <<startError, alive, skipped>>

ShowReadyToInstall ==
    /\ sparkle = "receiving" /\ sparkle' = "ready"
    /\ driver' = [driver EXCEPT !.readyReply = TRUE]
    /\ NotifySinks(Event("readyToInstall"))
    /\ UNCHANGED <<startError, alive, skipped>>

(* The session is torn down, after an answer or without one; no event. *)
DismissUpdateInstallation ==
    /\ sparkle \in {"ending", "skipping", "offer", "downloading", "receiving", "ready",
                   "installing"}
    /\ sparkle' = "idle"
    /\ driver' = DropPendingOffer
    /\ UNCHANGED <<startError, alive, snapshot, skipped, row>>

Init ==
    /\ startError \in {{}, Unavailable}
    /\ sparkle = "idle"
    /\ driver = [foundReply |-> FALSE, readyReply |-> FALSE, pending |-> NoVersion,
                 expected |-> 0, received |-> 0]
    /\ alive = {}
    /\ snapshot = [f \in Facades |-> Idle]
    /\ skipped = [f \in Facades |-> NoVersion]
    /\ row = [f \in Facades |-> NoPage]

SparkleAnswers ==
    \/ \E v \in Versions : ShowUpdateFound(v)
    \/ ShowUpdateNotFound
    \/ \E t \in ErrorTexts : ShowUpdaterError(t)

Next ==
    \/ \E f \in Facades : \/ CreateFacade(f) \/ DestroyFacade(f)
                          \/ CheckForUpdate(f) \/ ClosePage(f)
                          \/ CommandDownload(f) \/ CommandSkipVersion(f)
                          \/ CommandInstallAndRelaunch(f)
    \/ BackgroundCheck \/ ShowUserInitiatedUpdateCheck \/ SparkleAnswers
    \/ ScheduledCheckEnds
    \/ ShowDownloadInitiated
    \/ \E n \in Expected : DidReceiveExpectedContentLength(n)
    \/ \E n \in Chunks : DidReceiveDataOfLength(n)
    \/ ShowReadyToInstall \/ DismissUpdateInstallation

(* Sparkle answers every check it has announced; nothing else has to happen. *)
Spec == Init /\ [][Next]_vars /\ WF_vars(SparkleAnswers /\ sparkle = "checking")
-----------------------------------------------------------------------------
Statuses == {"idle", "checking", "upToDate", "available", "downloading", "ready", "error"}

Snapshots == [status : Statuses, version : Versions \cup {NoVersion},
              progress : 0..100, error : ErrorTexts \cup {{}, Unavailable}]

(* Every variable has its type; a facade's progress is a percentage. *)
TypeOK ==
    /\ startError \in {{}, Unavailable}
    /\ sparkle \in {"idle", "asked", "checking", "scheduled", "offer", "accepted", "skipping",
                    "downloading", "receiving", "ready", "installing", "ending"}
    /\ driver \in [foundReply : BOOLEAN, readyReply : BOOLEAN,
                   pending : Versions \cup {NoVersion}, expected : Expected \cup {0},
                   received : Nat]
    /\ alive \subseteq Facades
    /\ snapshot \in [Facades -> Snapshots]
    /\ skipped \in [Facades -> Versions \cup {NoVersion}]

(* The pending offer is kept exactly as long as its reply block, and the reply     *)
(* block exactly as long as Sparkle waits for it (roamux_update_user_driver.h): it *)
(* runs at most once, however many profiles click on the same offer.               *)
OfferIsLive ==
    /\ driver.foundReply <=> (sparkle = "offer")
    /\ driver.foundReply <=> (driver.pending # NoVersion)

(* An offer Sparkle waits on is seen by every facade, whoever asked and whenever    *)
(* the facade was built: it hides the offer only when its profile skipped that      *)
(* version, or while it shows a download whose end it was never told of.            *)
OfferReachesEveryFacade ==
    driver.pending # NoVersion =>
        \A f \in alive :
            \/ snapshot[f].status = "available" /\ snapshot[f].version = driver.pending
            \/ skipped[f] = driver.pending
            \/ snapshot[f].status \in {"downloading", "ready"}

(* The row of an open page is always the row of the machine's current snapshot, and *)
(* it never falls back to an empty one.                                             *)
RowFollowsMachine ==
    \A f \in Facades :
        row[f] # NoPage =>
            row[f] = IF snapshot[f].status = "idle" THEN NothingYet
                     ELSE MapSnapshot(snapshot[f])

(* A dead updater is what every row says for the life of the process, with no        *)
(* retry, although Sparkle's own text for it may read like a signature failure.      *)
DeadUpdaterReported ==
    startError # {} =>
        \A f \in alive : LET r == MapSnapshot(snapshot[f])
                         IN  r.status = "error" /\ r.message = "unavailable" /\ ~r.retry

(* A version a profile skipped never surfaces in that facade again.                  *)
SkippedNeverSurfaces ==
    [][\A f \in alive \cap alive' :
         /\ snapshot'[f].status = "available"
         /\ snapshot[f].status # "available" \/ snapshot[f].version # snapshot'[f].version
         => snapshot'[f].version # skipped[f]]_vars

(* A row that says "checking" does not say so for ever.                              *)
CheckIsAnswered ==
    \A f \in Facades : snapshot[f].status = "checking" ~> snapshot[f].status # "checking"

(* The offer of Sparkle's session: its reply is live exactly while Sparkle waits, and *)
(* no facade misses it.                                                              *)
OfferInv == OfferIsLive /\ OfferReachesEveryFacade

(* Each facade's row tells what its machine knows, a dead updater included.          *)
FacadeInv == TypeOK /\ RowFollowsMachine /\ DeadUpdaterReported
=============================================================================
