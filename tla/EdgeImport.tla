----------------------------- MODULE EdgeImport -----------------------------
(***************************************************************************)
(* The browser-side import of an Edge profile: the coordinator             *)
(* (roamux_edge_import_coordinator.cc) with its preflight, the secret      *)
(* stage (roamux_secret_import_stage.mm), the localStorage stage           *)
(* (roamux_origin_storage_import_stage.cc) and, through IndexedDbStage,    *)
(* the IndexedDB stage.                                                    *)
(*                                                                         *)
(* The coordinator lives on the UI thread; each answer it waits for (the   *)
(* preflight, the cookie store, the storage service, the copy) is an       *)
(* action, and whatever the handler goes on to do without waiting is part  *)
(* of it.  Edge is another program: it may start and quit at any time.     *)
(***************************************************************************)
EXTENDS IndexedDbStage, Sequences

CONSTANTS
    Requests,    \* the sets of carriers an import may be asked for
    MaxEntries,  \* bound on passwords, cookies and localStorage entries
    MaxCrashes   \* bound on crashes of the browser

kAllEdgeCarriers == <<"passwords", "cookies", "localStorage", "indexedDb">>
Carrier == {"passwords", "cookies", "localStorage", "indexedDb"}

ASSUME EdgeImportAssumption ==
    /\ Requests \subseteq SUBSET Carrier
    /\ MaxEntries \in Nat /\ MaxCrashes \in Nat

Count == 0..MaxEntries

VARIABLES
    \* Outside the coordinator.
    edge,        \* Edge runs: the SingletonLock exists
    localData,   \* the profile's localStorage holds data
    readable,    \* the secrets whose decryptor got the keychain's key
    \* RoamuxEdgeImportCoordinator.
    step,        \* what it waits for
    carriers,    \* carriers_
    preflight,   \* preflight_
    secret,      \* secret_stage_'s result so far, while there is one
    local,       \* localstorage_stage_: pending_ and accepted_, while there is one
    report,      \* report_, in the order of Add
    delivered,   \* how often done_ was run
    crashes

coordinatorVars == <<step, carriers, preflight, secret, local, report, delivered>>
worldVars == <<edge, localData>>
vars == <<stageVars, worldVars, readable, coordinatorVars, crashes>>

(* What the driver asks for: the secrets the user picked, and always the      *)
(* origins' storage.                                                          *)
MakeEdgeImportItemsPlan(items) ==
    (items \cap {"passwords", "cookies"}) \cup {"localStorage", "indexedDb"}

Outcome(carrier, status, count) == [carrier |-> carrier, status |-> status, count |-> count]

(* report_.Add, where the code asks for it. *)
AddIf(asked, rep, outcome) == IF asked THEN Append(rep, outcome) ELSE rep

(* The report with an outcome for each of the carriers S, nothing imported: a *)
(* loop over kAllEdgeCarriers.                                                *)
AddAll(rep, S, status) ==
    LET add(r, i) == AddIf(kAllEdgeCarriers[i] \in S, r,
                           Outcome(kAllEdgeCarriers[i], status, 0))
    IN  add(add(add(add(rep, 1), 2), 3), 4)

NoPreflight == [running |-> FALSE, available |-> {}, initialized |-> FALSE]
NoSecret == [attempted |-> {}, passwords |-> 0, keychain_available |-> FALSE]
NoLocal == [pending |-> 0, accepted |-> 0]
-----------------------------------------------------------------------------
(* Finish: the report is handed over. *)
Finish(rep) ==
    /\ step' = "done" /\ report' = rep
    /\ delivered' = delivered + 1
    /\ UNCHANGED copy

(* RunIndexedDbStep, with the preflight's facts. *)
MayCopy(pre) == ~pre.running

RunIndexedDbStep(rep, pre) ==
    IF "indexedDb" \notin carriers THEN Finish(rep)
    ELSE IF "indexedDb" \notin pre.available
    THEN Finish(Append(rep, Outcome("indexedDb", "unsupported", 0)))
    ELSE IF ~MayCopy(pre) \/ pre.initialized
    THEN Finish(Append(rep, Outcome("indexedDb", "blocked", 0)))
    ELSE /\ step' = "indexedDb" /\ report' = rep
         /\ copy' = Posted
         /\ UNCHANGED delivered

RunLocalStorageStep(rep, pre) ==
    IF "localStorage" \notin carriers THEN RunIndexedDbStep(rep, pre)
    ELSE IF "localStorage" \notin pre.available
    THEN RunIndexedDbStep(Append(rep, Outcome("localStorage", "unsupported", 0)), pre)
    ELSE step' = "usage" /\ report' = rep /\ UNCHANGED <<copy, delivered>>

(* OnSecretDone: one outcome for each secret that was attempted, and the      *)
(* secret stage is reset, its decryptors with it.                             *)
SecretOutcome(carrier, count, keychain_available, pre) ==
    Outcome(carrier,
            IF ~keychain_available \/ pre.running \/ count = 0 THEN "degraded" ELSE "imported",
            count)

OnSecretDone(rep, pre, s, cookies) ==
    LET withPasswords ==
            AddIf("passwords" \in s.attempted, rep,
                  SecretOutcome("passwords", s.passwords, s.keychain_available, pre))
        withCookies ==
            AddIf("cookies" \in s.attempted, withPasswords,
                  SecretOutcome("cookies", cookies, s.keychain_available, pre))
    IN  /\ RunLocalStorageStep(withCookies, pre)
        /\ secret' = NoSecret /\ readable' = {}

(* The secret stage.  `granted` tells which decryptors get the keychain's     *)
(* key: without it nothing is read.                                           *)
ImportPasswords(granted, n) == IF "passwords" \in granted THEN n ELSE 0
ParseCookies(granted) == IF "cookies" \in granted THEN Count ELSE {0}

(* RoamuxSecretImportStage::Run.  The passwords are read and written at once; *)
(* the result takes keychain_available_ before the cookies' decryptor has set *)
(* it.                                                                        *)
SecretResult(attempted, granted, n) ==
    [attempted |-> attempted,
     passwords |-> IF "passwords" \in attempted THEN ImportPasswords(granted, n) ELSE 0,
     keychain_available |-> "passwords" \in attempted \cap granted]

(* RunSecretStep: cookies, if any, are written asynchronously. *)
RunSecretStep(pre, granted, passwords) ==
    LET wanted == carriers \cap {"passwords", "cookies"}
        attempted == wanted \cap pre.available
        rep == AddAll(report, wanted \ attempted, "unsupported")
        result == SecretResult(attempted, granted, passwords)
    IN  IF attempted = {}
        THEN RunLocalStorageStep(rep, pre) /\ UNCHANGED <<secret, readable>>
        ELSE IF "cookies" \in attempted
        THEN /\ step' = "cookies" /\ report' = rep
             /\ secret' = result /\ readable' = attempted \cap granted
             /\ UNCHANGED <<copy, delivered>>
        ELSE OnSecretDone(rep, pre, result, 0)
-----------------------------------------------------------------------------
(* Run, once per coordinator: with the feature off the report is immediate. *)
Run(requested, enabled) ==
    /\ step = "idle"
    /\ carriers' = requested
    /\ IF enabled THEN step' = "preflight" /\ UNCHANGED <<report, copy, delivered>>
       ELSE Finish(AddAll(report, requested, "feature disabled"))
    /\ UNCHANGED <<source, dest, leftover, worldVars, readable, preflight, secret, local,
                   crashes>>

(* ComputeEdgeImportPreflight runs in the thread pool; `files` are the        *)
(* carriers Edge has data files of (CarrierAvailable)...                      *)
ComputeEdgeImportPreflight(files) ==
    /\ step = "preflight"
    /\ "indexedDb" \in files \/ \A o \in Origin : source[o] = {}
    /\ step' = "preflightReply"
    /\ preflight' = [running |-> edge, available |-> files \cap carriers,
                     initialized |-> "indexedDb" \in carriers /\ DestInitialized]
    /\ UNCHANGED <<stageVars, worldVars, readable, carriers, secret, local, report,
                   delivered, crashes>>

(* ... and its reply runs the secret step. *)
OnPreflightDone(granted, passwords) ==
    /\ step = "preflightReply"
    /\ RunSecretStep(preflight, granted, passwords)
    /\ UNCHANGED <<source, dest, leftover, worldVars, carriers, preflight, local, crashes>>

(* ProfileWriter::AddCookies answers with the number the store accepted. *)
AddCookiesDone(cookies) ==
    /\ step = "cookies"
    /\ cookies \in ParseCookies(readable)
    /\ OnSecretDone(report, preflight, secret, cookies)
    /\ UNCHANGED <<source, dest, leftover, worldVars, carriers, preflight, local, crashes>>

(* GetUsage answers: a profile with localStorage is not overwritten. *)
OnLocalStorageUsageChecked ==
    /\ step = "usage"
    /\ IF localData
       THEN RunIndexedDbStep(Append(report, Outcome("localStorage", "blocked", 0)), preflight)
       ELSE step' = "read" /\ UNCHANGED <<report, copy, delivered>>
    /\ UNCHANGED <<source, dest, leftover, worldVars, readable, carriers, preflight, secret,
                   local, crashes>>

(* OnLocalStorageDone adds the outcome and resets the stage. *)
OnLocalStorageDone(accepted) ==
    /\ RunIndexedDbStep(
           Append(report, Outcome("localStorage",
                                  IF preflight.running \/ accepted = 0 THEN "degraded"
                                  ELSE "imported", accepted)),
           preflight)
    /\ local' = NoLocal

(* OnRead: count the Puts, then send them; with none the stage is done. *)
WaitsForNothing(entries) == FALSE
NothingToPut(entries) == entries = 0

OnRead(entries) ==
    /\ step = "read"
    /\ IF NothingToPut(entries) THEN OnLocalStorageDone(0)
       ELSE /\ step' = "puts" /\ local' = [pending |-> entries, accepted |-> 0]
            /\ UNCHANGED <<report, copy, delivered>>
    /\ UNCHANGED <<source, dest, leftover, worldVars, readable, carriers, preflight, secret,
                   crashes>>

OnPutComplete(success) ==
    LET accepted == local.accepted + (IF success THEN 1 ELSE 0) IN
    /\ step = "puts" /\ local.pending > 0
    /\ localData' = (localData \/ success)
    /\ IF local.pending = 1 THEN OnLocalStorageDone(accepted)
       ELSE /\ local' = [pending |-> local.pending - 1, accepted |-> accepted]
            /\ UNCHANGED <<step, report, copy, delivered>>
    /\ UNCHANGED <<source, dest, leftover, edge, readable, carriers, preflight,
                   secret, crashes>>

(* The copy's reply. *)
OnIndexedDbDone ==
    /\ step = "indexedDb" /\ copy.at = "returned"
    /\ step' = "done"
    /\ report' = Append(report, Outcome("indexedDb",
                            IF copy.count > 0 THEN "imported" ELSE "degraded", copy.count))
    /\ delivered' = delivered + 1
    /\ copy' = NoCopy
    /\ UNCHANGED <<source, dest, leftover, worldVars, readable, carriers, preflight, secret,
                   local, crashes>>
-----------------------------------------------------------------------------
(* The world around: Edge, the pages of the profile, and a crash.  A crash    *)
(* ends the import; what is on disk stays, and the user may import again.     *)
EdgeSwitches ==
    /\ edge' = ~edge
    /\ UNCHANGED <<stageVars, localData, readable, coordinatorVars, crashes>>

PageWritesLocalStorage ==
    /\ ~localData
    /\ localData' = TRUE
    /\ UNCHANGED <<stageVars, edge, readable, coordinatorVars, crashes>>

PageOpensStore ==
    /\ \E o \in Origin, m \in Member : BrowserCreates(o, m)
    /\ UNCHANGED <<worldVars, readable, coordinatorVars, crashes>>

Copying ==
    /\ CopyStep
    /\ UNCHANGED <<worldVars, readable, coordinatorVars, crashes>>

CoordinatorInit ==
    /\ step = "idle" /\ carriers = {} /\ preflight = NoPreflight /\ secret = NoSecret
    /\ local = NoLocal /\ report = <<>> /\ delivered = 0 /\ readable = {}

Crash ==
    /\ crashes < MaxCrashes /\ step # "idle"
    /\ crashes' = crashes + 1
    /\ step' = "idle" /\ carriers' = {} /\ preflight' = NoPreflight /\ secret' = NoSecret
    /\ local' = NoLocal /\ report' = <<>> /\ delivered' = 0 /\ readable' = {}
    /\ copy' = NoCopy
    /\ UNCHANGED <<source, dest, leftover, worldVars>>

Init ==
    /\ StageInit
    /\ edge \in BOOLEAN
    /\ localData \in BOOLEAN
    /\ CoordinatorInit
    /\ crashes = 0

Reply ==
    \/ \E files \in SUBSET Carrier : ComputeEdgeImportPreflight(files)
    \/ \E granted \in SUBSET {"passwords", "cookies"}, n \in Count : OnPreflightDone(granted, n)
    \/ \E n \in Count : AddCookiesDone(n)
    \/ OnLocalStorageUsageChecked
    \/ \E n \in Count : OnRead(n)
    \/ \E success \in BOOLEAN : OnPutComplete(success)
    \/ OnIndexedDbDone

Next ==
    \/ \E requested \in Requests, enabled \in BOOLEAN : Run(requested, enabled)
    \/ Reply \/ Copying
    \/ EdgeSwitches \/ PageWritesLocalStorage \/ PageOpensStore \/ Crash

Spec == Init /\ [][Next]_vars

(* Posted tasks and the storage service answer, and the copy goes on. *)
FairSpec == Spec /\ WF_vars(Reply) /\ WF_vars(Copying)
-----------------------------------------------------------------------------
(* Every variable has its type. *)
TypeOK ==
    /\ StageTypeOK
    /\ edge \in BOOLEAN /\ localData \in BOOLEAN /\ readable \subseteq Carrier
    /\ step \in {"idle", "preflight", "preflightReply", "cookies", "usage", "read", "puts",
                 "indexedDb", "done"}
    /\ carriers \subseteq Carrier
    /\ preflight \in [running : BOOLEAN, available : SUBSET Carrier, initialized : BOOLEAN]
    /\ secret \in [attempted : SUBSET Carrier, passwords : Count,
                   keychain_available : BOOLEAN]
    /\ local \in [pending : Count, accepted : Count]
    /\ \A i \in DOMAIN report :
          report[i] \in [carrier : Carrier, count : Nat,
                         status : {"imported", "blocked", "degraded", "unsupported",
                                   "feature disabled"}]
    /\ delivered \in 0..1 /\ crashes \in 0..MaxCrashes

(* The report of a finished import: nothing is dropped and nothing is told    *)
(* twice.  Whatever path the steps took, each requested carrier has one       *)
(* outcome, no other carrier has one, and done_ was run once.                 *)
OneOutcomePerCarrier ==
    step = "done" =>
        /\ delivered = 1
        /\ \A c \in Carrier :
              Cardinality({i \in DOMAIN report : report[i].carrier = c})
                = IF c \in carriers THEN 1 ELSE 0

(* The import never replaces or deletes a store that a page of the profile    *)
(* made, also not one that appears between the checks and the renames.        *)
PageStoresSurvive ==
    [][\A o \in Origin, m \in Member :
          dest[o][m] = "browser" => dest'[o][m] = "browser"]_vars

(* Imported whole or not at all, but for the origin being published. *)
OriginsAreWhole == \A o \in Origin \ {copy.origin} : Imported(o) \in {{}, source[o]}

(* As long as the browser has not crashed, an origin's store is imported      *)
(* whole or not at all, except while its directories are being published.     *)
WholeOrigins == crashes = 0 => OriginsAreWhole

(* What the report says of IndexedDB is what is on disk: the count is the     *)
(* number of origins imported, and a carrier that was not attempted left      *)
(* nothing behind, no staging root either.                                    *)
CountMatchesDisk ==
    step = "done" /\ crashes = 0 =>
        /\ ~leftover
        /\ \A o \in Origin : Imported(o) # {} => "indexedDb" \in carriers
        /\ \A i \in DOMAIN report : report[i].carrier = "indexedDb" =>
              report[i].count = Cardinality({o \in Origin : Imported(o) # {}})

(* Every import ends with its report, whatever fails on the way. *)
ImportEnds == step # "idle" ~> step \in {"done", "idle"}

(* The report is complete and true.                                           *)
ReportInv == TypeOK /\ OneOutcomePerCarrier /\ CountMatchesDisk
=============================================================================
