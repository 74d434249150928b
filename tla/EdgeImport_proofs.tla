-------------------------- MODULE EdgeImport_proofs --------------------------
(***************************************************************************)
(* What an Edge import does to the profile's IndexedDB/, and what its      *)
(* report tells of it, for any number of origins, directories, entries,    *)
(* starts of Edge and crashes.                                             *)
(***************************************************************************)
EXTENDS EdgeImport, FiniteSetTheorems, TLAPS

(* What CopyStores knows while it publishes an origin: which origin, and that *)
(* the directories on its list are the ones it made itself.                   *)
InProgress ==
    /\ copy.at = "publish" => copy.origin \in Origin
    /\ copy.at # "publish" => copy.origin = NoOrigin /\ copy.published = {}
    /\ \A m \in copy.published : dest[copy.origin][m] = "import"

StageInv == StageTypeOK /\ InProgress

(* The coordinator never starts a copy, or drops one, that is under way. *)
OneCopy == copy.at # "none" => step = "indexedDb"

DiskInv == StageInv /\ OneCopy
-----------------------------------------------------------------------------
LEMMA StartsSafe == Init => DiskInv
<1> SUFFICES ASSUME Init PROVE DiskInv
  OBVIOUS
<1>1. copy = NoCopy /\ source \in [Origin -> SUBSET Member] /\ leftover \in BOOLEAN
      /\ dest \in [Origin -> [Member -> {"none", "browser"}]]
  BY DEF Init, StageInit
<1>2. dest \in [Origin -> [Member -> {"none", "browser", "import"}]]
  <2>1. \A o \in Origin : dest[o] \in [Member -> {"none", "browser", "import"}]
    BY <1>1
  <2> QED BY <1>1, <2>1
<1>3. StageTypeOK
  BY <1>1, <1>2 DEF StageTypeOK, NoCopy
<1>4. InProgress /\ OneCopy
  BY <1>1 DEF InProgress, OneCopy, NoCopy
<1> QED BY <1>3, <1>4 DEF DiskInv, StageInv

(* A fresh record of a copy satisfies the stage's invariant whatever is on    *)
(* disk.                                                                      *)
LEMMA FreshCopySafe ==
  ASSUME StageInv, UNCHANGED <<source, dest>>, leftover' \in BOOLEAN,
         copy' \in {NoCopy, Posted}
  PROVE  StageInv'
BY DEF StageInv, StageTypeOK, InProgress, NoCopy, Posted

(* RunIndexedDbStep starts a copy or finishes. *)
LEMMA IndexedDbStepPosts ==
  ASSUME NEW rep, NEW pre, RunIndexedDbStep(rep, pre)
  PROVE  copy' = copy \/ (copy' = Posted /\ step' = "indexedDb")
BY DEF RunIndexedDbStep, Finish

LEMMA LocalStorageStepPosts ==
  ASSUME NEW rep, NEW pre, RunLocalStorageStep(rep, pre)
  PROVE  copy' = copy \/ (copy' = Posted /\ step' = "indexedDb")
<1>1. CASE "localStorage" \notin carriers
  BY <1>1, IndexedDbStepPosts DEF RunLocalStorageStep
<1>2. CASE "localStorage" \in carriers /\ "localStorage" \notin pre.available
  BY <1>2, IndexedDbStepPosts DEF RunLocalStorageStep
<1>3. CASE "localStorage" \in carriers /\ "localStorage" \in pre.available
  BY <1>3 DEF RunLocalStorageStep
<1> QED BY <1>1, <1>2, <1>3

LEMMA SecretDonePosts ==
  ASSUME NEW rep, NEW pre, NEW s, NEW cookies, OnSecretDone(rep, pre, s, cookies)
  PROVE  copy' = copy \/ (copy' = Posted /\ step' = "indexedDb")
BY LocalStorageStepPosts DEF OnSecretDone

LEMMA SecretStepPosts ==
  ASSUME NEW pre, NEW granted, NEW passwords, RunSecretStep(pre, granted, passwords)
  PROVE  copy' = copy \/ (copy' = Posted /\ step' = "indexedDb")
BY LocalStorageStepPosts, SecretDonePosts DEF RunSecretStep

(* What a step of the coordinator does to the copy, and nothing to the disk.  *)
CoordinatorStep ==
    /\ UNCHANGED <<source, dest, leftover, crashes>>
    /\ \/ copy' = copy /\ step # "indexedDb"
       \/ copy' = Posted /\ step # "indexedDb" /\ step' = "indexedDb"
       \/ copy' = NoCopy /\ copy.at = "returned"

LEMMA CoordinatorSteps ==
  ASSUME Reply \/ \E requested \in Requests, enabled \in BOOLEAN : Run(requested, enabled)
  PROVE  CoordinatorStep
<1>1. ASSUME NEW requested \in Requests, NEW enabled \in BOOLEAN, Run(requested, enabled)
      PROVE  CoordinatorStep
  BY <1>1 DEF Run, Finish, CoordinatorStep
<1>2. ASSUME NEW files, ComputeEdgeImportPreflight(files)
      PROVE  CoordinatorStep
  BY <1>2 DEF ComputeEdgeImportPreflight, CoordinatorStep, stageVars
<1>3. ASSUME NEW granted, NEW n, OnPreflightDone(granted, n)
      PROVE  CoordinatorStep
  BY <1>3, SecretStepPosts DEF OnPreflightDone, CoordinatorStep
<1>4. ASSUME NEW n, AddCookiesDone(n)
      PROVE  CoordinatorStep
  BY <1>4, SecretDonePosts DEF AddCookiesDone, CoordinatorStep
<1>5. CASE OnLocalStorageUsageChecked
  BY <1>5, IndexedDbStepPosts DEF OnLocalStorageUsageChecked, CoordinatorStep
<1>6. ASSUME NEW n, OnRead(n)
      PROVE  CoordinatorStep
  BY <1>6, IndexedDbStepPosts DEF OnRead, OnLocalStorageDone, CoordinatorStep
<1>7. ASSUME NEW success, OnPutComplete(success)
      PROVE  CoordinatorStep
  BY <1>7, IndexedDbStepPosts DEF OnPutComplete, OnLocalStorageDone, CoordinatorStep
<1>8. CASE OnIndexedDbDone
  BY <1>8 DEF OnIndexedDbDone, CoordinatorStep
<1> QED BY <1>1, <1>2, <1>3, <1>4, <1>5, <1>6, <1>7, <1>8 DEF Reply
-----------------------------------------------------------------------------
(* A step of CopyStores keeps its invariant, and a directory that a page made *)
(* stays as it is: the rename fails where one exists, and a rollback deletes  *)
(* what is on the list and no more.                                           *)
KeepsPageStores ==
    \A o \in Origin, m \in Member : dest[o][m] = "browser" => dest'[o][m] = "browser"

LEMMA CopyKeepsStores ==
  ASSUME StageInv, CopyStep
  PROVE  StageInv' /\ KeepsPageStores /\ copy.at # "none" /\ copy'.at # "none"
<1> USE DEF StageInv, StageTypeOK, InProgress, KeepsPageStores
<1>1. CASE CopyBegins
  BY <1>1 DEF CopyBegins
<1>2. CASE CopyCannotBegin
  BY <1>2 DEF CopyCannotBegin
<1>3. ASSUME NEW o \in Origin, SkipOrigin(o)
      PROVE  StageInv' /\ KeepsPageStores /\ copy.at # "none" /\ copy'.at # "none"
  BY <1>3 DEF SkipOrigin
<1>4. ASSUME NEW o \in Origin, StageOrigin(o)
      PROVE  StageInv' /\ KeepsPageStores /\ copy.at # "none" /\ copy'.at # "none"
  BY <1>4 DEF StageOrigin
<1>5. ASSUME NEW m \in Member, PublishMember(m)
      PROVE  StageInv' /\ KeepsPageStores /\ copy.at # "none" /\ copy'.at # "none"
  BY <1>5 DEF PublishMember, CanPublish
<1>6. CASE PublishFails
  BY <1>6 DEF PublishFails, RollBack
<1>7. CASE OriginDone
  <2>1. /\ copy'.at = "next" /\ copy'.origin = NoOrigin /\ copy'.staged = {}
        /\ copy'.published = {} /\ copy'.todo = copy.todo /\ copy'.count = copy.count + 1
        /\ copy.at = "publish"
        /\ UNCHANGED <<source, dest, leftover>>
    BY <1>7 DEF OriginDone
  <2> HIDE DEF StageInv, InProgress, StageTypeOK, KeepsPageStores
  <2> DEFINE R == [at : {"none", "posted", "next", "publish", "returned"},
                   todo : SUBSET Origin, origin : Origin \cup {NoOrigin},
                   staged : SUBSET Member, published : SUBSET Member, count : Nat]
  <2>2. copy \in R
    BY DEF StageInv, StageTypeOK
  <2>3. copy.count + 1 \in Nat
    BY <2>2
  <2>4. copy' = [copy EXCEPT !.at = "next", !.origin = NoOrigin, !.staged = {},
                             !.published = {}, !.count = copy.count + 1]
    BY <1>7 DEF OriginDone
  <2>5. copy' \in R
    BY <2>2, <2>3, <2>4
  <2> USE DEF StageInv, InProgress, StageTypeOK, KeepsPageStores
  <2> QED BY <2>1, <2>5
<1>8. CASE CopyReturns
  BY <1>8 DEF CopyReturns
<1> QED BY <1>1, <1>2, <1>3, <1>4, <1>5, <1>6, <1>7, <1>8 DEF CopyStep

LEMMA PageKeepsStores ==
  ASSUME StageInv, NEW o \in Origin, NEW m \in Member, BrowserCreates(o, m)
  PROVE  StageInv' /\ KeepsPageStores /\ copy' = copy
BY DEF StageInv, StageTypeOK, InProgress, KeepsPageStores, BrowserCreates

LEMMA StepKeepsStores ==
  ASSUME DiskInv, [Next]_vars
  PROVE  DiskInv' /\ (UNCHANGED vars \/ KeepsPageStores)
<1> USE DEF DiskInv
<1>1. CASE CoordinatorStep
  <2>1. StageInv'
    <3>1. CASE copy' = copy
      BY <1>1, <3>1 DEF CoordinatorStep, StageInv, StageTypeOK, InProgress
    <3>2. CASE copy' \in {NoCopy, Posted}
      BY <1>1, <3>2, FreshCopySafe DEF CoordinatorStep, StageInv, StageTypeOK
    <3> QED BY <1>1, <3>1, <3>2 DEF CoordinatorStep
  <2>2. OneCopy'
    BY <1>1 DEF CoordinatorStep, OneCopy, NoCopy
  <2> QED BY <1>1, <2>1, <2>2 DEF CoordinatorStep, KeepsPageStores
<1>2. CASE Copying
  BY <1>2, CopyKeepsStores DEF Copying, coordinatorVars, OneCopy
<1>3. CASE PageOpensStore
  BY <1>3, PageKeepsStores DEF PageOpensStore, coordinatorVars, OneCopy
<1>4. CASE EdgeSwitches \/ PageWritesLocalStorage \/ UNCHANGED vars
  <2>1. UNCHANGED <<stageVars, step>>
    BY <1>4 DEF EdgeSwitches, PageWritesLocalStorage, vars, coordinatorVars
  <2> QED
    BY <2>1 DEF stageVars, StageInv, StageTypeOK, InProgress, OneCopy, KeepsPageStores
<1>5. CASE Crash
  <2>1. UNCHANGED <<source, dest, leftover>> /\ copy' = NoCopy
    BY <1>5 DEF Crash
  <2>2. StageInv'
    BY <2>1, FreshCopySafe DEF StageInv, StageTypeOK
  <2> QED BY <2>1, <2>2 DEF OneCopy, NoCopy, KeepsPageStores
<1> QED BY <1>1, <1>2, <1>3, <1>4, <1>5, CoordinatorSteps DEF Next

(* The import never replaces or deletes a store that a page of the profile    *)
(* made, whatever the interleaving, with any number of crashes and imports.   *)
THEOREM PageStoresSurviveAlways == Spec => PageStoresSurvive
<1>1. Init => DiskInv
  BY StartsSafe
<1>2. DiskInv /\ [Next]_vars => DiskInv'
  BY StepKeepsStores
<1>3. DiskInv /\ [Next]_vars =>
        [\A o \in Origin, m \in Member :
            dest[o][m] = "browser" => dest'[o][m] = "browser"]_vars
  BY StepKeepsStores DEF KeepsPageStores
<1> QED BY <1>1, <1>2, <1>3, PTL DEF Spec, PageStoresSurvive
-----------------------------------------------------------------------------
(* For whole origins: what has been published is on the list, and what was    *)
(* staged is all there is.                                                    *)
ListIsExact ==
    copy.at = "publish" =>
        Imported(copy.origin) = copy.published /\ copy.staged = source[copy.origin]

WholeInv == DiskInv /\ crashes \in Nat /\ (crashes = 0 => OriginsAreWhole /\ ListIsExact)

LEMMA CopyKeepsWhole ==
  ASSUME WholeInv, crashes = 0, CopyStep, StageInv'
  PROVE  OriginsAreWhole' /\ ListIsExact'
<1> USE DEF WholeInv, DiskInv, StageInv, StageTypeOK, InProgress
<1>1. CASE UNCHANGED <<source, dest>> /\ copy.at # "publish" /\ copy'.at # "publish"
  BY <1>1 DEF OriginsAreWhole, ListIsExact, Imported
<1>2. CASE CopyBegins \/ CopyCannotBegin \/ CopyReturns \/ \E o \in Origin : SkipOrigin(o)
  BY <1>1, <1>2 DEF CopyBegins, CopyCannotBegin, CopyReturns, SkipOrigin
<1>3. ASSUME NEW o \in Origin, StageOrigin(o)
      PROVE  OriginsAreWhole' /\ ListIsExact'
  <2>1. Imported(o) = {}
    BY <1>3, IndexedDbStageAssumption DEF StageOrigin, OriginsAreWhole, Imported
  <2> QED BY <1>3, <2>1, IndexedDbStageAssumption
          DEF StageOrigin, OriginsAreWhole, ListIsExact, Imported
<1>4. ASSUME NEW m \in Member, PublishMember(m)
      PROVE  OriginsAreWhole' /\ ListIsExact'
  <2>1. /\ copy'.origin = copy.origin /\ copy'.staged = copy.staged
        /\ copy'.published = copy.published \cup {m} /\ copy.origin \in Origin
        /\ copy.at = "publish" /\ UNCHANGED source
    BY <1>4 DEF PublishMember
  <2>2. \A o \in Origin \ {copy.origin} : Imported(o)' = Imported(o)
    BY <1>4, <2>1 DEF PublishMember, Imported
  <2>3. Imported(copy.origin)' = Imported(copy.origin) \cup {m}
    BY <1>4, <2>1 DEF PublishMember, Imported
  <2> QED BY <2>1, <2>2, <2>3 DEF OriginsAreWhole, ListIsExact
<1>5. CASE PublishFails
  <2>1. PICK q \in Origin : q = copy.origin
    BY <1>5 DEF PublishFails
  <2>2. \A o \in Origin \ {q} : Imported(o)' = Imported(o)
    BY <1>5, <2>1 DEF PublishFails, RollBack, Imported
  <2>3. \A m \in Member : dest'[q][m] = IF m \in copy.published THEN "none" ELSE dest[q][m]
    BY <1>5, <2>1 DEF PublishFails, RollBack
  <2>4. Imported(q)' = {}
    BY <1>5, <2>1, <2>3 DEF PublishFails, Imported, ListIsExact
  <2> QED BY <1>5, <2>1, <2>2, <2>4 DEF PublishFails, OriginsAreWhole, ListIsExact
<1>6. CASE OriginDone
  <2>1. \A o \in Origin : Imported(o)' = Imported(o)
    BY <1>6 DEF OriginDone, Imported
  <2> QED BY <1>6, <2>1 DEF OriginDone, OriginsAreWhole, ListIsExact
<1> QED BY <1>2, <1>3, <1>4, <1>5, <1>6 DEF CopyStep

LEMMA StepKeepsWhole ==
  ASSUME WholeInv, [Next]_vars
  PROVE  WholeInv'
<1>1. DiskInv'
  BY StepKeepsStores DEF WholeInv
<1>2. crashes' \in Nat /\ (crashes' = 0 => crashes = 0 /\ ~Crash)
  <2>1. CASE Crash
    BY <2>1 DEF Crash, WholeInv
  <2>2. CASE UNCHANGED crashes
    BY <2>2 DEF WholeInv, Crash
  <2> QED
    BY <2>1, <2>2, CoordinatorSteps DEF Next, CoordinatorStep, Copying, PageOpensStore,
       EdgeSwitches, PageWritesLocalStorage, vars
<1> SUFFICES ASSUME crashes' = 0
             PROVE  OriginsAreWhole' /\ ListIsExact'
  BY <1>1, <1>2 DEF WholeInv
<1>8. crashes = 0 /\ ~Crash /\ OriginsAreWhole /\ ListIsExact
  BY <1>2 DEF WholeInv
<1>3. CASE CoordinatorStep
  <2>1. /\ UNCHANGED <<source, dest>>
        /\ copy.at # "publish" /\ copy'.at # "publish"
    BY <1>3 DEF CoordinatorStep, WholeInv, DiskInv, OneCopy, NoCopy, Posted
  <2>2. copy.origin = NoOrigin /\ copy'.origin = NoOrigin
    BY <1>1, <2>1 DEF WholeInv, DiskInv, StageInv, InProgress
  <2> QED BY <1>8, <2>1, <2>2 DEF OriginsAreWhole, ListIsExact, Imported
<1>4. CASE Copying
  BY <1>1, <1>4, <1>8, CopyKeepsWhole DEF Copying, DiskInv
<1>5. CASE PageOpensStore
  <2>1. PICK o \in Origin, m \in Member : BrowserCreates(o, m)
    BY <1>5 DEF PageOpensStore
  <2>2. \A q \in Origin : Imported(q)' = Imported(q)
    BY <2>1 DEF BrowserCreates, Imported, WholeInv, DiskInv, StageInv, StageTypeOK
  <2>3. UNCHANGED <<source, copy>>
    BY <2>1 DEF BrowserCreates
  <2> QED BY <1>8, <2>2, <2>3 DEF WholeInv, DiskInv, StageInv, InProgress, OriginsAreWhole,
                            ListIsExact
<1>6. CASE UNCHANGED stageVars
  BY <1>6, <1>8 DEF stageVars, OriginsAreWhole, ListIsExact, Imported
<1>7. UNCHANGED stageVars \/ CoordinatorStep \/ Copying \/ PageOpensStore
  BY <1>8, CoordinatorSteps DEF Next, EdgeSwitches, PageWritesLocalStorage, vars
<1> QED BY <1>3, <1>4, <1>5, <1>6, <1>7

(* As long as the browser has not crashed, an origin's store is imported      *)
(* whole or not at all: CopyStores rolls back what it published of an origin  *)
(* whose next directory cannot be published.                                  *)
THEOREM WholeUnlessCrashed == Spec => []WholeOrigins
<1>1. Init => WholeInv
  <2> SUFFICES ASSUME Init PROVE WholeInv
    OBVIOUS
  <2>1. \A o \in Origin : Imported(o) = {}
    BY DEF Init, StageInit, Imported
  <2>2. copy = NoCopy /\ crashes = 0
    BY DEF Init, StageInit
  <2> QED BY <2>1, <2>2, StartsSafe DEF WholeInv, OriginsAreWhole, ListIsExact, NoCopy
<1>2. WholeInv /\ [Next]_vars => WholeInv'
  BY StepKeepsWhole
<1>3. WholeInv => WholeOrigins
  BY DEF WholeInv, WholeOrigins
<1> QED BY <1>1, <1>2, <1>3, PTL DEF Spec
-----------------------------------------------------------------------------
(* The report.  It tells each carrier of S once and no other, and those of    *)
(* the IndexedDB carrier, if it is told, n origins.                           *)
Status == {"imported", "blocked", "degraded", "unsupported", "feature disabled"}
OutcomeType == [carrier : Carrier, count : Nat, status : Status]

Tells(rep, S) ==
    /\ rep \in Seq(OutcomeType)
    /\ \A i, j \in 1..Len(rep) : rep[i].carrier = rep[j].carrier => i = j
    /\ \A c \in Carrier : c \in S <=> \E i \in 1..Len(rep) : rep[i].carrier = c

Origins(rep, n) ==
    \A i \in 1..Len(rep) : rep[i].carrier = "indexedDb" => rep[i].count = n

LEMMA AddTells ==
    ASSUME NEW rep, NEW S, Tells(rep, S), NEW c \in Carrier, c \notin S,
           NEW status \in Status, NEW n \in Nat
    PROVE  /\ Tells(Append(rep, Outcome(c, status, n)), S \cup {c})
           /\ c = "indexedDb" \/ Origins(rep, n) =>
                 Origins(Append(rep, Outcome(c, status, n)), n)
<1> DEFINE o == Outcome(c, status, n)
           new == Append(rep, o)
<1>1. o \in OutcomeType /\ o.carrier = c /\ o.count = n
  BY DEF Outcome, OutcomeType
<1>2. rep \in Seq(OutcomeType) /\ Len(rep) \in Nat
  BY DEF Tells
<1> HIDE DEF o
<1>3. /\ new \in Seq(OutcomeType) /\ Len(new) = Len(rep) + 1 /\ new[Len(rep) + 1] = o
      /\ \A i \in 1..Len(rep) : new[i] = rep[i]
  BY <1>1, <1>2
<1>4. \A i \in 1..Len(new) : i \in 1..Len(rep) \/ i = Len(rep) + 1
  BY <1>2, <1>3
<1>5. \A i \in 1..Len(rep) : rep[i].carrier # c /\ i \in 1..Len(new)
  BY <1>2, <1>3 DEF Tells
<1>6. Len(rep) + 1 \in 1..Len(new)
  BY <1>2, <1>3
<1> HIDE DEF new
<1>7. \A i, j \in 1..Len(new) : new[i].carrier = new[j].carrier => i = j
  <2> SUFFICES ASSUME NEW i \in 1..Len(new), NEW j \in 1..Len(new),
                      new[i].carrier = new[j].carrier
               PROVE  i = j
    OBVIOUS
  <2>1. CASE i \in 1..Len(rep) /\ j \in 1..Len(rep)
    BY <1>3, <2>1 DEF Tells
  <2>2. CASE ~(i \in 1..Len(rep)) \/ ~(j \in 1..Len(rep))
    BY <1>1, <1>3, <1>4, <1>5, <2>2
  <2> QED
    BY <2>1, <2>2
<1>8. \A d \in Carrier : d \in S \cup {c} <=> \E i \in 1..Len(new) : new[i].carrier = d
  <2> SUFFICES ASSUME NEW d \in Carrier
               PROVE  d \in S \cup {c} <=> \E i \in 1..Len(new) : new[i].carrier = d
    OBVIOUS
  <2>1. CASE d = c
    BY <1>1, <1>3, <1>6, <2>1
  <2>2. CASE d # c
    <3>1. d \in S => \E i \in 1..Len(new) : new[i].carrier = d
      BY <1>3, <1>5 DEF Tells
    <3>2. ASSUME NEW i \in 1..Len(new), new[i].carrier = d PROVE d \in S
      BY <1>1, <1>3, <1>4, <2>2, <3>2 DEF Tells
    <3> QED
      BY <2>2, <3>1, <3>2
  <2> QED
    BY <2>1, <2>2
<1>9. c = "indexedDb" \/ Origins(rep, n) => Origins(new, n)
  BY <1>1, <1>3, <1>4, <1>5 DEF Origins
<1>10. Tells(new, S \cup {c})
  BY <1>3, <1>7, <1>8 DEF Tells
<1> QED
  BY <1>9, <1>10 DEF new, o

LEMMA AddIfTells ==
    ASSUME NEW rep, NEW S, Tells(rep, S), NEW c \in Carrier, c \notin S,
           NEW status \in Status, NEW n \in Nat, NEW A
    PROVE  /\ Tells(AddIf(c \in A, rep, Outcome(c, status, n)), S \cup ({c} \cap A))
           /\ Origins(rep, n) => Origins(AddIf(c \in A, rep, Outcome(c, status, n)), n)
<1>1. CASE c \in A
  <2>1. S \cup ({c} \cap A) = S \cup {c}
    BY <1>1
  <2> QED
    BY <1>1, <2>1, AddTells DEF AddIf
<1>2. CASE c \notin A
  <2>1. S \cup ({c} \cap A) = S
    BY <1>2
  <2> QED
    BY <1>2, <2>1 DEF AddIf
<1> QED
  BY <1>1, <1>2

(* Only the carriers matter of what a report tells. *)
LEMMA TellsTheSame ==
    ASSUME NEW rep, NEW S, NEW T, Tells(rep, S), \A c \in Carrier : c \in S <=> c \in T
    PROVE  Tells(rep, T)
BY DEF Tells

LEMMA NothingTold == Tells(<<>>, {})
<1>1. <<>> \in Seq(OutcomeType) /\ Len(<<>>) = 0
  OBVIOUS
<1> QED
  BY <1>1 DEF Tells

(* The loop over kAllEdgeCarriers. *)
LEMMA AddAllTells ==
    ASSUME NEW S \in SUBSET Carrier, NEW status \in Status
    PROVE  /\ Tells(AddAll(<<>>, S, status), S)
           /\ Origins(AddAll(<<>>, S, status), 0)
<1> DEFINE at(i) == kAllEdgeCarriers[i]
           add(r, i) == AddIf(at(i) \in S, r, Outcome(at(i), status, 0))
           r1 == add(<<>>, 1)
           r2 == add(r1, 2)
           r3 == add(r2, 3)
           r4 == add(r3, 4)
           S1 == {} \cup ({"passwords"} \cap S)
           S2 == S1 \cup ({"cookies"} \cap S)
           S3 == S2 \cup ({"localStorage"} \cap S)
           S4 == S3 \cup ({"indexedDb"} \cap S)
<1>1. /\ at(1) = "passwords" /\ at(2) = "cookies"
      /\ at(3) = "localStorage" /\ at(4) = "indexedDb"
  BY DEF kAllEdgeCarriers
<1>2. AddAll(<<>>, S, status) = r4
  BY DEF AddAll
<1>3. /\ {"passwords", "cookies", "localStorage", "indexedDb"} \subseteq Carrier
      /\ \A c \in Carrier : c \in {"passwords", "cookies", "localStorage", "indexedDb"}
      /\ 0 \in Nat
  BY DEF Carrier
<1>4. Tells(<<>>, {}) /\ Origins(<<>>, 0)
  BY NothingTold DEF Origins
<1>5. "passwords" \notin {} /\ "cookies" \notin S1 /\ "localStorage" \notin S2 /\ "indexedDb" \notin S3
  OBVIOUS
<1>6. \A c \in Carrier : c \in S4 <=> c \in S
  BY <1>3
<1>7. /\ r1 = AddIf("passwords" \in S, <<>>, Outcome("passwords", status, 0))
      /\ r2 = AddIf("cookies" \in S, r1, Outcome("cookies", status, 0))
      /\ r3 = AddIf("localStorage" \in S, r2, Outcome("localStorage", status, 0))
      /\ r4 = AddIf("indexedDb" \in S, r3, Outcome("indexedDb", status, 0))
  BY <1>1
<1> HIDE DEF r1, r2, r3, r4
<1>8. Tells(r1, S1) /\ Origins(r1, 0)
  BY <1>3, <1>4, <1>5, <1>7, AddIfTells
<1> HIDE DEF S1
<1>9. Tells(r2, S2) /\ Origins(r2, 0)
  BY <1>3, <1>5, <1>7, <1>8, AddIfTells
<1> HIDE DEF S2
<1>10. Tells(r3, S3) /\ Origins(r3, 0)
  BY <1>3, <1>5, <1>7, <1>9, AddIfTells
<1> HIDE DEF S3
<1>11. Tells(r4, S4) /\ Origins(r4, 0)
  BY <1>3, <1>5, <1>7, <1>10, AddIfTells
<1> HIDE DEF S4
<1> QED
  BY <1>2, <1>6, <1>11, TellsTheSame
-----------------------------------------------------------------------------
Secrets == carriers \cap {"passwords", "cookies"}
AllButIndexedDb == carriers \ {"indexedDb"}

(* How the coordinator leaves a handler: with the report handed over, with    *)
(* the copy posted, or waiting for the localStorage usage.                    *)
Finished ==
    /\ step' = "done" /\ Tells(report', carriers) /\ Origins(report', 0)
    /\ delivered' = delivered + 1 /\ copy' = copy

CopyPosted ==
    /\ step' = "indexedDb" /\ "indexedDb" \in carriers /\ Tells(report', AllButIndexedDb)
    /\ delivered' = delivered /\ copy' = Posted

UsageAsked ==
    /\ step' = "usage" /\ "localStorage" \in carriers /\ Tells(report', Secrets)
    /\ delivered' = delivered /\ copy' = copy

LEMMA IndexedDbStepTells ==
    ASSUME carriers \subseteq Carrier, NEW rep, Tells(rep, AllButIndexedDb), NEW pre,
           RunIndexedDbStep(rep, pre)
    PROVE  Finished \/ CopyPosted
<1>0. "indexedDb" \in Carrier /\ "indexedDb" \notin AllButIndexedDb /\ 0 \in Nat
      /\ "unsupported" \in Status /\ "blocked" \in Status
  BY DEF Carrier, AllButIndexedDb, Status
<1>1. CASE "indexedDb" \notin carriers
  <2>1. Tells(rep, carriers)
    BY <1>1, TellsTheSame DEF AllButIndexedDb
  <2>2. Origins(rep, 0)
    BY <1>0 DEF Tells, Origins
  <2> QED
    BY <1>1, <2>1, <2>2 DEF RunIndexedDbStep, Finish, Finished
<1>2. ASSUME "indexedDb" \in carriers, NEW status \in {"unsupported", "blocked"},
             Finish(Append(rep, Outcome("indexedDb", status, 0)))
      PROVE  Finished
  <2> DEFINE new == Append(rep, Outcome("indexedDb", status, 0))
  <2>1. Tells(new, AllButIndexedDb \cup {"indexedDb"}) /\ Origins(new, 0)
    BY <1>0, AddTells
  <2>2. Tells(new, carriers)
    BY <1>2, <2>1, TellsTheSame DEF AllButIndexedDb
  <2> QED
    BY <1>2, <2>1, <2>2 DEF Finish, Finished
<1>3. CASE step' = "indexedDb" /\ report' = rep /\ copy' = Posted /\ UNCHANGED delivered
           /\ "indexedDb" \in carriers
  BY <1>3 DEF CopyPosted
<1> QED
  BY <1>1, <1>2, <1>3 DEF RunIndexedDbStep

LEMMA LocalStorageStepTells ==
    ASSUME carriers \subseteq Carrier, NEW rep, Tells(rep, Secrets), NEW pre,
           RunLocalStorageStep(rep, pre)
    PROVE  Finished \/ CopyPosted \/ UsageAsked
<1>0. /\ "localStorage" \in Carrier /\ "localStorage" \notin Secrets /\ 0 \in Nat
      /\ "unsupported" \in Status
      /\ \A c \in Carrier : c \in {"passwords", "cookies", "localStorage", "indexedDb"}
  BY DEF Carrier, Secrets, Status
<1>1. CASE "localStorage" \notin carriers
  <2>1. Tells(rep, AllButIndexedDb)
    BY <1>0, <1>1, TellsTheSame DEF AllButIndexedDb, Secrets
  <2> QED
    BY <1>1, <2>1, IndexedDbStepTells DEF RunLocalStorageStep
<1>2. CASE "localStorage" \in carriers /\ "localStorage" \notin pre.available
  <2> DEFINE new == Append(rep, Outcome("localStorage", "unsupported", 0))
  <2>1. Tells(new, Secrets \cup {"localStorage"})
    BY <1>0, AddTells
  <2>2. Tells(new, AllButIndexedDb)
    BY <1>0, <1>2, <2>1, TellsTheSame DEF AllButIndexedDb, Secrets
  <2>3. RunIndexedDbStep(new, pre)
    BY <1>2 DEF RunLocalStorageStep
  <2> HIDE DEF new
  <2> QED
    BY <2>2, <2>3, IndexedDbStepTells
<1>3. CASE "localStorage" \in carriers /\ "localStorage" \in pre.available
  BY <1>3 DEF RunLocalStorageStep, UsageAsked
<1> QED
  BY <1>1, <1>2, <1>3

LEMMA SecretDoneTells ==
    ASSUME carriers \subseteq Carrier, NEW rep, NEW pre, NEW s, NEW cookies \in Nat,
           s.attempted \subseteq Secrets, s.passwords \in Nat,
           Tells(rep, Secrets \ s.attempted),
           OnSecretDone(rep, pre, s, cookies)
    PROVE  Finished \/ CopyPosted \/ UsageAsked
<1> DEFINE T == Secrets \ s.attempted
           p == SecretOutcome("passwords", s.passwords, s.keychain_available, pre)
           k == SecretOutcome("cookies", cookies, s.keychain_available, pre)
           r1 == AddIf("passwords" \in s.attempted, rep, p)
           r2 == AddIf("cookies" \in s.attempted, r1, k)
           T1 == T \cup ({"passwords"} \cap s.attempted)
           T2 == T1 \cup ({"cookies"} \cap s.attempted)
<1>0. /\ "passwords" \in Carrier /\ "cookies" \in Carrier
      /\ \A c \in Secrets : c = "passwords" \/ c = "cookies"
  BY DEF Carrier, Secrets
<1>1. \E status \in Status : p = Outcome("passwords", status, s.passwords)
  BY DEF SecretOutcome, Status
<1>2. \E status \in Status : k = Outcome("cookies", status, cookies)
  BY DEF SecretOutcome, Status
<1>3. RunLocalStorageStep(r2, pre)
  BY DEF OnSecretDone
<1> HIDE DEF p, k
<1>4. Tells(r1, T1)
  <2>1. CASE "passwords" \in T
    <3>1. "passwords" \notin s.attempted
      BY <2>1
    <3>2. r1 = rep /\ T1 = T
      BY <3>1 DEF AddIf
    <3> QED
      BY <3>2
  <2>2. CASE "passwords" \notin T
    <3> HIDE DEF T
    <3> QED
      BY <1>0, <1>1, <2>2, AddIfTells DEF T
  <2> QED
    BY <2>1, <2>2
<1> HIDE DEF r1
<1>5. Tells(r2, T2)
  <2>1. CASE "cookies" \in T1
    <3>1. "cookies" \notin s.attempted
      BY <2>1
    <3>2. r2 = r1 /\ T2 = T1
      BY <3>1 DEF AddIf
    <3> QED
      BY <1>4, <3>2
  <2>2. CASE "cookies" \notin T1
    <3> HIDE DEF T1
    <3> QED
      BY <1>0, <1>2, <1>4, <2>2, AddIfTells
  <2> QED
    BY <2>1, <2>2
<1>6. \A c \in Carrier : c \in T2 <=> c \in Secrets
  BY <1>0
<1> HIDE DEF r2, T2
<1>7. Tells(r2, Secrets)
  BY <1>5, <1>6, TellsTheSame
<1> QED
  BY <1>3, <1>7, LocalStorageStepTells

(* And waiting for the cookies. *)
CookiesAsked ==
    /\ step' = "cookies" /\ secret'.attempted \subseteq Secrets
    /\ Tells(report', Secrets \ secret'.attempted)
    /\ delivered' = delivered /\ copy' = copy

LEMMA SecretStepTells ==
    ASSUME carriers \subseteq Carrier, report = <<>>, NEW pre, NEW granted,
           NEW passwords \in Nat, RunSecretStep(pre, granted, passwords)
    PROVE  Finished \/ CopyPosted \/ UsageAsked \/ CookiesAsked
<1> DEFINE attempted == Secrets \cap pre.available
           rep == AddAll(report, Secrets \ attempted, "unsupported")
           result == SecretResult(attempted, granted, passwords)
<1>1. IF attempted = {} THEN RunLocalStorageStep(rep, pre)
      ELSE IF "cookies" \in attempted
      THEN step' = "cookies" /\ report' = rep /\ secret' = result
           /\ UNCHANGED <<copy, delivered>>
      ELSE OnSecretDone(rep, pre, result, 0)
  BY DEF RunSecretStep, Secrets
<1>2. Tells(rep, Secrets \ attempted)
  <2>1. Secrets \ attempted \in SUBSET Carrier /\ "unsupported" \in Status
    BY DEF Secrets, Status
  <2> HIDE DEF attempted
  <2> QED
    BY <2>1, AddAllTells
<1>3. result.attempted = attempted /\ result.passwords \in Nat
  BY DEF SecretResult, ImportPasswords
<1>4. attempted \subseteq Secrets
  OBVIOUS
<1> HIDE DEF attempted, rep, result
<1>5. CASE attempted = {}
  <2>1. Tells(rep, Secrets)
    BY <1>2, <1>5, TellsTheSame
  <2> QED
    BY <1>1, <1>5, <2>1, LocalStorageStepTells
<1>6. CASE attempted # {} /\ "cookies" \in attempted
  BY <1>1, <1>2, <1>3, <1>4, <1>6 DEF CookiesAsked
<1>7. CASE attempted # {} /\ "cookies" \notin attempted
  BY <1>1, <1>2, <1>3, <1>4, <1>7, SecretDoneTells
<1> QED
  BY <1>5, <1>6, <1>7

LEMMA LocalStorageDoneTells ==
    ASSUME carriers \subseteq Carrier, "localStorage" \in carriers, Tells(report, Secrets),
           NEW status \in Status, NEW n \in Nat, NEW pre,
           RunIndexedDbStep(Append(report, Outcome("localStorage", status, n)), pre)
    PROVE  Finished \/ CopyPosted
<1> DEFINE new == Append(report, Outcome("localStorage", status, n))
<1>1. /\ "localStorage" \in Carrier /\ "localStorage" \notin Secrets
      /\ \A c \in Carrier : c \in {"passwords", "cookies", "localStorage", "indexedDb"}
  BY DEF Carrier, Secrets
<1>2. Tells(new, Secrets \cup {"localStorage"})
  BY <1>1, AddTells
<1>3. Tells(new, AllButIndexedDb)
  BY <1>1, <1>2, TellsTheSame DEF AllButIndexedDb, Secrets
<1> HIDE DEF new
<1> QED
  BY <1>3, IndexedDbStepTells DEF new
-----------------------------------------------------------------------------
(* The coordinator's variables. *)
Steps == {"idle", "preflight", "preflightReply", "cookies", "usage", "read", "puts",
          "indexedDb", "done"}

CoordinatorOK ==
    /\ edge \in BOOLEAN /\ localData \in BOOLEAN /\ readable \subseteq Carrier
    /\ step \in Steps /\ carriers \subseteq Carrier
    /\ preflight \in [running : BOOLEAN, available : SUBSET Carrier, initialized : BOOLEAN]
    /\ secret \in [attempted : SUBSET Carrier, passwords : Count,
                   keychain_available : BOOLEAN]
    /\ local \in [pending : Count, accepted : Count]
    /\ local.pending + local.accepted <= MaxEntries
    /\ crashes \in 0..MaxCrashes

(* What the report tells while the coordinator waits for something. *)
ReportSoFar ==
    /\ step \in {"idle", "preflight", "preflightReply"} => report = <<>>
    /\ step = "cookies" =>
          secret.attempted \subseteq Secrets /\ Tells(report, Secrets \ secret.attempted)
    /\ step \in {"usage", "read", "puts"} =>
          "localStorage" \in carriers /\ Tells(report, Secrets)
    /\ step = "indexedDb" => "indexedDb" \in carriers /\ Tells(report, AllButIndexedDb)
    /\ step = "done" => Tells(report, carriers)
    /\ delivered = IF step = "done" THEN 1 ELSE 0

(* The origins that are imported, but for the one being published. *)
Whole == {o \in Origin \ {copy.origin} : Imported(o) # {}}

(* Before any crash, the copy counts the origins it has published whole.      *)
CountSoFar ==
    /\ leftover => copy.at \in {"next", "publish"}
    /\ copy.at = "posted" => copy.count = 0
    /\ step \notin {"indexedDb", "done"} \/ copy.at = "posted" =>
          \A o \in Origin : Imported(o) = {}
    /\ copy.at \in {"next", "publish", "returned"} =>
          IsFiniteSet(Whole) /\ Cardinality(Whole) = copy.count
    /\ \A o \in copy.todo : source[o] # {}
    /\ copy.at = "publish" => source[copy.origin] # {}
    /\ step = "done" =>
          /\ \A o \in Origin : Imported(o) # {} => "indexedDb" \in carriers
          /\ Origins(report, Cardinality(Whole))

(* The inductive invariant. *)
RInv ==
    /\ WholeInv /\ CoordinatorOK /\ ReportSoFar
    /\ crashes = 0 => CountSoFar

LEMMA RInvIsEnough == RInv => ReportInv
<1> SUFFICES ASSUME RInv PROVE ReportInv
  OBVIOUS
<1>1. /\ WholeInv /\ DiskInv /\ StageTypeOK /\ InProgress /\ OneCopy
      /\ CoordinatorOK /\ ReportSoFar /\ (crashes = 0 => CountSoFar)
  BY DEF RInv, WholeInv, DiskInv, StageInv
<1>2. report \in Seq(OutcomeType) /\ DOMAIN report = 1..Len(report)
  <2>1. report = <<>> => report \in Seq(OutcomeType)
    OBVIOUS
  <2>2. report \in Seq(OutcomeType)
    BY <1>1, <2>1 DEF ReportSoFar, Tells, CoordinatorOK, Steps
  <2> QED
    BY <2>2
<1>3. TypeOK
  <2>1. \A i \in DOMAIN report : report[i] \in OutcomeType
    BY <1>2
  <2>2. delivered \in 0..1
    BY <1>1 DEF ReportSoFar
  <2> QED
    BY <1>1, <2>1, <2>2 DEF TypeOK, CoordinatorOK, Steps, OutcomeType, Status
<1>4. OneOutcomePerCarrier
  <2> SUFFICES ASSUME step = "done", NEW c \in Carrier
               PROVE  /\ delivered = 1
                      /\ Cardinality({i \in DOMAIN report : report[i].carrier = c})
                           = IF c \in carriers THEN 1 ELSE 0
    BY DEF OneOutcomePerCarrier, Carrier
  <2>1. delivered = 1 /\ Tells(report, carriers)
    BY <1>1 DEF ReportSoFar
  <2> DEFINE I == {i \in DOMAIN report : report[i].carrier = c}
  <2>2. CASE c \in carriers
    <3>1. PICK i \in 1..Len(report) : report[i].carrier = c
      BY <2>1, <2>2 DEF Tells
    <3>2. I = {i}
      BY <1>2, <2>1, <3>1 DEF Tells
    <3> HIDE DEF I
    <3> QED
      BY <2>1, <2>2, <3>2, FS_Singleton DEF I
  <2>3. CASE c \notin carriers
    <3>1. I = {}
      BY <1>2, <2>1, <2>3 DEF Tells
    <3> HIDE DEF I
    <3> QED
      BY <2>1, <2>3, <3>1, FS_EmptySet DEF I
  <2> QED
    BY <2>2, <2>3
<1>5. CountMatchesDisk
  <2> SUFFICES ASSUME step = "done", crashes = 0
               PROVE  /\ ~leftover
                      /\ \A o \in Origin : Imported(o) # {} => "indexedDb" \in carriers
                      /\ \A i \in DOMAIN report : report[i].carrier = "indexedDb" =>
                            report[i].count = Cardinality({o \in Origin : Imported(o) # {}})
    BY DEF CountMatchesDisk
  <2>1. copy.at = "none" /\ copy.origin = NoOrigin
    BY <1>1 DEF OneCopy, InProgress
  <2>2. Whole = {o \in Origin : Imported(o) # {}}
    BY <2>1, IndexedDbStageAssumption DEF Whole
  <2> QED
    BY <1>1, <1>2, <2>1, <2>2 DEF CountSoFar, Origins
<1> QED
  BY <1>3, <1>4, <1>5 DEF ReportInv

LEMMA InitRInv == Init => RInv
<1> SUFFICES ASSUME Init PROVE RInv
  OBVIOUS
<1>1. WholeInv /\ (\A o \in Origin : Imported(o) = {})
  <2>1. \A o \in Origin : Imported(o) = {}
    BY DEF Init, StageInit, Imported
  <2>2. copy = NoCopy /\ crashes = 0
    BY DEF Init, StageInit
  <2> QED
    BY <2>1, <2>2, StartsSafe DEF WholeInv, OriginsAreWhole, ListIsExact, NoCopy
<1>2. CoordinatorOK
  BY EdgeImportAssumption
     DEF Init, CoordinatorInit, CoordinatorOK, Steps, NoPreflight, NoSecret, NoLocal, Count
<1>3. ReportSoFar
  BY DEF Init, CoordinatorInit, ReportSoFar
<1>4. CountSoFar
  <2>1. copy.at = "none" /\ copy.todo = {} /\ leftover = FALSE /\ step = "idle"
    BY DEF Init, CoordinatorInit, StageInit, NoCopy
  <2> QED
    BY <1>1, <2>1 DEF CountSoFar
<1> QED
  BY <1>1, <1>2, <1>3, <1>4 DEF RInv

(* The coordinator goes on, ends or posts the copy; nothing is on disk yet.   *)
LEMMA CoordinatorCounts ==
    ASSUME RInv, crashes = 0, step \notin {"indexedDb", "done"},
           UNCHANGED <<source, dest, leftover>>,
           \/ step' \notin {"indexedDb", "done"} /\ copy' = copy
           \/ step' = "done" /\ Origins(report', 0) /\ copy' = copy
           \/ step' = "indexedDb" /\ copy' = Posted
    PROVE  CountSoFar'
<1>1. copy.at = "none" /\ CountSoFar /\ InProgress
  BY DEF RInv, WholeInv, DiskInv, StageInv, OneCopy
<1>2. \A o \in Origin : Imported(o) = {} /\ Imported(o)' = {}
  BY <1>1 DEF CountSoFar, Imported
<1>3. Whole' = {}
  BY <1>2 DEF Whole
<1>4. Cardinality(Whole') = 0
  BY <1>3, FS_EmptySet
<1>5. copy' = copy \/ (copy'.at = "posted" /\ copy'.count = 0 /\ copy'.todo = {})
  BY DEF Posted, NoCopy
<1>6. ~leftover'
  BY <1>1 DEF CountSoFar
<1>7. step' = "done" => Origins(report', Cardinality(Whole'))
  BY <1>4
<1> HIDE DEF Whole
<1>8. copy'.at \in {"none", "posted"} /\ \A o \in copy'.todo : source'[o] # {}
  BY <1>1, <1>5 DEF CountSoFar
<1>9. copy'.at = "posted" => copy'.count = 0
  BY <1>1, <1>5
<1> QED
  BY <1>2, <1>6, <1>7, <1>8, <1>9 DEF CountSoFar, Origins

(* A handler that ends in one of these ways keeps the report's account. *)
LEMMA HandlerKeeps ==
    ASSUME RInv, step \notin {"indexedDb", "done"}, carriers' = carriers,
           UNCHANGED <<source, dest, leftover, crashes>>,
           Finished \/ CopyPosted \/ UsageAsked \/ CookiesAsked
    PROVE  ReportSoFar' /\ step' \in Steps /\ (crashes' = 0 => CountSoFar')
<1>1. delivered = 0
  BY DEF RInv, ReportSoFar
<1>2. ReportSoFar' /\ step' \in Steps
  <2>1. Secrets' = Secrets /\ AllButIndexedDb' = AllButIndexedDb
    BY DEF Secrets, AllButIndexedDb
  <2> QED
    BY <1>1, <2>1 DEF Finished, CopyPosted, UsageAsked, CookiesAsked, ReportSoFar, Tells, Steps
<1>3. crashes' = 0 => CountSoFar'
  BY CoordinatorCounts DEF Finished, CopyPosted, UsageAsked, CookiesAsked
<1> QED
  BY <1>2, <1>3

(* The coordinator's own steps. *)
LEMMA CoordinatorKeepsReport ==
    ASSUME RInv,
           Reply \/ \E requested \in Requests, enabled \in BOOLEAN : Run(requested, enabled)
    PROVE  CoordinatorOK' /\ ReportSoFar' /\ (crashes' = 0 => CountSoFar')
<1> DEFINE Goal == CoordinatorOK' /\ ReportSoFar' /\ (crashes' = 0 => CountSoFar')
<1>0. CoordinatorOK /\ ReportSoFar /\ Count \subseteq Nat /\ MaxEntries \in Nat
  BY EdgeImportAssumption DEF RInv, Count
<1>1. ASSUME NEW requested \in Requests, NEW enabled \in BOOLEAN, Run(requested, enabled)
      PROVE  Goal
  <2>1. /\ step = "idle" /\ report = <<>> /\ carriers' = requested /\ requested \in SUBSET Carrier
        /\ UNCHANGED <<source, dest, leftover, crashes>>
    BY <1>0, <1>1, EdgeImportAssumption DEF Run, ReportSoFar
  <2>2. CASE enabled
    <3>1. step' = "preflight" /\ UNCHANGED <<report, copy, delivered>>
      BY <1>1, <2>2 DEF Run
    <3>2. CoordinatorOK'
      BY <1>0, <1>1, <2>1, <3>1 DEF Run, CoordinatorOK, Steps, worldVars
    <3>3. ReportSoFar'
      BY <1>0, <2>1, <3>1 DEF ReportSoFar
    <3>4. crashes' = 0 => CountSoFar'
      BY <2>1, <3>1, CoordinatorCounts
    <3> QED
      BY <3>2, <3>3, <3>4
  <2>3. CASE ~enabled
    <3>1. /\ step' = "done" /\ report' = AddAll(<<>>, requested, "feature disabled")
          /\ delivered' = delivered + 1 /\ copy' = copy
      BY <1>1, <2>1, <2>3 DEF Run, Finish
    <3>2. Tells(report', requested) /\ Origins(report', 0)
      BY <2>1, <3>1, AddAllTells DEF Status
    <3>3. CoordinatorOK'
      BY <1>0, <1>1, <2>1, <3>1 DEF Run, CoordinatorOK, Steps, worldVars
    <3>4. ReportSoFar'
      <4>1. delivered = 0
        BY <1>0, <2>1 DEF ReportSoFar
      <4>2. delivered' = delivered + 1
        BY <3>1
      <4>3. delivered' = 1
        BY <4>1, <4>2
      <4>4. Tells(report', carriers')
        BY <2>1, <3>2
      <4> QED
        BY <3>1, <4>3, <4>4 DEF ReportSoFar, Tells
    <3>5. crashes' = 0 => CountSoFar'
      BY <2>1, <3>1, <3>2, CoordinatorCounts
    <3> QED
      BY <3>3, <3>4, <3>5
  <2> QED
    BY <2>2, <2>3
<1>2. ASSUME NEW files \in SUBSET Carrier, ComputeEdgeImportPreflight(files)
      PROVE  Goal
  <2>1. /\ step = "preflight" /\ step' = "preflightReply"
        /\ UNCHANGED <<source, dest, leftover, copy, crashes, report, delivered, carriers>>
    BY <1>2 DEF ComputeEdgeImportPreflight, stageVars
  <2>2. CoordinatorOK'
    <3>1. preflight' \in [running : BOOLEAN, available : SUBSET Carrier, initialized : BOOLEAN]
      <4>1. edge \in BOOLEAN /\ ("indexedDb" \in carriers /\ DestInitialized) \in BOOLEAN
        BY <1>0 DEF CoordinatorOK
      <4> QED
        BY <1>2, <4>1 DEF ComputeEdgeImportPreflight
    <3> QED
      BY <1>0, <1>2, <2>1, <3>1 DEF ComputeEdgeImportPreflight, CoordinatorOK, Steps, worldVars
  <2>3. ReportSoFar'
    BY <1>0, <2>1 DEF ReportSoFar
  <2>4. crashes' = 0 => CountSoFar'
    BY <2>1, CoordinatorCounts
  <2> QED
    BY <2>2, <2>3, <2>4
<1>3. ASSUME NEW granted \in SUBSET {"passwords", "cookies"}, NEW n \in Count,
             OnPreflightDone(granted, n)
      PROVE  Goal
  <2>1. /\ step = "preflightReply" /\ report = <<>> /\ carriers' = carriers
        /\ carriers \subseteq Carrier /\ n \in Nat
        /\ RunSecretStep(preflight, granted, n)
        /\ UNCHANGED <<source, dest, leftover, crashes>>
    BY <1>0, <1>3 DEF OnPreflightDone, CoordinatorOK, ReportSoFar
  <2>2. Finished \/ CopyPosted \/ UsageAsked \/ CookiesAsked
    BY <2>1, SecretStepTells
  <2>3. ReportSoFar' /\ step' \in Steps /\ (crashes' = 0 => CountSoFar')
    BY <2>1, <2>2, HandlerKeeps
  <2>4. readable' \subseteq Carrier
    BY <1>0, <2>1 DEF RunSecretStep, OnSecretDone, CoordinatorOK
  <2>5. secret' \in [attempted : SUBSET Carrier, passwords : Count, keychain_available : BOOLEAN]
    <3> DEFINE attempted == (carriers \cap {"passwords", "cookies"}) \cap preflight.available
    <3>1. secret' \in {secret, NoSecret, SecretResult(attempted, granted, n)}
      BY <2>1 DEF RunSecretStep, OnSecretDone
    <3>2. attempted \in SUBSET Carrier /\ 0 \in Count
      BY <1>0, <2>1 DEF Count
    <3> HIDE DEF attempted
    <3>3. SecretResult(attempted, granted, n)
            \in [attempted : SUBSET Carrier, passwords : Count, keychain_available : BOOLEAN]
      BY <3>2 DEF SecretResult, ImportPasswords
    <3>4. NoSecret \in [attempted : SUBSET Carrier, passwords : Count, keychain_available : BOOLEAN]
      BY <3>2 DEF NoSecret
    <3> QED
      BY <1>0, <3>1, <3>3, <3>4 DEF CoordinatorOK
  <2> QED
    BY <1>0, <1>3, <2>1, <2>3, <2>4, <2>5 DEF OnPreflightDone, CoordinatorOK, worldVars
<1>4. ASSUME NEW n \in Count, AddCookiesDone(n)
      PROVE  Goal
  <2>1. /\ step = "cookies" /\ carriers' = carriers /\ carriers \subseteq Carrier /\ n \in Nat
        /\ secret.passwords \in Nat /\ secret.attempted \subseteq Secrets
        /\ Tells(report, Secrets \ secret.attempted)
        /\ OnSecretDone(report, preflight, secret, n)
        /\ UNCHANGED <<source, dest, leftover, crashes>>
    BY <1>0, <1>4 DEF AddCookiesDone, CoordinatorOK, ReportSoFar
  <2>2. Finished \/ CopyPosted \/ UsageAsked
    BY <2>1, SecretDoneTells
  <2>3. ReportSoFar' /\ step' \in Steps /\ (crashes' = 0 => CountSoFar')
    BY <2>1, <2>2, HandlerKeeps
  <2>4. secret' = NoSecret /\ readable' = {} /\ 0 \in Count
    BY <1>0, <2>1 DEF OnSecretDone, Count
  <2> QED
    BY <1>0, <1>4, <2>1, <2>3, <2>4 DEF AddCookiesDone, CoordinatorOK, NoSecret, worldVars
<1>5. CASE OnLocalStorageUsageChecked
  <2>1. /\ step = "usage" /\ carriers' = carriers /\ carriers \subseteq Carrier
        /\ "localStorage" \in carriers /\ Tells(report, Secrets)
        /\ UNCHANGED <<source, dest, leftover, crashes>>
    BY <1>0, <1>5 DEF OnLocalStorageUsageChecked, CoordinatorOK, ReportSoFar
  <2>2. CASE localData
    <3>1. Finished \/ CopyPosted
      BY <1>5, <2>1, <2>2, LocalStorageDoneTells DEF OnLocalStorageUsageChecked, Status
    <3>2. ReportSoFar' /\ step' \in Steps /\ (crashes' = 0 => CountSoFar')
      BY <2>1, <3>1, HandlerKeeps
    <3> QED
      BY <1>0, <1>5, <2>1, <3>2 DEF OnLocalStorageUsageChecked, CoordinatorOK, worldVars
  <2>3. CASE ~localData
    <3>1. step' = "read" /\ UNCHANGED <<report, copy, delivered>>
      BY <1>5, <2>3 DEF OnLocalStorageUsageChecked
    <3>2. ReportSoFar'
      BY <1>0, <2>1, <3>1 DEF ReportSoFar, Secrets
    <3>3. crashes' = 0 => CountSoFar'
      BY <2>1, <3>1, CoordinatorCounts
    <3> QED
      BY <1>0, <1>5, <2>1, <3>1, <3>2, <3>3
         DEF OnLocalStorageUsageChecked, CoordinatorOK, worldVars, Steps
  <2> QED
    BY <2>2, <2>3
<1>6. ASSUME NEW n \in Count, OnRead(n)
      PROVE  Goal
  <2>1. /\ step = "read" /\ carriers' = carriers /\ carriers \subseteq Carrier
        /\ "localStorage" \in carriers /\ Tells(report, Secrets)
        /\ UNCHANGED <<source, dest, leftover, crashes>>
    BY <1>0, <1>6 DEF OnRead, CoordinatorOK, ReportSoFar
  <2>2. local' \in [pending : Count, accepted : Count] /\ local'.pending + local'.accepted <= MaxEntries
    <3>1. 0 \in Count /\ n + 0 <= MaxEntries
      BY <1>0 DEF Count
    <3>2. local' \in {NoLocal, [pending |-> n, accepted |-> 0]}
      BY <1>6 DEF OnRead, OnLocalStorageDone
    <3> QED
      BY <1>0, <3>1, <3>2 DEF NoLocal
  <2>3. CASE NothingToPut(n)
    <3>1. Finished \/ CopyPosted
      BY <1>6, <2>1, <2>3, LocalStorageDoneTells DEF OnRead, OnLocalStorageDone, Status
    <3>2. ReportSoFar' /\ step' \in Steps /\ (crashes' = 0 => CountSoFar')
      BY <2>1, <3>1, HandlerKeeps
    <3> QED
      BY <1>0, <1>6, <2>1, <2>2, <3>2 DEF OnRead, CoordinatorOK, worldVars
  <2>4. CASE ~NothingToPut(n)
    <3>1. step' = "puts" /\ UNCHANGED <<report, copy, delivered>>
      BY <1>6, <2>4 DEF OnRead
    <3>2. ReportSoFar'
      BY <1>0, <2>1, <3>1 DEF ReportSoFar, Secrets
    <3>3. crashes' = 0 => CountSoFar'
      BY <2>1, <3>1, CoordinatorCounts
    <3> QED
      BY <1>0, <1>6, <2>1, <2>2, <3>1, <3>2, <3>3 DEF OnRead, CoordinatorOK, worldVars, Steps
  <2> QED
    BY <2>3, <2>4
<1>7. ASSUME NEW success \in BOOLEAN, OnPutComplete(success)
      PROVE  Goal
  <2>1. /\ step = "puts" /\ carriers' = carriers /\ carriers \subseteq Carrier
        /\ "localStorage" \in carriers /\ Tells(report, Secrets)
        /\ UNCHANGED <<source, dest, leftover, crashes>>
    BY <1>0, <1>7 DEF OnPutComplete, CoordinatorOK, ReportSoFar
  <2>2. local' \in [pending : Count, accepted : Count] /\ local'.pending + local'.accepted <= MaxEntries
    <3> DEFINE a == local.accepted + (IF success THEN 1 ELSE 0)
    <3>1. local' \in {NoLocal, [pending |-> local.pending - 1, accepted |-> a]}
      BY <1>7 DEF OnPutComplete, OnLocalStorageDone
    <3>2. local.pending - 1 \in Count /\ a \in Count /\ (local.pending - 1) + a <= MaxEntries
      BY <1>0, <1>7 DEF OnPutComplete, CoordinatorOK, Count
    <3> HIDE DEF a
    <3> QED
      BY <1>0, <3>1, <3>2 DEF NoLocal, Count
  <2>3. localData' \in BOOLEAN /\ UNCHANGED <<edge, readable, preflight, secret>>
    BY <1>0, <1>7 DEF OnPutComplete, CoordinatorOK
  <2>4. CASE local.pending = 1
    <3> DEFINE a == local.accepted + (IF success THEN 1 ELSE 0)
    <3>1. a \in Nat
      BY <1>0 DEF CoordinatorOK, Count
    <3> HIDE DEF a
    <3>2. Finished \/ CopyPosted
      <4>1. \E status \in Status :
               RunIndexedDbStep(Append(report, Outcome("localStorage", status, a)), preflight)
        BY <1>7, <2>4 DEF OnPutComplete, OnLocalStorageDone, Status, a
      <4> QED
        BY <2>1, <3>1, <4>1, LocalStorageDoneTells
    <3>3. ReportSoFar' /\ step' \in Steps /\ (crashes' = 0 => CountSoFar')
      BY <2>1, <3>2, HandlerKeeps
    <3> QED
      BY <1>0, <2>1, <2>2, <2>3, <3>3 DEF CoordinatorOK
  <2>5. CASE local.pending # 1
    <3>1. UNCHANGED <<step, report, copy, delivered>>
      BY <1>7, <2>5 DEF OnPutComplete
    <3>2. ReportSoFar'
      BY <1>0, <2>1, <3>1 DEF ReportSoFar, Secrets
    <3>3. crashes' = 0 => CountSoFar'
      BY <2>1, <3>1, CoordinatorCounts
    <3> QED
      BY <1>0, <2>1, <2>2, <2>3, <3>1, <3>2, <3>3 DEF CoordinatorOK
  <2> QED
    BY <2>4, <2>5
<1>8. CASE OnIndexedDbDone
  <2> DEFINE status == IF copy.count > 0 THEN "imported" ELSE "degraded"
             new == Append(report, Outcome("indexedDb", status, copy.count))
  <2>1. /\ step = "indexedDb" /\ copy.at = "returned" /\ step' = "done" /\ report' = new
        /\ delivered' = delivered + 1 /\ copy' = NoCopy /\ carriers' = carriers
        /\ UNCHANGED <<source, dest, leftover, crashes>>
    BY <1>8 DEF OnIndexedDbDone
  <2>2. /\ copy.count \in Nat /\ copy.origin = NoOrigin /\ status \in Status
        /\ "indexedDb" \in carriers /\ Tells(report, AllButIndexedDb)
        /\ "indexedDb" \in Carrier /\ "indexedDb" \notin AllButIndexedDb /\ delivered = 0
    BY <1>0, <2>1 DEF RInv, WholeInv, DiskInv, StageInv, StageTypeOK, InProgress, Status,
       ReportSoFar, Carrier, AllButIndexedDb
  <2>3. Tells(new, AllButIndexedDb \cup {"indexedDb"}) /\ Origins(new, copy.count)
    <3> HIDE DEF status
    <3> QED
      BY <2>2, AddTells
  <2> HIDE DEF new
  <2>4. Tells(new, carriers)
    BY <2>2, <2>3, TellsTheSame DEF AllButIndexedDb
  <2>5. CoordinatorOK'
    BY <1>0, <1>8, <2>1 DEF OnIndexedDbDone, CoordinatorOK, Steps, worldVars
  <2>6. ReportSoFar'
    BY <1>0, <2>1, <2>2, <2>4 DEF ReportSoFar, Tells
  <2>7. ASSUME crashes' = 0 PROVE CountSoFar'
    <3>1. CountSoFar
      BY <2>1, <2>7 DEF RInv
    <3>2. copy'.at = "none" /\ copy'.origin = NoOrigin /\ copy'.todo = {} /\ copy'.count = 0
      BY <2>1 DEF NoCopy
    <3>3. \A o \in Origin : Imported(o)' = Imported(o)
      BY <2>1 DEF Imported
    <3>4. Whole' = Whole
      BY <2>2, <3>2, <3>3 DEF Whole
    <3>5. Cardinality(Whole') = copy.count /\ ~leftover
      BY <2>1, <3>1, <3>4 DEF CountSoFar
    <3> HIDE DEF Whole
    <3>6. Origins(report', Cardinality(Whole'))
      BY <2>1, <2>3, <3>5
    <3> QED
      BY <2>1, <2>2, <3>2, <3>5, <3>6 DEF CountSoFar, Origins
  <2> QED
    BY <2>5, <2>6, <2>7
<1> QED
  BY <1>1, <1>2, <1>3, <1>4, <1>5, <1>6, <1>7, <1>8 DEF Reply

(* The copy counts what it publishes. *)
LEMMA CopyCounts ==
    ASSUME RInv, crashes = 0, Copying
    PROVE  CountSoFar'
<1>0. /\ CountSoFar /\ DiskInv /\ StageInv /\ StageTypeOK /\ InProgress /\ OneCopy
      /\ OriginsAreWhole /\ ListIsExact
      /\ CopyStep /\ UNCHANGED <<step, carriers, report>>
  BY DEF RInv, WholeInv, DiskInv, StageInv, Copying, coordinatorVars
<1>1. copy.at # "none" /\ step = "indexedDb"
  BY <1>0, CopyKeepsStores DEF OneCopy
<1>2. CASE CopyBegins \/ CopyCannotBegin
  <2>1. \A o \in Origin : Imported(o) = {} /\ Imported(o)' = {}
    BY <1>0, <1>2 DEF CopyBegins, CopyCannotBegin, CountSoFar, Imported
  <2>2. Whole' = {}
    BY <2>1 DEF Whole
  <2>3. copy'.count = 0 /\ copy'.at \in {"next", "returned"}
    BY <1>0, <1>2 DEF CopyBegins, CopyCannotBegin, CountSoFar, StageTypeOK
  <2>4. IsFiniteSet(Whole') /\ Cardinality(Whole') = copy'.count
    BY <2>2, <2>3, FS_EmptySet
  <2>5. \A o \in copy'.todo : source'[o] # {}
    <3>1. CASE CopyBegins
      <4>1. copy'.todo = {o \in Origin : source[o] # {}} /\ source' = source
        BY <1>0, <3>1 DEF CopyBegins, StageTypeOK
      <4> QED
        BY <4>1
    <3>2. CASE CopyCannotBegin
      BY <1>0, <3>2 DEF CopyCannotBegin, CountSoFar, StageTypeOK
    <3> QED
      BY <1>2, <3>1, <3>2
  <2>6. leftover' => copy'.at \in {"next", "publish"}
    BY <1>0, <1>2 DEF CopyBegins, CopyCannotBegin, CountSoFar, StageTypeOK
  <2> HIDE DEF Whole
  <2> QED
    BY <1>0, <1>1, <2>3, <2>4, <2>5, <2>6 DEF CountSoFar
<1>3. ASSUME \A o \in Origin \ {copy.origin, copy'.origin} : Imported(o)' = Imported(o),
             copy'.origin # copy.origin =>
                 \A o \in Origin : /\ o = copy.origin => Imported(o)' = {}
                                   /\ o = copy'.origin => Imported(o) = {},
             copy'.count = copy.count, copy'.todo \subseteq copy.todo,
             UNCHANGED <<source, leftover>>,
             copy.at \in {"next", "publish"}, copy'.at \in {"next", "publish"},
             copy'.at = "publish" => source[copy'.origin] # {}
      PROVE  CountSoFar'
  <2>1. Whole' = Whole
    <3>1. Whole' = {o \in Origin \ {copy'.origin} : Imported(o)' # {}}
      BY DEF Whole
    <3>2. ASSUME NEW o \in Origin PROVE o \in Whole' <=> o \in Whole
      <4>1. CASE o \notin {copy.origin, copy'.origin}
        BY <1>3, <3>1, <4>1 DEF Whole
      <4>2. CASE o = copy.origin
        BY <1>3, <3>1, <4>2 DEF Whole
      <4>3. CASE o = copy'.origin /\ o # copy.origin
        BY <1>3, <3>1, <4>3 DEF Whole
      <4> QED
        BY <4>1, <4>2, <4>3
    <3>3. Whole \subseteq Origin /\ Whole' \subseteq Origin
      BY <3>1 DEF Whole
    <3> QED
      BY <3>2, <3>3
  <2>2. IsFiniteSet(Whole') /\ Cardinality(Whole') = copy'.count
    BY <1>0, <1>3, <2>1 DEF CountSoFar
  <2> HIDE DEF Whole
  <2> QED
    BY <1>0, <1>1, <1>3, <2>2 DEF CountSoFar
<1>4. ASSUME NEW o \in Origin, SkipOrigin(o)
      PROVE  CountSoFar'
  BY <1>0, <1>3, <1>4 DEF SkipOrigin, StageTypeOK, InProgress, Imported
<1>5. ASSUME NEW o \in Origin, StageOrigin(o)
      PROVE  CountSoFar'
  <2>1. copy.origin = NoOrigin /\ copy.origin \notin Origin
    BY <1>0, <1>5, IndexedDbStageAssumption DEF StageOrigin, InProgress
  <2>2. Imported(o) = {}
    BY <1>0, <1>5, <2>1 DEF StageOrigin, OriginsAreWhole, Imported
  <2>3. \A q \in Origin : Imported(q)' = Imported(q)
    BY <1>5 DEF StageOrigin, Imported
  <2>4. /\ copy'.origin = o /\ copy'.at = "publish" /\ copy'.todo \subseteq copy.todo
        /\ copy'.count = copy.count /\ copy.at = "next" /\ o \in copy.todo
        /\ UNCHANGED <<source, leftover>>
    BY <1>0, <1>5 DEF StageOrigin, StageTypeOK
  <2> QED
    BY <1>0, <1>3, <2>1, <2>2, <2>3, <2>4 DEF CountSoFar
<1>6. ASSUME NEW m \in Member, PublishMember(m)
      PROVE  CountSoFar'
  <2>1. /\ copy'.origin = copy.origin /\ copy'.at = "publish" /\ copy'.todo = copy.todo
        /\ copy'.count = copy.count /\ copy.at = "publish" /\ copy.origin \in Origin
        /\ UNCHANGED <<source, leftover>>
    BY <1>0, <1>6 DEF PublishMember, StageTypeOK, InProgress
  <2>2. \A q \in Origin \ {copy.origin} : Imported(q)' = Imported(q)
    BY <1>0, <1>6, <2>1 DEF PublishMember, Imported, StageTypeOK
  <2> QED
    BY <1>0, <1>3, <2>1, <2>2 DEF CountSoFar
<1>7. CASE PublishFails
  <2>1. PICK q \in Origin : q = copy.origin
    BY <1>0, <1>7 DEF PublishFails, InProgress
  <2>2. \A o \in Origin \ {q} : Imported(o)' = Imported(o)
    BY <1>0, <1>7, <2>1 DEF PublishFails, RollBack, Imported, StageTypeOK
  <2>3. \A m \in Member : dest'[q][m] = IF m \in copy.published THEN "none" ELSE dest[q][m]
    BY <1>0, <1>7, <2>1 DEF PublishFails, RollBack, StageTypeOK
  <2>4. Imported(q)' = {}
    BY <1>0, <1>7, <2>1, <2>3 DEF PublishFails, Imported, ListIsExact
  <2>5. /\ copy'.origin = NoOrigin /\ copy'.at = "next" /\ copy'.todo = copy.todo
        /\ copy'.count = copy.count /\ copy.at = "publish"
        /\ UNCHANGED <<source, leftover>>
    BY <1>0, <1>7 DEF PublishFails, StageTypeOK
  <2> QED
    BY <1>3, <2>1, <2>2, <2>4, <2>5, IndexedDbStageAssumption
<1>8. CASE OriginDone
  <2>1. PICK q \in Origin : q = copy.origin
    BY <1>0, <1>8 DEF OriginDone, InProgress
  <2>2. \A o \in Origin : Imported(o)' = Imported(o)
    BY <1>8 DEF OriginDone, Imported
  <2>3. /\ copy'.origin = NoOrigin /\ copy'.at = "next" /\ copy'.todo = copy.todo
        /\ copy'.count = copy.count + 1 /\ copy.at = "publish" /\ copy.staged = copy.published
        /\ UNCHANGED <<source, leftover>>
    BY <1>0, <1>8 DEF OriginDone, StageTypeOK
  <2>4. Imported(q) # {}
    BY <1>0, <2>1, <2>3 DEF ListIsExact, CountSoFar
  <2>5. Whole' = Whole \cup {q} /\ q \notin Whole
    BY <2>1, <2>2, <2>3, <2>4, IndexedDbStageAssumption DEF Whole
  <2>6. IsFiniteSet(Whole) /\ Cardinality(Whole) = copy.count
    BY <1>0, <2>3 DEF CountSoFar
  <2> HIDE DEF Whole
  <2>7. IsFiniteSet(Whole') /\ Cardinality(Whole') = copy'.count
    BY <2>3, <2>5, <2>6, FS_AddElement
  <2> QED
    BY <1>0, <1>1, <2>3, <2>7 DEF CountSoFar
<1>9. CASE CopyReturns
  <2>1. /\ copy'.at = "returned" /\ copy'.todo = copy.todo /\ copy'.count = copy.count
        /\ copy'.origin = copy.origin /\ copy.at = "next"
        /\ leftover' = FALSE /\ UNCHANGED <<source, dest>>
    BY <1>0, <1>9 DEF CopyReturns, StageTypeOK
  <2>2. Whole' = Whole
    BY <2>1 DEF Whole, Imported
  <2> HIDE DEF Whole
  <2>3. IsFiniteSet(Whole') /\ Cardinality(Whole') = copy'.count
    BY <1>0, <2>1, <2>2 DEF CountSoFar
  <2> QED
    BY <1>0, <1>1, <2>1, <2>3 DEF CountSoFar
<1> QED
  BY <1>0, <1>2, <1>4, <1>5, <1>6, <1>7, <1>8, <1>9 DEF CopyStep

(* Every step preserves it. *)
LEMMA NextRInv == RInv /\ [Next]_vars => RInv'
<1> SUFFICES ASSUME RInv, [Next]_vars PROVE RInv'
  OBVIOUS
<1>0. WholeInv' /\ WholeInv /\ DiskInv /\ StageInv /\ CoordinatorOK /\ ReportSoFar
      /\ (crashes = 0 => CountSoFar)
  BY StepKeepsWhole DEF RInv, WholeInv, DiskInv
<1>1. CASE Reply \/ \E requested \in Requests, enabled \in BOOLEAN : Run(requested, enabled)
  BY <1>0, <1>1, CoordinatorKeepsReport DEF RInv
<1>2. ASSUME UNCHANGED <<coordinatorVars, crashes, readable>>,
             edge' \in BOOLEAN, localData' \in BOOLEAN
      PROVE  CoordinatorOK' /\ ReportSoFar'
  <2>1. Secrets' = Secrets /\ AllButIndexedDb' = AllButIndexedDb
    BY <1>2 DEF Secrets, AllButIndexedDb, coordinatorVars
  <2> QED
    BY <1>0, <1>2, <2>1 DEF CoordinatorOK, ReportSoFar, coordinatorVars
<1>3. CASE Copying
  <2>1. CoordinatorOK' /\ ReportSoFar' /\ crashes' = crashes
    BY <1>0, <1>2, <1>3 DEF Copying, worldVars, CoordinatorOK
  <2> QED
    BY <1>0, <1>3, <2>1, CopyCounts DEF RInv
<1>4. CASE PageOpensStore
  <2>1. CoordinatorOK' /\ ReportSoFar' /\ crashes' = crashes
    BY <1>0, <1>2, <1>4 DEF PageOpensStore, worldVars, CoordinatorOK
  <2>2. PICK o \in Origin, m \in Member : BrowserCreates(o, m)
    BY <1>4 DEF PageOpensStore
  <2>3. \A q \in Origin : Imported(q)' = Imported(q)
    BY <1>0, <2>2 DEF BrowserCreates, Imported, StageInv, StageTypeOK
  <2>4. UNCHANGED <<source, leftover, copy, step, carriers, report>>
    BY <1>4, <2>2 DEF BrowserCreates, PageOpensStore, coordinatorVars
  <2>5. Whole' = Whole
    BY <2>3, <2>4 DEF Whole
  <2> HIDE DEF Whole
  <2>6. ASSUME CountSoFar PROVE CountSoFar'
    BY <2>3, <2>4, <2>5, <2>6 DEF CountSoFar, Origins
  <2> QED
    BY <1>0, <2>1, <2>6 DEF RInv
<1>5. CASE EdgeSwitches \/ PageWritesLocalStorage \/ UNCHANGED vars
  <2>1. UNCHANGED <<stageVars, coordinatorVars, crashes, readable>>
        /\ edge' \in BOOLEAN /\ localData' \in BOOLEAN
    BY <1>0, <1>5 DEF EdgeSwitches, PageWritesLocalStorage, vars, worldVars, CoordinatorOK
  <2>2. CoordinatorOK' /\ ReportSoFar'
    BY <1>2, <2>1
  <2>3. \A q \in Origin : Imported(q)' = Imported(q)
    BY <2>1 DEF Imported, stageVars
  <2>4. UNCHANGED <<source, leftover, copy, step, carriers, report>>
    BY <2>1 DEF stageVars, coordinatorVars
  <2>5. Whole' = Whole
    BY <2>3, <2>4 DEF Whole
  <2> HIDE DEF Whole
  <2>6. ASSUME CountSoFar PROVE CountSoFar'
    BY <2>3, <2>4, <2>5, <2>6 DEF CountSoFar, Origins
  <2> QED
    BY <1>0, <2>1, <2>2, <2>6 DEF RInv
<1>6. CASE Crash
  <2>1. crashes' \in 0..MaxCrashes /\ crashes' # 0
    BY <1>0, <1>6, EdgeImportAssumption DEF Crash, CoordinatorOK
  <2>2. CoordinatorOK'
    BY <1>0, <1>6, <2>1, EdgeImportAssumption
       DEF Crash, CoordinatorOK, Steps, NoPreflight, NoSecret, NoLocal, Count, worldVars
  <2>3. ReportSoFar'
    BY <1>6 DEF Crash, ReportSoFar
  <2> QED
    BY <1>0, <2>1, <2>2, <2>3 DEF RInv
<1> QED
  BY <1>1, <1>3, <1>4, <1>5, <1>6 DEF Next

(* The report of an import is complete and true, for any set of carriers, any *)
(* number of origins and entries and any interleaving with Edge, the pages    *)
(* and crashes: each requested carrier has one outcome and no other has one,  *)
(* done_ runs once, and before any crash the count of the IndexedDB outcome   *)
(* is the number of origins CopyStores really published.                      *)
THEOREM TheReportIsTrue == Spec => []ReportInv
<1>1. Init => RInv
  BY InitRInv
<1>2. RInv /\ [Next]_vars => RInv'
  BY NextRInv
<1>3. RInv => ReportInv
  BY RInvIsEnough
<1> QED
  BY <1>1, <1>2, <1>3, PTL DEF Spec
=============================================================================
