--------------------------- MODULE IndexedDbStage ---------------------------
(***************************************************************************)
(* The IndexedDB stage of an Edge import                                   *)
(* (roamux_indexed_db_import_stage.cc): CopyStores, a task of the thread   *)
(* pool that copies each origin's store directories into the profile's     *)
(* IndexedDB/ directory, while the browser may create stores there itself. *)
(*                                                                         *)
(* An origin's store is one directory or, for the legacy format, two (the  *)
(* leveldb and the blob directory).  Each rename is a step of its own.     *)
(***************************************************************************)
EXTENDS Naturals, FiniteSets

CONSTANTS
    Origin,    \* origins with a store, here or there (OriginBase)
    Member,    \* the directories an origin's store may have
    NoOrigin

ASSUME IndexedDbStageAssumption == NoOrigin \notin Origin

VARIABLES
    source,    \* Edge's IndexedDB/: the directories of each origin
    dest,      \* the profile's IndexedDB/: who made each directory, if anyone
    leftover,  \* a staging root is in the profile's IndexedDB/
    copy       \* CopyStores: where it is, and what it has done

stageVars == <<source, dest, leftover, copy>>

NoCopy == [at |-> "none", todo |-> {}, origin |-> NoOrigin, staged |-> {},
           published |-> {}, count |-> 0]

(* Import posts CopyStores. *)
Posted == [NoCopy EXCEPT !.at = "posted"]

(* DirHasEntries(<profile>/IndexedDB). *)
DestInitialized == leftover \/ \E o \in Origin : \E m \in Member : dest[o][m] # "none"
-----------------------------------------------------------------------------
(* The task starts: it makes its staging root and groups the directories by  *)
(* origin...                                                                 *)
CopyBegins ==
    /\ copy.at = "posted"
    /\ copy' = [copy EXCEPT !.at = "next", !.todo = {o \in Origin : source[o] # {}}]
    /\ leftover' = TRUE
    /\ UNCHANGED <<source, dest>>

(* ... or cannot make it and returns 0. *)
CopyCannotBegin ==
    /\ copy.at = "posted"
    /\ copy' = [copy EXCEPT !.at = "returned"]
    /\ UNCHANGED <<source, dest, leftover>>

(* The next origin has a directory there already, or a copy of it fails... *)
SkipOrigin(o) ==
    /\ copy.at = "next" /\ o \in copy.todo
    /\ copy' = [copy EXCEPT !.todo = @ \ {o}]
    /\ UNCHANGED <<source, dest, leftover>>

(* ... or all of its directories are copied to the staging root. *)
StageOrigin(o) ==
    /\ copy.at = "next" /\ o \in copy.todo
    /\ \A m \in source[o] : dest[o][m] = "none"
    /\ copy' = [copy EXCEPT !.at = "publish", !.todo = @ \ {o}, !.origin = o,
                            !.staged = source[o]]
    /\ UNCHANGED <<source, dest, leftover>>

(* PublishExclusive of one directory: a rename that fails where one exists. *)
CanReplace(m) == TRUE
CanPublish(m) == dest[copy.origin][m] = "none"

PublishMember(m) ==
    /\ copy.at = "publish" /\ m \in copy.staged \ copy.published
    /\ CanPublish(m)
    /\ dest' = [dest EXCEPT ![copy.origin][m] = "import"]
    /\ copy' = [copy EXCEPT !.published = @ \cup {m}]
    /\ UNCHANGED <<source, leftover>>

(* The rename fails: what was published of this origin is deleted again. *)
KeepsPublished(o, published) == UNCHANGED dest
RollBack(o, published) ==
    dest' = [dest EXCEPT ![o] = [m \in Member |-> IF m \in published THEN "none" ELSE @[m]]]

PublishFails ==
    /\ copy.at = "publish" /\ copy.staged # copy.published
    /\ RollBack(copy.origin, copy.published)
    /\ copy' = [copy EXCEPT !.at = "next", !.origin = NoOrigin, !.staged = {},
                            !.published = {}]
    /\ UNCHANGED <<source, leftover>>

(* All directories of the origin are published: it counts.                    *)
OriginDone ==
    /\ copy.at = "publish" /\ copy.staged = copy.published
    /\ copy' = [copy EXCEPT !.at = "next", !.origin = NoOrigin, !.staged = {},
                            !.published = {}, !.count = @ + 1]
    /\ UNCHANGED <<source, dest, leftover>>

(* No origin is left: the staging root is swept and the count returned. *)
SweepsNothing ==
    /\ copy.at = "next" /\ copy.todo = {}
    /\ copy' = [copy EXCEPT !.at = "returned"]
    /\ UNCHANGED <<source, dest, leftover>>

CopyReturns ==
    /\ copy.at = "next" /\ copy.todo = {}
    /\ copy' = [copy EXCEPT !.at = "returned"]
    /\ leftover' = FALSE
    /\ UNCHANGED <<source, dest>>

(* Meanwhile a page opens a store of its own (external). *)
BrowserCreates(o, m) ==
    /\ dest[o][m] = "none"
    /\ dest' = [dest EXCEPT ![o][m] = "browser"]
    /\ UNCHANGED <<source, leftover, copy>>

StageInit ==
    /\ source \in [Origin -> SUBSET Member]
    /\ dest \in [Origin -> [Member -> {"none", "browser"}]]
    /\ leftover = FALSE
    /\ copy = NoCopy

CopyStep ==
    \/ CopyBegins \/ CopyCannotBegin \/ PublishFails \/ OriginDone \/ CopyReturns
    \/ \E o \in Origin : SkipOrigin(o) \/ StageOrigin(o)
    \/ \E m \in Member : PublishMember(m)
-----------------------------------------------------------------------------
StageTypeOK ==
    /\ source \in [Origin -> SUBSET Member]
    /\ dest \in [Origin -> [Member -> {"none", "browser", "import"}]]
    /\ leftover \in BOOLEAN
    /\ copy \in [at : {"none", "posted", "next", "publish", "returned"},
                 todo : SUBSET Origin, origin : Origin \cup {NoOrigin},
                 staged : SUBSET Member, published : SUBSET Member, count : Nat]
    /\ copy.published \subseteq copy.staged

Imported(o) == {m \in Member : dest[o][m] = "import"}
=============================================================================
