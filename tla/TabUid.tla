------------------------------- MODULE TabUid -------------------------------
(***************************************************************************)
(* Durable tab identity: the per-profile registry (tab_uid_service.cc) and *)
(* the helper attached to each WebContents (tab_uid_tab_helper.cc).        *)
(*                                                                         *)
(* A tab of the strip shows one WebContents; a discard swaps it for        *)
(* another one while the tab lives on.  Every WebContents has a SessionID  *)
(* of its own, so contents stand for the registry's tab ids too.  A total  *)
(* function with NoUid or NoContents stands for a map without that key.    *)
(***************************************************************************)
EXTENDS Naturals

CONSTANTS
    Tab,        \* tabs (TabHandle)
    Contents,   \* WebContents, and their SessionIDs
    Uid,        \* well-formed uids (lowercase UUIDv4)
    Malformed,  \* a restored value that does not parse
    NoUid, NoContents

ASSUME TabUidAssumption ==
    /\ Malformed \notin Uid /\ NoUid \notin Uid /\ NoUid # Malformed
    /\ NoContents \notin Contents

VARIABLES
    contentsOf,  \* the WebContents each tab shows
    helper,      \* the uid_ of the helper attached to each WebContents
    pending,     \* PendingRestoredTabUid stashed on each WebContents
    uidByTab,    \* uid_by_tab_
    tabByUid,    \* tab_by_uid_
    minted       \* every uid minted so far: what session data may hold

vars == <<contentsOf, helper, pending, uidByTab, tabByUid, minted>>

Shown(w) == \E t \in Tab : contentsOf[t] = w

(* A WebContents the program has not created (or has destroyed). *)
Unused(w) == ~Shown(w) /\ helper[w] = NoUid /\ pending[w] = NoUid

IsLive(uid) == tabByUid[uid] # NoContents
-----------------------------------------------------------------------------
(* The registry's methods on its pair of maps r = [uid, tab]. *)
Registry == [uid |-> uidByTab, tab |-> tabByUid]

Unregister(r, w) ==
    IF r.uid[w] = NoUid THEN r
    ELSE [uid |-> [r.uid EXCEPT ![w] = NoUid],
          tab |-> [r.tab EXCEPT ![r.uid[w]] = NoContents]]

Register(r, w, uid) ==
    LET freed == Unregister(r, w)
    IN  [uid |-> [freed.uid EXCEPT ![w] = uid],
         tab |-> [freed.tab EXCEPT ![uid] = w]]

(* AdoptOrRestamp and the constructor's choice: a restored uid is adopted if *)
(* it is well-formed and not live, otherwise `fresh` is minted.              *)
AdoptsLiveUid(r, restored) == restored \in Uid
Adopts(r, restored) == restored \in Uid /\ r.tab[restored] = NoContents

EffectiveUid(r, restored, fresh) == IF Adopts(r, restored) THEN restored ELSE fresh

(* The TabUidTabHelper constructor on contents w, after the registry r: take *)
(* the pending uid, register, keep it (and stamp it into the session).       *)
Attach(r, w, restored, fresh) ==
    LET uid == EffectiveUid(r, restored, fresh)
        after == Register(r, w, uid)
    IN  /\ uidByTab' = after.uid
        /\ tabByUid' = after.tab
        /\ helper' = [helper EXCEPT ![w] = uid]
        /\ pending' = [pending EXCEPT ![w] = NoUid]
        /\ minted' = minted \cup {uid}
-----------------------------------------------------------------------------
(* A tab is inserted; if it is restored, SetPendingRestoredUid has stashed    *)
(* the uid of its session data first.  `restored` may be any uid ever         *)
(* stamped, live or not (the same entry restored twice), or malformed.        *)
OpenTab(t, w, restored) ==
    /\ contentsOf[t] = NoContents /\ Unused(w)
    /\ restored \in minted \cup {Malformed, NoUid}
    /\ contentsOf' = [contentsOf EXCEPT ![t] = w]
    /\ pending' = [pending EXCEPT ![w] = restored]
    /\ UNCHANGED <<helper, uidByTab, tabByUid, minted>>

(* The tab's helpers are attached; contents that have one already keep it. *)
MaybeCreateForTab(t, fresh) ==
    LET w == contentsOf[t]
    IN  /\ w # NoContents /\ helper[w] = NoUid
        /\ fresh \in Uid \ minted
        /\ Attach(Registry, w, pending[w], fresh)
        /\ UNCHANGED contentsOf

(* Which registry the discard's new helper finds: the old uid freed. *)
OldUidStillLive(old) == Registry
AfterOldIsFreed(old) == Unregister(Registry, old)

(* The tab is discarded: free the uid under the old contents, hand it to the  *)
(* new ones through the pending channel and attach a helper there.  The old   *)
(* contents, with their helper, are destroyed later.                          *)
WillDiscardContents(t, new, fresh) ==
    LET old == contentsOf[t]
    IN  /\ old # NoContents /\ helper[old] # NoUid /\ Unused(new)
        /\ fresh \in Uid \ minted
        /\ contentsOf' = [contentsOf EXCEPT ![t] = new]
        /\ Attach(AfterOldIsFreed(old), new, helper[old], fresh)

(* The helper's destructor frees whatever its contents still hold. *)
Destroyed(w) ==
    /\ uidByTab' = Unregister(Registry, w).uid
    /\ tabByUid' = Unregister(Registry, w).tab
    /\ helper' = [helper EXCEPT ![w] = NoUid]
    /\ pending' = [pending EXCEPT ![w] = NoUid]
    /\ UNCHANGED minted

(* Closing a tab destroys the contents it shows. *)
CloseTab(t) ==
    /\ contentsOf[t] # NoContents
    /\ Destroyed(contentsOf[t])
    /\ contentsOf' = [contentsOf EXCEPT ![t] = NoContents]

(* The contents a discard left behind go away. *)
DestroyDiscarded(w) ==
    /\ helper[w] # NoUid /\ ~Shown(w)
    /\ Destroyed(w)
    /\ UNCHANGED contentsOf

Init ==
    /\ contentsOf = [t \in Tab |-> NoContents]
    /\ helper = [w \in Contents |-> NoUid]
    /\ pending = [w \in Contents |-> NoUid]
    /\ uidByTab = [w \in Contents |-> NoUid]
    /\ tabByUid = [uid \in Uid |-> NoContents]
    /\ minted = {}

Next ==
    \/ \E t \in Tab, w \in Contents, restored \in Uid \cup {Malformed, NoUid} :
          OpenTab(t, w, restored)
    \/ \E t \in Tab, fresh \in Uid : MaybeCreateForTab(t, fresh)
    \/ \E t \in Tab, new \in Contents, fresh \in Uid : WillDiscardContents(t, new, fresh)
    \/ \E t \in Tab : CloseTab(t)
    \/ \E w \in Contents : DestroyDiscarded(w)

Spec == Init /\ [][Next]_vars
-----------------------------------------------------------------------------
(* Every variable has its type. *)
TypeOK ==
    /\ contentsOf \in [Tab -> Contents \cup {NoContents}]
    /\ helper \in [Contents -> Uid \cup {NoUid}]
    /\ pending \in [Contents -> Uid \cup {Malformed, NoUid}]
    /\ uidByTab \in [Contents -> Uid \cup {NoUid}]
    /\ tabByUid \in [Uid -> Contents \cup {NoContents}]
    /\ minted \subseteq Uid

(* The uid of the tab t, NoUid until its helper is attached. *)
UidOf(t) == IF contentsOf[t] = NoContents THEN NoUid ELSE helper[contentsOf[t]]

(* E4 contract, tab_uid_service.h: no two live tabs share a uid, although     *)
(* session data may be restored twice, a discard hands a uid from one         *)
(* WebContents to another, and the discarded helper outlives the hand-over.   *)
NoTwoLiveTabsShareAUid ==
    \A t1, t2 \in Tab : UidOf(t1) # NoUid /\ UidOf(t1) = UidOf(t2) => t1 = t2

(* The registry holds exactly the uids of the tabs in the strip: closing a    *)
(* tab frees its uid for a reopen, and the late destructor of discarded       *)
(* contents takes nothing from the tab that lives on.                         *)
RegistryHoldsTheStrip ==
    \A w \in Contents : uidByTab[w] = IF Shown(w) THEN helper[w] ELSE NoUid

(* The two maps of the registry are inverse to each other. *)
RegistryIsOneToOne ==
    /\ \A w \in Contents : uidByTab[w] # NoUid => tabByUid[uidByTab[w]] = w
    /\ \A uid \in Uid : tabByUid[uid] # NoContents => uidByTab[tabByUid[uid]] = uid

(* The registry's contract as a whole: uids are unique among live tabs, held   *)
(* exactly for the strip, and the two maps agree.                             *)
RegistryInv ==
    TypeOK /\ NoTwoLiveTabsShareAUid /\ RegistryHoldsTheStrip /\ RegistryIsOneToOne

(* A tab keeps its uid for as long as it is open: a discard does not re-stamp *)
(* it, and neither does a newcomer restored with the same uid.                *)
UidIsDurable ==
    [][\A t \in Tab : UidOf(t) # NoUid /\ contentsOf'[t] # NoContents
                         => UidOf(t)' = UidOf(t)]_vars
=============================================================================
