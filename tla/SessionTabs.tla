----------------------------- MODULE SessionTabs -----------------------------
(***************************************************************************)
(* The tabs of a window with both of their durable attributes: the uid     *)
(* (TabUid) and the initial URL (tab_initial_url_helper.cc), which the     *)
(* same hooks create, hand over at a discard, write into the session and   *)
(* restore from it; and the commands on the initial URL (the tab's menu,   *)
(* the edit dialog, reload).                                               *)
(*                                                                         *)
(* iu[w] is the TabInitialUrlHelper of the contents w; a helper that has   *)
(* captured nothing is not told apart from none.                           *)
(***************************************************************************)
EXTENDS TabUid, FiniteSets

CONSTANTS
    Web, File, Blank, Ntp,  \* an http(s) page, a file, about:blank, the new-tab page
    Url,                    \* the URLs of the instance
    NoUrl, Garbage,         \* no extra data; extra data that does not decode
    Navigations,            \* what DidFinishNavigation may be told
    MaxClosed               \* closed tabs that can be restored

VARIABLES
    iu,        \* initial_url_, captured_, user_locked_, pending_session_write_
    session,   \* the initial URL the session file holds under each contents' tab id
    otr,       \* the profile is off the record
    closed,    \* extra data of tabs that are gone, restorable
    carried,   \* history: contents that took over at a discard, not written since
    chosen     \* history: the URL the user last wrote for the tab, as session data has it

urlVars == <<iu, session, otr, closed, carried, chosen>>
sessionVars == <<vars, urlVars>>

None == [url |-> NoUrl, captured |-> FALSE, locked |-> FALSE, pendingWrite |-> FALSE]
NoData == [url |-> NoUrl, locked |-> FALSE]

Helper == [url : Url \cup {NoUrl}, captured : BOOLEAN, locked : BOOLEAN, pendingWrite : BOOLEAN]
ExtraData == [url : Url \cup {NoUrl, Garbage}, locked : BOOLEAN]
-----------------------------------------------------------------------------
IsIgnorableStart(u) == u \in {Blank, Ntp}

IsAllowedInitialUrl(u) == u \in Web \cup {Blank}

(* The extra data of a helper: NoData unless it has captured something. *)
EncodeExtraData(h) == IF h.captured THEN [url |-> h.url, locked |-> h.locked] ELSE NoData

DecodeExtraData(d) == d.url \notin {NoUrl, Garbage} /\ IsAllowedInitialUrl(d.url)

(* SetRestoredInitialUrl; data that does not decode leaves nothing captured. *)
SetPendingRestoredInitialUrl(d) ==
    IF DecodeExtraData(d)
    THEN [url |-> d.url, captured |-> TRUE, locked |-> d.locked, pendingWrite |-> TRUE]
    ELSE None

(* PersistToSession for contents w whose helper is now h: off the record there is *)
(* no session, and the tab id of contents a discard replaced is in no window.     *)
PersistToSession(w, h) ==
    IF otr \/ ~Shown(w) THEN UNCHANGED <<session, carried>>
    ELSE /\ session' = [session EXCEPT ![w] = EncodeExtraData(h)]
         /\ carried' = carried \ {w}

(* What a navigation must be for its head to be captured. *)
UserIntended(n) ==
    /\ n.primary /\ n.committed /\ ~n.sameDocument
    /\ ~n.activation
    /\ ~n.clientRedirect
    /\ n.rendererInitiated => n.onlyEntry
    /\ ~IsIgnorableStart(n.url) /\ ~IsIgnorableStart(n.head)

ASSUME SessionTabsAssumption ==
    /\ NoUrl \notin Url /\ File \in Url
    /\ \A n \in Navigations : UserIntended(n) => n.head \in Url
-----------------------------------------------------------------------------
(* Contents that exist and that the program can still act on. *)
Exists(w) == Shown(w) \/ helper[w] # NoUid

NewTab(t, w) == OpenTab(t, w, NoUid) /\ UNCHANGED urlVars

(* The user's choice is all a restored tab has of its history. *)
ChosenIn(d) == IF DecodeExtraData(d) /\ d.locked THEN d.url ELSE NoUrl

(* AddRestoredTab: both attributes are armed before the first navigation. *)
RestoreTab(t, w, e) ==
    /\ OpenTab(t, w, e.uid)
    /\ iu' = [iu EXCEPT ![w] = SetPendingRestoredInitialUrl(e.data)]
    /\ chosen' = [chosen EXCEPT ![w] = ChosenIn(e.data)]
    /\ UNCHANGED <<session, otr, closed, carried>>

AttachHelpers(t, fresh) == MaybeCreateForTab(t, fresh) /\ UNCHANGED urlVars

(* A discard carries the value and its state over, but not the pending write,    *)
(* and writes nothing itself.                                                    *)
CarryOver(h) == [h EXCEPT !.pendingWrite = FALSE]

DiscardTab(t, new, fresh) ==
    /\ WillDiscardContents(t, new, fresh)
    /\ iu' = [iu EXCEPT ![new] = CarryOver(iu[contentsOf[t]])]
    /\ chosen' = [chosen EXCEPT ![new] = chosen[contentsOf[t]]]
    /\ carried' = (carried \cup {new}) \ {contentsOf[t]}
    /\ session' = [session EXCEPT ![contentsOf[t]] = NoData]
    /\ UNCHANGED <<otr, closed>>

(* Contents w are destroyed, and their tab's extra data may stay restorable. *)
Forget(w) ==
    /\ iu' = [iu EXCEPT ![w] = None] /\ chosen' = [chosen EXCEPT ![w] = NoUrl]
    /\ session' = [session EXCEPT ![w] = NoData]
    /\ carried' = carried \ {w}
    /\ UNCHANGED otr

Remember(w, data) ==
    LET e == [uid |-> helper[w], data |-> data]
    IN  closed' = IF Cardinality(closed \cup {e}) <= MaxClosed THEN closed \cup {e} ELSE {e}

(* The user closes the tab: PopulateExtraData hands out the live values. *)
UserClosesTab(t) ==
    LET w == contentsOf[t]
    IN  CloseTab(t) /\ Forget(w) /\ Remember(w, EncodeExtraData(iu[w]))

(* The tab goes down with the browser: the session file is what is left. *)
TabIsLost(t) ==
    LET w == contentsOf[t]
    IN  CloseTab(t) /\ Forget(w) /\ Remember(w, session[w])

DiscardedGoes(w) == DestroyDiscarded(w) /\ Forget(w) /\ UNCHANGED closed

(* A navigation of contents w ends. *)
CapturesAgain(w, n) ==
    /\ UserIntended(n)
    /\ LET h == [iu[w] EXCEPT !.url = n.head, !.captured = TRUE]
       IN  iu' = [iu EXCEPT ![w] = h] /\ PersistToSession(w, h)
DidFinishNavigation(w, n) ==
    IF iu[w].captured \/ iu[w].locked
    THEN /\ iu[w].pendingWrite /\ n.primary /\ n.committed
         /\ iu' = [iu EXCEPT ![w].pendingWrite = FALSE]
         /\ PersistToSession(w, iu[w])
    ELSE /\ UserIntended(n)
         /\ LET h == [iu[w] EXCEPT !.url = n.head, !.captured = TRUE]
            IN  iu' = [iu EXCEPT ![w] = h] /\ PersistToSession(w, h)

Navigate(w, n) ==
    /\ Shown(w) /\ helper[w] # NoUid
    /\ DidFinishNavigation(w, n)
    /\ UNCHANGED <<vars, otr, closed, chosen>>

(* Reload to the initial URL: a typed navigation to it commits. *)
CanReloadInitialUrlForContents(w) == iu[w].captured /\ iu[w].url # Garbage

ReloadInitialUrl(t) ==
    LET w == contentsOf[t]
        n == [url |-> iu[w].url, head |-> iu[w].url, primary |-> TRUE, committed |-> TRUE,
              sameDocument |-> FALSE, activation |-> FALSE, clientRedirect |-> FALSE,
              rendererInitiated |-> FALSE, onlyEntry |-> FALSE]
    IN  /\ w # NoContents /\ CanReloadInitialUrlForContents(w)
        /\ Navigate(w, n)

(* A user write: refused outside the allowlist. *)
EditNotWritten(w, u) ==
    /\ IsAllowedInitialUrl(u)
    /\ iu' = [iu EXCEPT ![w] = [@ EXCEPT !.url = u, !.captured = TRUE, !.locked = TRUE]]
    /\ UNCHANGED <<session, carried>>
SetUserInitialUrl(w, u) ==
    /\ IsAllowedInitialUrl(u)
    /\ LET h == [iu[w] EXCEPT !.url = u, !.captured = TRUE, !.locked = TRUE]
       IN  iu' = [iu EXCEPT ![w] = h] /\ PersistToSession(w, h)

(* The menu's and the dialog's contents may have been discarded by now. *)
CanSetToCurrentPage(u) == u \notin {Blank, Ntp}

SetInitialUrlToCurrentPage(w, u) ==
    /\ Exists(w) /\ CanSetToCurrentPage(u)
    /\ SetUserInitialUrl(w, u) /\ chosen' = [chosen EXCEPT ![w] = u]
    /\ UNCHANGED <<vars, otr, closed>>

(* Text that is not one URL is refused before it gets here. *)
CommitEdit(w, u) ==
    /\ Exists(w)
    /\ SetUserInitialUrl(w, u) /\ chosen' = [chosen EXCEPT ![w] = u]
    /\ UNCHANGED <<vars, otr, closed>>

(* DuplicateTabAt has just inserted t; s is the tab it duplicates. *)
OnTabDuplicated(s, t) ==
    LET from == contentsOf[s]
        to == contentsOf[t]
    IN  /\ s # t /\ from # NoContents /\ to # NoContents
        /\ helper[to] # NoUid /\ iu[to] = None /\ to \notin carried
        /\ iu[from].captured
        /\ LET h == [iu[from] EXCEPT !.pendingWrite = FALSE]
           IN  iu' = [iu EXCEPT ![to] = h] /\ PersistToSession(to, h)
        /\ chosen' = [chosen EXCEPT ![to] = chosen[from]]
        /\ UNCHANGED <<vars, otr, closed>>

(* The session service rewrites its file from the live tabs. *)
BuildTabExtraDataCommands ==
    /\ ~otr
    /\ session' = [w \in Contents |-> IF Shown(w) THEN EncodeExtraData(iu[w]) ELSE NoData]
    /\ carried' = carried \ {w \in Contents : Shown(w)}
    /\ UNCHANGED <<vars, iu, otr, closed, chosen>>

SessionInit ==
    /\ Init
    /\ iu = [w \in Contents |-> None]
    /\ session = [w \in Contents |-> NoData]
    /\ otr \in BOOLEAN
    /\ closed = {} /\ carried = {} /\ chosen = [w \in Contents |-> NoUrl]

(* Session data may have been edited by hand: the uid does not parse, the URL is *)
(* garbage or one no user could have written.                                    *)
HandEdited == {[uid |-> Malformed, data |-> [url |-> u, locked |-> TRUE]] : u \in {Garbage, File}}

SessionNext ==
    \/ \E t \in Tab, w \in Contents : NewTab(t, w)
    \/ \E t \in Tab, w \in Contents : \E e \in closed \cup HandEdited : RestoreTab(t, w, e)
    \/ \E t \in Tab, fresh \in Uid : AttachHelpers(t, fresh)
    \/ \E t \in Tab, new \in Contents, fresh \in Uid : DiscardTab(t, new, fresh)
    \/ \E t \in Tab : UserClosesTab(t) \/ TabIsLost(t) \/ ReloadInitialUrl(t)
    \/ \E w \in Contents : DiscardedGoes(w)
    \/ \E w \in Contents, n \in Navigations : Navigate(w, n)
    \/ \E w \in Contents, u \in Url : SetInitialUrlToCurrentPage(w, u) \/ CommitEdit(w, u)
    \/ \E s, t \in Tab : OnTabDuplicated(s, t)
    \/ BuildTabExtraDataCommands

SessionSpec == SessionInit /\ [][SessionNext]_sessionVars
-----------------------------------------------------------------------------
(* Types of the initial-URL state; a value is there exactly when it is captured, and *)
(* only a captured value is locked or waits to be written.                           *)
SessionTypeOK ==
    /\ iu \in [Contents -> Helper]
    /\ session \in [Contents -> ExtraData]
    /\ otr \in BOOLEAN /\ carried \subseteq Contents
    /\ closed \subseteq [uid : Uid \cup {NoUid}, data : ExtraData]
    /\ \A w \in Contents :
         /\ iu[w].captured <=> iu[w].url # NoUrl
         /\ iu[w].locked \/ iu[w].pendingWrite => iu[w].captured

(* Capture is sticky: once a tab has an initial URL, navigations, discards, reloads *)
(* and the restore's own first load leave it alone, locked or not.  Only the URL    *)
(* the user has just written replaces it, and a lock is never lost while the tab    *)
(* lives.                                                                           *)
InitialUrlIsSticky ==
    [][\A t \in Tab :
         LET w == contentsOf[t]
             w2 == contentsOf'[t]
         IN  /\ w # NoContents /\ w2 # NoContents
             /\ iu[w].captured
             => /\ iu'[w2].captured
                /\ \/ iu'[w2].url = iu[w].url
                   \/ chosen'[w2] # chosen[w] /\ iu'[w2].url = chosen'[w2]
                /\ iu[w].locked => iu'[w2].locked]_sessionVars

(* A tab is locked exactly when the user wrote its initial URL, in this tab, in the  *)
(* one it duplicates or took over from, or before it was restored, and then it is    *)
(* the URL the user wrote last.                                                      *)
LockedIsChosen ==
    chosen = [w \in Contents |-> IF iu[w].locked THEN iu[w].url ELSE NoUrl]

(* roam-289: every value a user wrote, and every value that came out of session      *)
(* data, is one a user could write, whatever was captured, duplicated, carried       *)
(* over, stored and hand-edited in between.                                          *)
UserValuesAllowed ==
    \A w \in Contents : iu[w].locked \/ iu[w].pendingWrite => IsAllowedInitialUrl(iu[w].url)

(* The session file never contradicts a live tab: it holds the tab's present value    *)
(* and lock, or nothing, and nothing only while the write of a restored value is      *)
(* pending or after a discard; off the record it holds nothing at all.                *)
SessionAgrees ==
    \A w \in Contents :
        Shown(w) => \/ session[w] = EncodeExtraData(iu[w]) /\ ~otr
                    \/ session[w] = NoData
                       /\ (otr \/ iu[w].pendingWrite \/ w \in carried)

(* The initial URLs and the session file together: types, the allowlist of user   *)
(* values, the agreement of the file with the tabs, and locked values the user's.  *)
SessionInv == SessionTypeOK /\ UserValuesAllowed /\ SessionAgrees /\ LockedIsChosen
=============================================================================
