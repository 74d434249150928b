----------------------------- MODULE VisitsStore -----------------------------
(***************************************************************************)
(* The SQLite journal, visits_store.cc, as pure operators on a store       *)
(*     [visits  : sequence of [uid, at], oldest first,                     *)
(*      sidecar : function from restore keys to [closed, url]].            *)
(* The visits table is append-only and capped (FIFO); the tab_state        *)
(* sidecar is upserted.  A visit's URL is left out: nothing reads it.      *)
(* Each method is one SQL transaction, hence one operator.                 *)
(***************************************************************************)
EXTENDS Naturals, SequencesExt, Subsequences

CONSTANTS
    NoUid,      \* the empty uid of a legacy (pre-v3) row
    MaxVisits   \* kMaxVisits, 999 in the code

ASSUME MaxVisitsAssumption == MaxVisits \in Nat \ {0}

EmptyStore == [visits |-> <<>>, sidecar |-> <<>>]

(* A map with the entry of x set to v. *)
Put(f, x, v) == [y \in DOMAIN f \cup {x} |-> IF y = x THEN v ELSE f[y]]

(* UpsertTabState: INSERT OR REPLACE on the restore key. *)
UpsertTabState(store, uid, row) ==
    [store EXCEPT !.sidecar = Put(@, uid, row)]

(* Append: insert, then keep the newest MaxVisits rows. *)
AppendVisit(store, uid, at) ==
    LET all  == Append(store.visits, [uid |-> uid, at |-> at])
        drop == IF Len(all) > MaxVisits THEN Len(all) - MaxVisits ELSE 0
    IN  [store EXCEPT !.visits = SubSeq(all, drop + 1, Len(all))]

(* ClearForBrowsingDataRemoval: delete the visits in [begin, end), then    *)
(* collect the closed tab_state rows no surviving visit refers to.         *)
ClearForBrowsingDataRemoval(store, begin, end) ==
    LET visits   == store.visits
        kept     == ElementsAt(visits, {i \in 1..Len(visits) :
                                          ~(begin <= visits[i].at /\ visits[i].at < end)})
        referred == {kept[i].uid : i \in DOMAIN kept} \ {NoUid}
    IN  [visits  |-> kept,
         sidecar |-> RestrictDomain(store.sidecar,
                         LAMBDA k : ~store.sidecar[k].closed \/ k \in referred)]

(* ReadAll and ReadTabStates, as far as the coordinator looks at the rows. *)
ReadAll(store) == [i \in DOMAIN store.visits |-> store.visits[i].uid]

ReadTabStates(store) == store.sidecar

ClosedRows(store) == RestrictValues(store.sidecar, LAMBDA row : row.closed)
=============================================================================
