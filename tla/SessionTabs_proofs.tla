------------------------- MODULE SessionTabs_proofs -------------------------
(***************************************************************************)
(* Proofs about tab uids and session tabs, for any number of tabs,         *)
(* contents, uids, URLs and navigations.  First TabUid: the E4 contract    *)
(* (no two live tabs share a uid), the agreement of the registry with the  *)
(* strip, and the durability of a tab's uid.  Then SessionTabs: the        *)
(* composition implements TabUid and inherits its contract; the session    *)
(* file agrees with the tabs; a captured initial URL is sticky.            *)
(***************************************************************************)
EXTENDS SessionTabs, TLAPS

(* A pair of maps that is well-typed and one-to-one. *)
RegistryOK(r) ==
    /\ r \in [uid : [Contents -> Uid \cup {NoUid}], tab : [Uid -> Contents \cup {NoContents}]]
    /\ \A w \in Contents : r.uid[w] # NoUid => r.tab[r.uid[w]] = w
    /\ \A uid \in Uid : r.tab[uid] # NoContents => r.uid[r.tab[uid]] = uid

(* A WebContents is shown by one tab. *)
OneTabPerContents ==
    \A t1, t2 \in Tab : contentsOf[t1] = contentsOf[t2] /\ contentsOf[t1] # NoContents => t1 = t2

(* What is registered, attached or pending has been minted before. *)
RegisteredIsMinted == \A w \in Contents : uidByTab[w] # NoUid => uidByTab[w] \in minted

(* The inductive invariant. *)
IInv ==
    /\ TypeOK
    /\ RegistryHoldsTheStrip
    /\ RegistryIsOneToOne
    /\ OneTabPerContents
    /\ RegisteredIsMinted

(* Unregister frees exactly what w holds and keeps the maps one-to-one. *)
LEMMA UnregisterOK ==
    ASSUME NEW r, RegistryOK(r), NEW w \in Contents
    PROVE  /\ RegistryOK(Unregister(r, w))
           /\ Unregister(r, w).uid = [r.uid EXCEPT ![w] = NoUid]
           /\ \A uid \in Uid : Unregister(r, w).tab[uid]
                                 = IF r.uid[w] = uid THEN NoContents ELSE r.tab[uid]
<1>1. CASE r.uid[w] = NoUid
  BY <1>1, TabUidAssumption DEF RegistryOK, Unregister
<1>2. CASE r.uid[w] # NoUid
  <2> DEFINE u == r.uid[w]
             q == Unregister(r, w)
  <2>1. u \in Uid /\ r.tab[u] = w
    BY <1>2 DEF RegistryOK
  <2>2. q = [uid |-> [r.uid EXCEPT ![w] = NoUid], tab |-> [r.tab EXCEPT ![u] = NoContents]]
    BY <1>2 DEF Unregister
  <2>3. q \in [uid : [Contents -> Uid \cup {NoUid}], tab : [Uid -> Contents \cup {NoContents}]]
    BY <2>1, <2>2 DEF RegistryOK
  <2>4. \A v \in Contents : q.uid[v] # NoUid => q.tab[q.uid[v]] = v
    BY <2>1, <2>2 DEF RegistryOK
  <2>5. \A x \in Uid : q.tab[x] # NoContents => q.uid[q.tab[x]] = x
    BY <2>1, <2>2 DEF RegistryOK
  <2> QED
    BY <2>1, <2>2, <2>3, <2>4, <2>5 DEF RegistryOK
<1> QED
  BY <1>1, <1>2

(* Registering a uid that is not live keeps the maps one-to-one. *)
LEMMA RegisterOK ==
    ASSUME NEW r, RegistryOK(r), NEW w \in Contents, NEW u \in Uid,
           r.tab[u] = NoContents
    PROVE  /\ RegistryOK(Register(r, w, u))
           /\ Register(r, w, u).uid = [r.uid EXCEPT ![w] = u]
<1> DEFINE f == Unregister(r, w)
           q == Register(r, w, u)
<1>1. RegistryOK(f) /\ f.uid = [r.uid EXCEPT ![w] = NoUid] /\ f.tab[u] = NoContents
  BY UnregisterOK
<1>2. q = [uid |-> [f.uid EXCEPT ![w] = u], tab |-> [f.tab EXCEPT ![u] = w]]
  BY DEF Register
<1>3. q.uid = [r.uid EXCEPT ![w] = u]
  BY <1>1, <1>2 DEF RegistryOK
<1>4. q \in [uid : [Contents -> Uid \cup {NoUid}], tab : [Uid -> Contents \cup {NoContents}]]
  BY <1>1, <1>2 DEF RegistryOK
<1>5. f.uid[w] = NoUid
  BY <1>1 DEF RegistryOK
<1>6. \A v \in Contents : v # w => f.uid[v] # u
  BY <1>1, TabUidAssumption DEF RegistryOK
<1>7. \A x \in Uid : f.tab[x] # w
  BY <1>1, <1>5, TabUidAssumption DEF RegistryOK
<1>8. \A v \in Contents : q.uid[v] # NoUid => q.tab[q.uid[v]] = v
  <2> SUFFICES ASSUME NEW v \in Contents, q.uid[v] # NoUid
               PROVE  q.tab[q.uid[v]] = v
    OBVIOUS
  <2>1. CASE v = w
    BY <1>1, <1>2, <1>4, <2>1 DEF RegistryOK
  <2>2. CASE v # w
    <3>1. q.uid[v] = f.uid[v] /\ f.uid[v] # u /\ f.uid[v] \in Uid
      BY <1>1, <1>2, <1>6, <2>2 DEF RegistryOK
    <3> QED
      BY <1>1, <1>2, <3>1 DEF RegistryOK
  <2> QED
    BY <2>1, <2>2
<1>9. \A x \in Uid : q.tab[x] # NoContents => q.uid[q.tab[x]] = x
  BY <1>1, <1>2, <1>7 DEF RegistryOK
<1> QED
  BY <1>3, <1>4, <1>8, <1>9 DEF RegistryOK

(* A uid that was never minted is not live. *)
LEMMA FreshIsNotLive ==
    ASSUME IInv, NEW fresh \in Uid \ minted
    PROVE  tabByUid[fresh] = NoContents
BY TabUidAssumption DEF IInv, TypeOK, RegistryIsOneToOne, RegisteredIsMinted

(* The invariant makes the registry's pair of maps a good one. *)
LEMMA RegistryIsOK == IInv => RegistryOK(Registry)
BY DEF IInv, TypeOK, RegistryIsOneToOne, RegistryOK, Registry

(* What a discard's Unregister leaves of the registry. *)
LEMMA FreedOK ==
    ASSUME IInv, NEW old \in Contents
    PROVE  LET r == AfterOldIsFreed(old)
           IN  /\ RegistryOK(r) /\ r.uid = [uidByTab EXCEPT ![old] = NoUid]
               /\ \A uid \in Uid : r.tab[uid] = IF uidByTab[old] = uid THEN NoContents
                                               ELSE tabByUid[uid]
<1>1. RegistryOK(Registry)
  BY RegistryIsOK
<1> QED
  BY <1>1, UnregisterOK DEF AfterOldIsFreed, Registry

(* The initial state is in the invariant. *)
LEMMA InitIInv == Init => IInv
BY TabUidAssumption
   DEF Init, IInv, TypeOK, RegistryHoldsTheStrip, RegistryIsOneToOne, OneTabPerContents,
       RegisteredIsMinted, Shown

(* Attaching a helper to contents w that show in the strip of the next state, *)
(* on a registry r of the other tabs: the effective uid was not live, and the *)
(* invariant holds again.                                                     *)
LEMMA AttachIInv ==
    ASSUME TypeOK, OneTabPerContents', contentsOf' \in [Tab -> Contents \cup {NoContents}],
           NEW r, RegistryOK(r), NEW w \in Contents, Shown(w)',
           NEW restored \in Uid \cup {Malformed, NoUid},
           NEW fresh \in Uid, r.tab[fresh] = NoContents,
           \A v \in Contents \ {w} : r.uid[v] = IF Shown(v)' THEN helper[v] ELSE NoUid,
           \A v \in Contents : r.uid[v] # NoUid => r.uid[v] \in minted,
           Attach(r, w, restored, fresh)
    PROVE  IInv'
<1> DEFINE u == EffectiveUid(r, restored, fresh)
           q == Register(r, w, u)
<1>1. u \in Uid /\ r.tab[u] = NoContents
  BY DEF EffectiveUid, Adopts
<1>2. RegistryOK(q) /\ q.uid = [r.uid EXCEPT ![w] = u]
  BY <1>1, RegisterOK
<1>3. /\ uidByTab' = q.uid
      /\ tabByUid' = q.tab
      /\ helper' = [helper EXCEPT ![w] = u]
      /\ pending' = [pending EXCEPT ![w] = NoUid]
      /\ minted' = minted \cup {u}
  BY DEF Attach
<1> HIDE DEF u, q
<1>4. TypeOK'
  BY <1>1, <1>2, <1>3 DEF TypeOK, RegistryOK
<1>5. RegistryIsOneToOne'
  BY <1>2, <1>3 DEF RegistryOK, RegistryIsOneToOne
<1>6. RegistryHoldsTheStrip'
  <2> SUFFICES ASSUME NEW v \in Contents
               PROVE  uidByTab'[v] = IF Shown(v)' THEN helper'[v] ELSE NoUid
    BY DEF RegistryHoldsTheStrip, Shown
  <2>1. CASE v = w
    BY <1>2, <1>3, <2>1 DEF TypeOK, RegistryOK
  <2>2. CASE v # w
    BY <1>2, <1>3, <2>2 DEF TypeOK, RegistryOK
  <2> QED
    BY <2>1, <2>2
<1>7. RegisteredIsMinted'
  BY <1>1, <1>2, <1>3 DEF RegisteredIsMinted, RegistryOK
<1> QED
  BY <1>4, <1>5, <1>6, <1>7 DEF IInv

(* Destroying contents that no tab shows in the next state. *)
LEMMA DestroyedIInv ==
    ASSUME IInv, OneTabPerContents', contentsOf' \in [Tab -> Contents \cup {NoContents}],
           NEW w \in Contents, ~Shown(w)',
           \A v \in Contents \ {w} : Shown(v)' <=> Shown(v),
           Destroyed(w)
    PROVE  IInv'
<1> DEFINE q == Unregister(Registry, w)
<1>1. RegistryOK(q) /\ q.uid = [uidByTab EXCEPT ![w] = NoUid]
  BY RegistryIsOK, UnregisterOK DEF Registry
<1>2. /\ uidByTab' = q.uid
      /\ tabByUid' = q.tab
      /\ helper' = [helper EXCEPT ![w] = NoUid]
      /\ pending' = [pending EXCEPT ![w] = NoUid]
      /\ minted' = minted
  BY DEF Destroyed
<1> HIDE DEF q
<1>3. TypeOK'
  BY <1>1, <1>2 DEF IInv, TypeOK, RegistryOK
<1>4. RegistryIsOneToOne'
  BY <1>1, <1>2 DEF RegistryOK, RegistryIsOneToOne
<1>5. RegistryHoldsTheStrip'
  <2> SUFFICES ASSUME NEW v \in Contents
               PROVE  uidByTab'[v] = IF Shown(v)' THEN helper'[v] ELSE NoUid
    BY DEF RegistryHoldsTheStrip, Shown
  <2>1. CASE v = w
    BY <1>1, <1>2, <2>1 DEF IInv, TypeOK
  <2>2. CASE v # w
    BY <1>1, <1>2, <2>2 DEF IInv, TypeOK, RegistryHoldsTheStrip
  <2> QED
    BY <2>1, <2>2
<1>6. RegisteredIsMinted'
  BY <1>1, <1>2 DEF IInv, TypeOK, RegisteredIsMinted
<1> QED
  BY <1>3, <1>4, <1>5, <1>6 DEF IInv

(* Every step preserves the invariant. *)
LEMMA NextIInv == IInv /\ [Next]_vars => IInv'
<1> SUFFICES ASSUME IInv, [Next]_vars PROVE IInv'
  OBVIOUS
<1>1. ASSUME NEW t \in Tab, NEW w \in Contents, NEW restored \in Uid \cup {Malformed, NoUid},
             OpenTab(t, w, restored)
      PROVE  IInv'
  <2>1. TypeOK'
    BY <1>1 DEF OpenTab, IInv, TypeOK
  <2>2. OneTabPerContents'
    BY <1>1 DEF OpenTab, IInv, TypeOK, OneTabPerContents, Unused, Shown
  <2>3. RegistryHoldsTheStrip'
    <3> SUFFICES ASSUME NEW v \in Contents
                 PROVE  uidByTab'[v] = IF Shown(v)' THEN helper'[v] ELSE NoUid
      BY DEF RegistryHoldsTheStrip, Shown
    <3>1. CASE v = w
      BY <1>1, <3>1 DEF OpenTab, IInv, TypeOK, RegistryHoldsTheStrip, Unused
    <3>2. CASE v # w
      <4>1. Shown(v)' <=> Shown(v)
        BY <1>1, <3>2, TabUidAssumption DEF OpenTab, IInv, TypeOK, Shown
      <4> QED
        BY <1>1, <4>1 DEF OpenTab, IInv, RegistryHoldsTheStrip
    <3> QED
      BY <3>1, <3>2
  <2> QED
    BY <1>1, <2>1, <2>2, <2>3 DEF OpenTab, IInv, RegistryIsOneToOne, RegisteredIsMinted
<1>2. ASSUME NEW t \in Tab, NEW fresh \in Uid, MaybeCreateForTab(t, fresh)
      PROVE  IInv'
  <2>0. PICK w \in Contents : w = contentsOf[t]
    BY <1>2 DEF MaybeCreateForTab, IInv, TypeOK
  <2>1. Shown(w)' /\ pending[w] \in Uid \cup {Malformed, NoUid}
    BY <1>2, <2>0 DEF MaybeCreateForTab, IInv, TypeOK, Shown
  <2>2. OneTabPerContents' /\ contentsOf' \in [Tab -> Contents \cup {NoContents}]
    BY <1>2 DEF MaybeCreateForTab, IInv, TypeOK, OneTabPerContents
  <2>3. Registry.tab[fresh] = NoContents
    BY <1>2, FreshIsNotLive DEF MaybeCreateForTab, Registry
  <2>4. \A v \in Contents : Registry.uid[v] = IF Shown(v)' THEN helper[v] ELSE NoUid
    BY <1>2 DEF MaybeCreateForTab, IInv, RegistryHoldsTheStrip, Registry, Shown
  <2>5. \A v \in Contents : Registry.uid[v] # NoUid => Registry.uid[v] \in minted
    BY DEF IInv, RegisteredIsMinted, Registry
  <2>6. Attach(Registry, w, pending[w], fresh)
    BY <1>2, <2>0 DEF MaybeCreateForTab
  <2>7. TypeOK /\ RegistryOK(Registry)
    BY RegistryIsOK DEF IInv
  <2> QED
    BY <2>1, <2>2, <2>3, <2>4, <2>5, <2>6, <2>7, AttachIInv
<1>3. ASSUME NEW t \in Tab, NEW new \in Contents, NEW fresh \in Uid,
             WillDiscardContents(t, new, fresh)
      PROVE  IInv'
  <2>0. PICK old \in Contents : old = contentsOf[t]
    BY <1>3 DEF WillDiscardContents, IInv, TypeOK
  <2> DEFINE r == AfterOldIsFreed(old)
  <2>1. old # new /\ helper[old] \in Uid
    BY <1>3, <2>0 DEF WillDiscardContents, IInv, TypeOK, Unused, Shown
  <2>2. /\ RegistryOK(r) /\ r.uid = [uidByTab EXCEPT ![old] = NoUid]
        /\ \A uid \in Uid : r.tab[uid] = IF uidByTab[old] = uid THEN NoContents ELSE tabByUid[uid]
    BY FreedOK
  <2>3. OneTabPerContents' /\ contentsOf' \in [Tab -> Contents \cup {NoContents}]
    BY <1>3 DEF WillDiscardContents, IInv, TypeOK, OneTabPerContents, Unused, Shown
  <2>4. Shown(new)'
    BY <1>3 DEF WillDiscardContents, IInv, TypeOK, Shown
  <2>5. r.tab[fresh] = NoContents
    <3>1. tabByUid[fresh] = NoContents
      BY <1>3, FreshIsNotLive DEF WillDiscardContents
    <3> QED
      BY <2>2, <3>1
  <2>6. \A v \in Contents \ {new} : r.uid[v] = IF Shown(v)' THEN helper[v] ELSE NoUid
    <3> SUFFICES ASSUME NEW v \in Contents \ {new}
                 PROVE  r.uid[v] = IF Shown(v)' THEN helper[v] ELSE NoUid
      OBVIOUS
    <3>1. CASE v = old
      <4>1. ~Shown(old)'
        BY <1>3, <2>0, <2>1 DEF WillDiscardContents, IInv, TypeOK, OneTabPerContents, Shown
      <4> QED
        BY <2>2, <3>1, <4>1 DEF IInv, TypeOK
    <3>2. CASE v # old
      <4>1. Shown(v)' <=> Shown(v)
        BY <1>3, <2>0, <3>2 DEF WillDiscardContents, IInv, TypeOK, Shown
      <4> QED
        BY <2>2, <3>2, <4>1 DEF IInv, TypeOK, RegistryHoldsTheStrip
    <3> QED
      BY <3>1, <3>2
  <2>7. \A v \in Contents : r.uid[v] # NoUid => r.uid[v] \in minted
    BY <2>2 DEF IInv, TypeOK, RegisteredIsMinted
  <2>8. TypeOK /\ Attach(r, new, helper[old], fresh)
    BY <1>3, <2>0 DEF WillDiscardContents, IInv
  <2>9. helper[old] \in Uid \cup {Malformed, NoUid}
    BY <2>1
  <2> HIDE DEF r
  <2> QED
    BY <2>1, <2>2, <2>3, <2>4, <2>5, <2>6, <2>7, <2>8, <2>9, AttachIInv
<1>4. ASSUME NEW t \in Tab, CloseTab(t)
      PROVE  IInv'
  <2>0. PICK w \in Contents : w = contentsOf[t]
    BY <1>4 DEF CloseTab, IInv, TypeOK
  <2>1. Destroyed(w)
    BY <1>4, <2>0 DEF CloseTab
  <2>2. OneTabPerContents' /\ contentsOf' \in [Tab -> Contents \cup {NoContents}]
    BY <1>4 DEF CloseTab, IInv, TypeOK, OneTabPerContents
  <2>3. ~Shown(w)' /\ \A v \in Contents \ {w} : Shown(v)' <=> Shown(v)
    BY <1>4, <2>0, TabUidAssumption DEF CloseTab, IInv, TypeOK, OneTabPerContents, Shown
  <2> QED
    BY <2>1, <2>2, <2>3, DestroyedIInv
<1>5. ASSUME NEW w \in Contents, DestroyDiscarded(w)
      PROVE  IInv'
  <2>1. Destroyed(w) /\ contentsOf' = contentsOf /\ ~Shown(w)
    BY <1>5 DEF DestroyDiscarded
  <2>2. OneTabPerContents' /\ contentsOf' \in [Tab -> Contents \cup {NoContents}]
    BY <2>1 DEF IInv, TypeOK, OneTabPerContents
  <2>3. ~Shown(w)' /\ \A v \in Contents \ {w} : Shown(v)' <=> Shown(v)
    BY <2>1 DEF Shown
  <2> QED
    BY <2>1, <2>2, <2>3, DestroyedIInv
<1>6. CASE UNCHANGED vars
  BY <1>6 DEF vars, IInv, TypeOK, RegistryHoldsTheStrip, RegistryIsOneToOne,
              OneTabPerContents, RegisteredIsMinted, Shown
<1> QED
  BY <1>1, <1>2, <1>3, <1>4, <1>5, <1>6 DEF Next

(* The invariant holds throughout: types, the registry's two maps inverse to  *)
(* each other and in agreement with the strip.                                *)
THEOREM Invariance == Spec => []IInv
<1>1. Init => IInv
  BY InitIInv
<1>2. IInv /\ [Next]_vars => IInv'
  BY NextIInv
<1> QED
  BY <1>1, <1>2, PTL DEF Spec

(* The E4 contract of tab_uid_service.h: no two live tabs share a uid. *)
THEOREM LiveUidsAreUnique == Spec => []NoTwoLiveTabsShareAUid
<1>1. IInv => NoTwoLiveTabsShareAUid
  <2> SUFFICES ASSUME IInv, NEW t1 \in Tab, NEW t2 \in Tab,
                      UidOf(t1) # NoUid, UidOf(t1) = UidOf(t2)
               PROVE  t1 = t2
    BY DEF NoTwoLiveTabsShareAUid
  <2> DEFINE c1 == contentsOf[t1]
             c2 == contentsOf[t2]
  <2>1. c1 \in Contents /\ c2 \in Contents /\ helper[c1] = helper[c2] /\ helper[c1] # NoUid
    BY DEF UidOf, IInv, TypeOK
  <2>2. Shown(c1) /\ Shown(c2)
    BY DEF Shown
  <2>3. uidByTab[c1] = helper[c1] /\ uidByTab[c2] = helper[c2]
    BY <2>1, <2>2 DEF IInv, RegistryHoldsTheStrip
  <2>4. c1 = c2
    BY <2>1, <2>3 DEF IInv, RegistryIsOneToOne
  <2> QED
    BY <2>1, <2>4, TabUidAssumption DEF IInv, OneTabPerContents
<1> QED
  BY <1>1, Invariance, PTL

(* The registry is in agreement with the strip: a closed tab's uid is free,   *)
(* an open tab's uid is held, even across a discard.                          *)
THEOREM RegistryAgreesWithStrip == Spec => []RegistryHoldsTheStrip
<1>1. IInv => RegistryHoldsTheStrip
  BY DEF IInv
<1> QED
  BY <1>1, Invariance, PTL

(* The whole contract of the registry, on every path by which a tab comes and  *)
(* goes.                                                                      *)
THEOREM RegistryIsSound == Spec => []RegistryInv
<1>1. IInv => TypeOK /\ RegistryHoldsTheStrip /\ RegistryIsOneToOne
  BY DEF IInv
<1>2. TypeOK /\ RegistryHoldsTheStrip /\ RegistryIsOneToOne /\ NoTwoLiveTabsShareAUid
        => RegistryInv
  BY DEF RegistryInv
<1> QED
  BY <1>1, <1>2, Invariance, LiveUidsAreUnique, PTL

(* A tab keeps its uid as long as it is open, also when it is discarded. *)
THEOREM UidsAreDurable == Spec => UidIsDurable
<1> DEFINE Keeps == \A t \in Tab : UidOf(t) # NoUid /\ contentsOf'[t] # NoContents
                                     => UidOf(t)' = UidOf(t)
<1>1. IInv /\ [Next]_vars => [Keeps]_vars
  <2> SUFFICES ASSUME IInv, Next, NEW s \in Tab, UidOf(s) # NoUid,
                      contentsOf'[s] # NoContents
               PROVE  UidOf(s)' = UidOf(s)
    OBVIOUS
  <2>0. contentsOf[s] \in Contents /\ UidOf(s) = helper[contentsOf[s]]
    BY DEF UidOf, IInv, TypeOK
  <2>1. ASSUME NEW t \in Tab, NEW w \in Contents,
               NEW restored \in Uid \cup {Malformed, NoUid}, OpenTab(t, w, restored)
        PROVE  UidOf(s)' = UidOf(s)
    BY <2>0, <2>1, TabUidAssumption DEF OpenTab, UidOf, IInv, TypeOK
  <2>2. ASSUME NEW t \in Tab, NEW fresh \in Uid, MaybeCreateForTab(t, fresh)
        PROVE  UidOf(s)' = UidOf(s)
    BY <2>0, <2>2, TabUidAssumption DEF MaybeCreateForTab, Attach, UidOf, IInv, TypeOK
  <2>3. ASSUME NEW t \in Tab, NEW new \in Contents, NEW fresh \in Uid,
               WillDiscardContents(t, new, fresh)
        PROVE  UidOf(s)' = UidOf(s)
    <3>0. PICK old \in Contents : old = contentsOf[t]
      BY <2>3 DEF WillDiscardContents, IInv, TypeOK
    <3> DEFINE r == AfterOldIsFreed(old)
    <3>1. old # new /\ helper[old] \in Uid /\ ~Shown(new)
      BY <2>3, <3>0 DEF WillDiscardContents, IInv, TypeOK, Unused, Shown
    <3>2. uidByTab[old] = helper[old]
      BY <3>0 DEF IInv, RegistryHoldsTheStrip, Shown
    <3>3. r.tab[helper[old]] = NoContents
      BY <3>1, <3>2, FreedOK
    <3>4. EffectiveUid(r, helper[old], fresh) = helper[old]
      BY <3>1, <3>3 DEF EffectiveUid, Adopts
    <3>5. helper' = [helper EXCEPT ![new] = helper[old]]
      BY <2>3, <3>0, <3>4 DEF WillDiscardContents, Attach
    <3>6. contentsOf' = [contentsOf EXCEPT ![t] = new]
      BY <2>3 DEF WillDiscardContents
    <3> HIDE DEF r
    <3>7. CASE s = t
      BY <2>0, <3>0, <3>1, <3>5, <3>6, <3>7, TabUidAssumption DEF UidOf, IInv, TypeOK
    <3>8. CASE s # t
      <4>1. contentsOf[s] # new
        BY <3>1 DEF Shown
      <4> QED
        BY <2>0, <3>5, <3>6, <3>8, <4>1, TabUidAssumption DEF UidOf, IInv, TypeOK
    <3> QED
      BY <3>7, <3>8
  <2>4. ASSUME NEW t \in Tab, CloseTab(t)
        PROVE  UidOf(s)' = UidOf(s)
    <3>1. s # t
      BY <2>4 DEF CloseTab, IInv, TypeOK
    <3>2. contentsOf[s] # contentsOf[t]
      BY <2>0, <3>1, TabUidAssumption DEF IInv, OneTabPerContents
    <3> QED
      BY <2>0, <2>4, <3>1, <3>2, TabUidAssumption DEF CloseTab, Destroyed, UidOf, IInv, TypeOK
  <2>5. ASSUME NEW w \in Contents, DestroyDiscarded(w)
        PROVE  UidOf(s)' = UidOf(s)
    <3>1. contentsOf[s] # w
      BY <2>5 DEF DestroyDiscarded, Shown
    <3> QED
      BY <2>0, <2>5, <3>1, TabUidAssumption DEF DestroyDiscarded, Destroyed, UidOf, IInv, TypeOK
  <2> QED
    BY <2>1, <2>2, <2>3, <2>4, <2>5 DEF Next
<1> QED
  BY <1>1, Invariance, PTL DEF Spec, UidIsDurable
-----------------------------------------------------------------------------
(* The composition. *)

(* Contents that do not exist have no initial URL, and contents no tab shows have *)
(* nothing in the session file.                                                   *)
NothingLeftBehind ==
    /\ \A w \in Contents : Unused(w) => iu[w] = None
    /\ \A w \in Contents : ~Shown(w) \/ otr => session[w] = NoData

(* The initial URLs and the file, apart from the history of what the user wrote. *)
FileInv == SessionTypeOK /\ UserValuesAllowed /\ SessionAgrees

(* The inductive invariant but for LockedIsChosen, which takes its own steps below. *)
SInv == IInv /\ FileInv /\ NothingLeftBehind

(* A step of the composition is a step of the registry or leaves it alone. *)
LEMMA SessionStep == IInv /\ [SessionNext]_sessionVars => [Next]_vars
<1> SUFFICES ASSUME IInv, [SessionNext]_sessionVars PROVE [Next]_vars
  OBVIOUS
<1>1. ASSUME NEW t \in Tab, NEW w \in Contents, NewTab(t, w) PROVE Next
  BY <1>1 DEF NewTab, Next
<1>2. ASSUME NEW t \in Tab, NEW w \in Contents, NEW e \in closed \cup HandEdited,
             RestoreTab(t, w, e)
      PROVE  Next
  <2>1. OpenTab(t, w, e.uid)
    BY <1>2 DEF RestoreTab
  <2>2. e.uid \in Uid \cup {Malformed, NoUid}
    BY <2>1 DEF OpenTab, IInv, TypeOK
  <2> QED
    BY <2>1, <2>2 DEF Next
<1>3. ASSUME NEW t \in Tab, NEW fresh \in Uid, AttachHelpers(t, fresh) PROVE Next
  BY <1>3 DEF AttachHelpers, Next
<1>4. ASSUME NEW t \in Tab, NEW new \in Contents, NEW fresh \in Uid, DiscardTab(t, new, fresh)
      PROVE  Next
  BY <1>4 DEF DiscardTab, Next
<1>5. ASSUME NEW t \in Tab, UserClosesTab(t) \/ TabIsLost(t) PROVE Next
  BY <1>5 DEF UserClosesTab, TabIsLost, Next
<1>6. ASSUME NEW w \in Contents, DiscardedGoes(w) PROVE Next
  BY <1>6 DEF DiscardedGoes, Next
<1>7. ASSUME NEW w, NEW n, Navigate(w, n) PROVE UNCHANGED vars
  BY <1>7 DEF Navigate
<1>8. ASSUME NEW t \in Tab, ReloadInitialUrl(t) PROVE UNCHANGED vars
  BY <1>7, <1>8 DEF ReloadInitialUrl
<1>9. ASSUME NEW w \in Contents, NEW u \in Url,
             SetInitialUrlToCurrentPage(w, u) \/ CommitEdit(w, u)
      PROVE  UNCHANGED vars
  BY <1>9 DEF SetInitialUrlToCurrentPage, CommitEdit
<1>10. ASSUME NEW s \in Tab, NEW t \in Tab, OnTabDuplicated(s, t) PROVE UNCHANGED vars
  BY <1>10 DEF OnTabDuplicated
<1>11. ASSUME BuildTabExtraDataCommands PROVE UNCHANGED vars
  BY <1>11 DEF BuildTabExtraDataCommands
<1> QED
  BY <1>1, <1>2, <1>3, <1>4, <1>5, <1>6, <1>7, <1>8, <1>9, <1>10, <1>11
  DEF SessionNext, sessionVars

(* The registry's inductive invariant, in the composition. *)
LEMMA SessionIInv == SessionSpec => []IInv
<1>1. SessionInit => IInv
  BY InitIInv DEF SessionInit
<1>2. IInv /\ [SessionNext]_sessionVars => IInv'
  BY SessionStep, NextIInv
<1> QED
  BY <1>1, <1>2, PTL DEF SessionSpec

(* Tabs with initial URLs and session data are tabs with uids: nothing the         *)
(* session, the menu or the dialog does is new to the registry.                    *)
THEOREM SessionImplementsTabUid == SessionSpec => Spec
<1>1. SessionInit => Init
  BY DEF SessionInit
<1> QED
  BY <1>1, SessionIInv, SessionStep, PTL DEF SessionSpec, Spec

(* So the registry keeps its contract with every kind of restore.                  *)
THEOREM SessionRegistry == SessionSpec => []RegistryInv
BY SessionImplementsTabUid, RegistryIsSound, PTL

(* And tabs keep their uids.                                                       *)
THEOREM SessionUidsAreDurable == SessionSpec => UidIsDurable
BY SessionImplementsTabUid, UidsAreDurable, PTL
-----------------------------------------------------------------------------
(* A user value, a restored value and a value carried over are helpers. *)
LEMMA HelperFacts ==
    /\ None \in Helper /\ NoData \in ExtraData
    /\ \A h \in Helper : EncodeExtraData(h) \in ExtraData
BY DEF None, NoData, Helper, ExtraData, EncodeExtraData

LEMMA InitSInv == SessionInit => SInv
<1> SUFFICES ASSUME SessionInit PROVE SInv
  OBVIOUS
<1>1. IInv
  BY InitIInv DEF SessionInit
<1>2. SessionTypeOK
  <2>1. /\ iu \in [Contents -> Helper] /\ session \in [Contents -> ExtraData]
        /\ carried \subseteq Contents
        /\ closed \subseteq [uid : Uid \cup {NoUid}, data : ExtraData]
    BY HelperFacts DEF SessionInit
  <2>2. otr \in BOOLEAN
    BY DEF SessionInit
  <2>3. \A w \in Contents : /\ iu[w].captured <=> iu[w].url # NoUrl
                            /\ iu[w].locked \/ iu[w].pendingWrite => iu[w].captured
    BY DEF SessionInit, None
  <2> QED
    BY <2>1, <2>2, <2>3 DEF SessionTypeOK
<1>3. UserValuesAllowed
  BY DEF SessionInit, UserValuesAllowed, None
<1>4. SessionAgrees
  BY TabUidAssumption DEF SessionInit, SessionAgrees, Init, Shown
<1>5. NothingLeftBehind
  BY DEF SessionInit, NothingLeftBehind
<1> QED
  BY <1>1, <1>2, <1>3, <1>4, <1>5 DEF SInv, FileInv

(* What a helper may hold: the value of a captured helper is a URL, and one that is *)
(* locked or waits to be written is one a user could have written.                 *)
GoodHelper(h) ==
    /\ h \in Helper
    /\ h.captured <=> h.url # NoUrl
    /\ h.locked \/ h.pendingWrite => h.captured /\ IsAllowedInitialUrl(h.url)

LEMMA GoodHelpers ==
    ASSUME SInv
    PROVE  /\ \A w \in Contents : GoodHelper(iu[w])
           /\ iu \in [Contents -> Helper] /\ session \in [Contents -> ExtraData]
BY DEF SInv, FileInv, SessionTypeOK, UserValuesAllowed, GoodHelper

(* Types, allowlist and the rest from what changes at one step. *)
LEMMA AssembleSInv ==
    ASSUME IInv', 
           iu' \in [Contents -> Helper], \A w \in Contents : GoodHelper(iu'[w]),
           session' \in [Contents -> ExtraData], otr' \in BOOLEAN,
           carried' \subseteq Contents,
           closed' \subseteq [uid : Uid \cup {NoUid}, data : ExtraData],
           SessionAgrees', NothingLeftBehind'
    PROVE  SInv'
BY DEF SInv, FileInv, SessionTypeOK, UserValuesAllowed, GoodHelper

(* A write of h into the helper of contents that exist, followed by the session     *)
(* command: capture, user edit, duplication, and the write a restore still owes.    *)
LEMMA WriteSInv ==
    ASSUME SInv, IInv', NEW w \in Contents, ~Unused(w), NEW h, GoodHelper(h),
           iu' = [iu EXCEPT ![w] = h], PersistToSession(w, h),
           UNCHANGED <<vars, otr, closed>>
    PROVE  SInv'
<1>0. /\ iu \in [Contents -> Helper] /\ session \in [Contents -> ExtraData]
      /\ \A x \in Contents : GoodHelper(iu[x])
      /\ h \in Helper /\ EncodeExtraData(h) \in ExtraData
  BY GoodHelpers, HelperFacts DEF GoodHelper
<1>1. /\ otr' = otr /\ otr' \in BOOLEAN
      /\ closed' \subseteq [uid : Uid \cup {NoUid}, data : ExtraData]
  BY DEF SInv, FileInv, SessionTypeOK
<1>2. \A x \in Contents : (Shown(x)' <=> Shown(x)) /\ (Unused(x)' <=> Unused(x))
  BY DEF vars, Shown, Unused
<1>3. iu' \in [Contents -> Helper] /\ \A x \in Contents : GoodHelper(iu'[x])
  BY <1>0
<1>4. /\ carried' \subseteq carried /\ carried \ {w} \subseteq carried'
      /\ session' \in [Contents -> ExtraData]
      /\ \A x \in Contents \ {w} : session'[x] = session[x]
      /\ ~otr /\ Shown(w) => session'[w] = EncodeExtraData(h)
      /\ otr \/ ~Shown(w) => session'[w] = session[w]
  BY <1>0 DEF PersistToSession
<1>5. carried' \subseteq Contents
  BY <1>4 DEF SInv, FileInv, SessionTypeOK
<1>6. SessionAgrees'
  <2> SUFFICES ASSUME NEW x \in Contents, Shown(x)'
               PROVE  \/ session'[x] = EncodeExtraData(iu'[x]) /\ ~otr'
                      \/ session'[x] = NoData
                         /\ (otr' \/ iu'[x].pendingWrite \/ x \in carried')
    BY DEF SessionAgrees, EncodeExtraData, NoData
  <2>0. Shown(x)
    BY <1>2
  <2>1. CASE x = w
    BY <2>0, <2>1, <1>0, <1>1, <1>4 DEF SInv, NothingLeftBehind
  <2>2. CASE x # w
    BY <2>0, <2>2, <1>0, <1>1, <1>4 DEF SInv, FileInv, SessionAgrees
  <2> QED
    BY <2>1, <2>2
<1>7. NothingLeftBehind'
  <2>1. ASSUME NEW x \in Contents, Unused(x)' PROVE iu'[x] = None
    BY <2>1, <1>0, <1>2 DEF SInv, NothingLeftBehind
  <2>2. ASSUME NEW x \in Contents, ~Shown(x)' \/ otr' PROVE session'[x] = NoData
    BY <2>2, <1>1, <1>2, <1>4 DEF SInv, NothingLeftBehind
  <2> QED
    BY <2>1, <2>2 DEF NothingLeftBehind, None, NoData
<1> QED
  BY <1>1, <1>3, <1>4, <1>5, <1>6, <1>7, AssembleSInv

(* Contents that go: nothing of them stays but the extra data of a closed tab.        *)
LEMMA ForgetSInv ==
    ASSUME SInv, IInv', NEW w \in Contents, Forget(w),
           \A x \in Contents \ {w} : (Shown(x)' <=> Shown(x)) /\ (Unused(x)' <=> Unused(x)),
           closed' \subseteq [uid : Uid \cup {NoUid}, data : ExtraData]
    PROVE  SInv'
<1>0. /\ iu \in [Contents -> Helper] /\ session \in [Contents -> ExtraData]
      /\ \A x \in Contents : GoodHelper(iu[x])
  BY GoodHelpers
<1>1. otr' = otr /\ otr' \in BOOLEAN /\ carried' = carried \ {w} /\ carried' \subseteq Contents
  BY DEF SInv, FileInv, SessionTypeOK, Forget
<1>2. GoodHelper(None) /\ EncodeExtraData(None) = NoData
  BY HelperFacts DEF GoodHelper, None, EncodeExtraData
<1>3. /\ iu' \in [Contents -> Helper] /\ iu'[w] = None
      /\ session' \in [Contents -> ExtraData] /\ session'[w] = NoData
      /\ \A x \in Contents \ {w} : iu'[x] = iu[x] /\ session'[x] = session[x]
  BY <1>0, HelperFacts DEF Forget
<1>4. \A x \in Contents : GoodHelper(iu'[x])
  BY <1>0, <1>2, <1>3
<1>5. SessionAgrees'
  <2> SUFFICES ASSUME NEW x \in Contents, Shown(x)'
               PROVE  \/ session'[x] = EncodeExtraData(iu'[x]) /\ ~otr
                      \/ session'[x] = NoData
                         /\ (otr \/ iu'[x].pendingWrite \/ x \in carried')
    BY <1>1 DEF SessionAgrees, EncodeExtraData, NoData
  <2>1. CASE x = w
    BY <2>1, <1>2, <1>3
  <2>2. CASE x # w
    BY <2>2, <1>1, <1>3 DEF SInv, FileInv, SessionAgrees
  <2> QED
    BY <2>1, <2>2
<1>6. NothingLeftBehind'
  BY <1>1, <1>3 DEF SInv, NothingLeftBehind, None, NoData
<1> QED
  BY <1>1, <1>3, <1>4, <1>5, <1>6, AssembleSInv

(* What Remember keeps has the type of session data.                                *)
LEMMA RememberOK ==
    ASSUME SInv, NEW w \in Contents, NEW data \in ExtraData, Remember(w, data)
    PROVE  closed' \subseteq [uid : Uid \cup {NoUid}, data : ExtraData]
<1>1. helper[w] \in Uid \cup {NoUid}
  BY DEF SInv, IInv, TypeOK
<1>2. closed \subseteq [uid : Uid \cup {NoUid}, data : ExtraData]
  BY DEF SInv, FileInv, SessionTypeOK
<1> QED
  BY <1>1, <1>2 DEF Remember

(* A tab opens, with nothing or with a restored value that waits to be written.     *)
LEMMA OpenSInv ==
    ASSUME SInv, IInv', NEW t \in Tab, NEW w \in Contents, NEW restored,
           OpenTab(t, w, restored), NEW h, GoodHelper(h), h = None \/ h.pendingWrite,
           iu' = [iu EXCEPT ![w] = h], UNCHANGED <<session, otr, closed, carried>>
    PROVE  SInv'
<1>0. /\ iu \in [Contents -> Helper] /\ session \in [Contents -> ExtraData]
      /\ \A x \in Contents : GoodHelper(iu[x])
      /\ h \in Helper /\ EncodeExtraData(None) = NoData
  BY GoodHelpers DEF GoodHelper, EncodeExtraData, None
<1>1. /\ otr' \in BOOLEAN /\ carried' \subseteq Contents /\ session' \in [Contents -> ExtraData]
      /\ closed' \subseteq [uid : Uid \cup {NoUid}, data : ExtraData]
  BY DEF SInv, FileInv, SessionTypeOK
<1>2. iu' \in [Contents -> Helper] /\ \A x \in Contents : GoodHelper(iu'[x])
  BY <1>0
<1>3. /\ \A x \in Contents \ {w} : (Shown(x)' <=> Shown(x)) /\ (Unused(x)' <=> Unused(x))
      /\ Shown(w)' /\ ~Shown(w)
  BY TabUidAssumption DEF OpenTab, Shown, Unused, SInv, IInv, TypeOK
<1>4. session[w] = NoData
  BY <1>3 DEF SInv, NothingLeftBehind
<1>5. SessionAgrees'
  <2> SUFFICES ASSUME NEW x \in Contents, Shown(x)'
               PROVE  \/ session'[x] = EncodeExtraData(iu'[x]) /\ ~otr'
                      \/ session'[x] = NoData
                         /\ (otr' \/ iu'[x].pendingWrite \/ x \in carried')
    BY DEF SessionAgrees, EncodeExtraData, NoData
  <2>1. CASE x = w
    BY <2>1, <1>0, <1>4
  <2>2. CASE x # w
    BY <2>2, <1>0, <1>3 DEF SInv, FileInv, SessionAgrees
  <2> QED
    BY <2>1, <2>2
<1>6. NothingLeftBehind'
  <2>1. ASSUME NEW x \in Contents, Unused(x)' PROVE iu'[x] = None
    <3>1. x # w
      BY <2>1, <1>3 DEF Unused
    <3> QED
      BY <3>1, <2>1, <1>0, <1>3 DEF SInv, NothingLeftBehind
  <2>2. ASSUME NEW x \in Contents, ~Shown(x)' \/ otr' PROVE session'[x] = NoData
    BY <2>2, <1>3, <1>4 DEF SInv, NothingLeftBehind
  <2> QED
    BY <2>1, <2>2 DEF NothingLeftBehind, None, NoData
<1> QED
  BY <1>1, <1>2, <1>5, <1>6, AssembleSInv

(* Nothing changes that the initial URLs depend on. *)
LEMMA QuietSInv ==
    ASSUME SInv, IInv', UNCHANGED urlVars,
           \A x \in Contents : (Shown(x)' <=> Shown(x)) /\ (Unused(x)' => Unused(x))
    PROVE  SInv'
<1>1. FileInv'
  BY DEF SInv, FileInv, SessionTypeOK, UserValuesAllowed, SessionAgrees, urlVars,
         EncodeExtraData, NoData, IsAllowedInitialUrl
<1>2. NothingLeftBehind'
  BY DEF SInv, NothingLeftBehind, urlVars, None, NoData
<1> QED
  BY <1>1, <1>2 DEF SInv

(* A discard: the new contents take over, the old ones keep nothing in the file.     *)
LEMMA DiscardSInv ==
    ASSUME SInv, IInv', NEW t \in Tab, NEW new \in Contents, NEW fresh \in Uid,
           DiscardTab(t, new, fresh)
    PROVE  SInv'
<1>a. PICK old \in Contents : old = contentsOf[t]
  BY DEF DiscardTab, WillDiscardContents, SInv, IInv, TypeOK
<1>0. /\ iu \in [Contents -> Helper] /\ session \in [Contents -> ExtraData]
      /\ \A x \in Contents : GoodHelper(iu[x])
  BY GoodHelpers
<1>1. /\ helper[old] \in Uid /\ Unused(new) /\ old # new
      /\ contentsOf' = [contentsOf EXCEPT ![t] = new]
      /\ \E uid \in Uid : helper' = [helper EXCEPT ![new] = uid]
      /\ pending' = [pending EXCEPT ![new] = NoUid]
  BY <1>a DEF DiscardTab, WillDiscardContents, Attach, EffectiveUid, Adopts, SInv, IInv, TypeOK,
         Unused, Shown
<1>2. /\ Shown(new)' /\ ~Shown(old)'
      /\ \A x \in Contents \ {old, new} : (Shown(x)' <=> Shown(x)) /\ (Unused(x)' <=> Unused(x))
  <2>0. contentsOf \in [Tab -> Contents \cup {NoContents}] /\ OneTabPerContents
    BY DEF SInv, IInv, TypeOK
  <2>1. contentsOf'[t] = new /\ \A s \in Tab \ {t} : contentsOf'[s] = contentsOf[s]
    BY <2>0, <1>1
  <2>2. Shown(new)'
    BY <2>1 DEF Shown
  <2>3. ~Shown(old)'
    BY <2>0, <2>1, <1>a, <1>1, TabUidAssumption DEF Shown, OneTabPerContents
  <2>4. ASSUME NEW x \in Contents, x # old, x # new
        PROVE  (Shown(x)' <=> Shown(x)) /\ helper'[x] = helper[x] /\ pending'[x] = pending[x]
    BY <2>1, <2>4, <1>a, <1>1 DEF Shown, SInv, IInv, TypeOK
  <2> QED
    BY <2>2, <2>3, <2>4 DEF Unused
<1>3. ~Unused(old)'
  BY <1>1, TabUidAssumption DEF Unused, SInv, IInv, TypeOK
<1>4. GoodHelper(CarryOver(iu[old]))
  BY <1>0, <1>1 DEF GoodHelper, CarryOver, Helper
<1>5. /\ iu' = [iu EXCEPT ![new] = CarryOver(iu[old])]
      /\ session' = [session EXCEPT ![old] = NoData]
      /\ carried' = (carried \cup {new}) \ {old} /\ otr' = otr /\ closed' = closed
  BY <1>a DEF DiscardTab
<1>6. iu' \in [Contents -> Helper] /\ \A x \in Contents : GoodHelper(iu'[x])
  BY <1>0, <1>4, <1>5 DEF GoodHelper
<1>7. /\ otr' \in BOOLEAN /\ carried' \subseteq Contents /\ session' \in [Contents -> ExtraData]
      /\ closed' \subseteq [uid : Uid \cup {NoUid}, data : ExtraData]
  BY <1>0, <1>1, <1>5, HelperFacts DEF SInv, FileInv, SessionTypeOK
<1>8. session'[old] = NoData /\ session'[new] = NoData
  BY <1>0, <1>1, <1>5 DEF SInv, NothingLeftBehind, Unused
<1>9. SessionAgrees'
  <2> SUFFICES ASSUME NEW x \in Contents, Shown(x)'
               PROVE  \/ session'[x] = EncodeExtraData(iu'[x]) /\ ~otr'
                      \/ session'[x] = NoData
                         /\ (otr' \/ iu'[x].pendingWrite \/ x \in carried')
    BY DEF SessionAgrees, EncodeExtraData, NoData
  <2>1. CASE x = new
    BY <2>1, <1>1, <1>5, <1>8
  <2>2. CASE x # new
    <3>1. x # old /\ Shown(x)
      BY <2>2, <1>2
    <3>2. /\ iu'[x] = iu[x] /\ session'[x] = session[x] /\ (x \in carried => x \in carried')
      BY <2>2, <3>1, <1>0, <1>5
    <3> QED
      BY <3>1, <3>2, <1>5 DEF SInv, FileInv, SessionAgrees
  <2> QED
    BY <2>1, <2>2
<1>10. NothingLeftBehind'
  <2>1. ASSUME NEW x \in Contents, Unused(x)' PROVE iu'[x] = None
    <3>1. x # old /\ x # new
      BY <2>1, <1>2, <1>3 DEF Unused
    <3> QED
      BY <3>1, <2>1, <1>0, <1>2, <1>5 DEF SInv, NothingLeftBehind
  <2>2. ASSUME NEW x \in Contents, ~Shown(x)' \/ otr' PROVE session'[x] = NoData
    <3>1. CASE x \in {old, new}
      BY <3>1, <1>8
    <3>2. CASE x \notin {old, new}
      BY <3>2, <2>2, <1>0, <1>2, <1>5 DEF SInv, NothingLeftBehind
    <3> QED
      BY <3>1, <3>2
  <2> QED
    BY <2>1, <2>2 DEF NothingLeftBehind, None, NoData
<1> QED
  BY <1>6, <1>7, <1>9, <1>10, AssembleSInv

(* A navigation that ends, of contents with helpers.                                *)
LEMMA NavigateSInv ==
    ASSUME SInv, IInv', NEW w \in Contents, NEW n, Navigate(w, n),
           UserIntended(n) /\ ~iu[w].captured => n.head \in Url
    PROVE  SInv'
<1>0. GoodHelper(iu[w]) /\ ~Unused(w) /\ UNCHANGED <<vars, otr, closed>>
  BY GoodHelpers DEF Navigate, Unused
<1>1. CASE iu[w].captured \/ iu[w].locked
  <2> DEFINE h == [iu[w] EXCEPT !.pendingWrite = FALSE]
  <2>1. iu' = [iu EXCEPT ![w] = h] /\ PersistToSession(w, iu[w])
    BY <1>1 DEF Navigate, DidFinishNavigation
  <2>2. GoodHelper(h) /\ EncodeExtraData(h) = EncodeExtraData(iu[w])
    BY <1>0 DEF GoodHelper, Helper, EncodeExtraData
  <2>3. PersistToSession(w, h)
    BY <2>1, <2>2 DEF PersistToSession
  <2> HIDE DEF h
  <2> QED
    BY <1>0, <2>1, <2>2, <2>3, WriteSInv
<1>2. CASE ~(iu[w].captured \/ iu[w].locked)
  <2> DEFINE h == [iu[w] EXCEPT !.url = n.head, !.captured = TRUE]
  <2>1. iu' = [iu EXCEPT ![w] = h] /\ PersistToSession(w, h) /\ UserIntended(n)
    BY <1>2 DEF Navigate, DidFinishNavigation
  <2>2. GoodHelper(h)
    BY <1>0, <1>2, <2>1, SessionTabsAssumption DEF GoodHelper, Helper
  <2> HIDE DEF h
  <2> QED
    BY <1>0, <2>1, <2>2, WriteSInv
<1> QED
  BY <1>1, <1>2

(* A user write.                                                                    *)
LEMMA UserWriteSInv ==
    ASSUME SInv, IInv', NEW w \in Contents, NEW u \in Url, Exists(w), SetUserInitialUrl(w, u),
           UNCHANGED <<vars, otr, closed>>
    PROVE  SInv'
<1> DEFINE h == [iu[w] EXCEPT !.url = u, !.captured = TRUE, !.locked = TRUE]
<1>1. GoodHelper(iu[w]) /\ ~Unused(w)
  BY GoodHelpers DEF Exists, Unused
<1>2. iu' = [iu EXCEPT ![w] = h] /\ PersistToSession(w, h) /\ IsAllowedInitialUrl(u)
  BY DEF SetUserInitialUrl
<1>3. GoodHelper(h)
  BY <1>1, <1>2, SessionTabsAssumption DEF GoodHelper, Helper
<1> HIDE DEF h
<1> QED
  BY <1>1, <1>2, <1>3, WriteSInv

LEMMA NextSInv == SInv /\ [SessionNext]_sessionVars => SInv'
<1> SUFFICES ASSUME SInv, [SessionNext]_sessionVars PROVE SInv'
  OBVIOUS
<1>i. IInv'
  BY SessionStep, NextIInv DEF SInv
<1>g. /\ \A w \in Contents : GoodHelper(iu[w]) /\ iu[w] \in Helper
      /\ iu \in [Contents -> Helper] /\ session \in [Contents -> ExtraData]
      /\ GoodHelper(None)
  BY GoodHelpers, HelperFacts DEF GoodHelper, None
<1>t. TypeOK /\ closed \subseteq [uid : Uid \cup {NoUid}, data : ExtraData]
  BY DEF SInv, IInv, FileInv, SessionTypeOK
<1>1. ASSUME NEW t \in Tab, NEW w \in Contents, NewTab(t, w) PROVE SInv'
  <2>1. iu[w] = None
    BY <1>1 DEF NewTab, OpenTab, SInv, NothingLeftBehind
  <2>2. iu' = [iu EXCEPT ![w] = None] /\ UNCHANGED <<session, otr, closed, carried>>
    BY <1>1, <1>g, <2>1 DEF NewTab, urlVars
  <2> QED
    BY <1>1, <1>i, <1>g, <2>2, OpenSInv DEF NewTab
<1>2. ASSUME NEW t \in Tab, NEW w \in Contents, NEW e \in closed \cup HandEdited,
             RestoreTab(t, w, e)
      PROVE  SInv'
  <2> DEFINE h == SetPendingRestoredInitialUrl(e.data)
  <2>1. e.data \in ExtraData
    <3>1. CASE e \in closed
      BY <3>1, <1>t
    <3>2. CASE e \in HandEdited
      <4>1. PICK u \in {Garbage, File} :
              e = [uid |-> Malformed, data |-> [url |-> u, locked |-> TRUE]]
        BY <3>2 DEF HandEdited
      <4>2. e.data = [url |-> u, locked |-> TRUE]
        BY <4>1
      <4> QED
        BY <4>2, SessionTabsAssumption DEF ExtraData
    <3> QED
      BY <3>1, <3>2
  <2>2. GoodHelper(h) /\ (h = None \/ h.pendingWrite)
    BY <2>1, <1>g DEF SetPendingRestoredInitialUrl, DecodeExtraData, GoodHelper, Helper, ExtraData
  <2>3. OpenTab(t, w, e.uid) /\ iu' = [iu EXCEPT ![w] = h]
        /\ UNCHANGED <<session, otr, closed, carried>>
    BY <1>2 DEF RestoreTab
  <2> HIDE DEF h
  <2> QED
    BY <1>i, <2>2, <2>3, OpenSInv
<1>3. ASSUME NEW t \in Tab, NEW fresh \in Uid, AttachHelpers(t, fresh) PROVE SInv'
  <2>1. PICK w \in Contents : w = contentsOf[t] /\ helper[w] = NoUid
    BY <1>3, <1>t DEF AttachHelpers, MaybeCreateForTab, TypeOK
  <2>2. /\ contentsOf' = contentsOf /\ UNCHANGED urlVars
        /\ \A x \in Contents \ {w} : helper'[x] = helper[x] /\ pending'[x] = pending[x]
    BY <1>3, <1>t, <2>1 DEF AttachHelpers, MaybeCreateForTab, Attach, TypeOK
  <2>3. \A x \in Contents : (Shown(x)' <=> Shown(x)) /\ (Unused(x)' => Unused(x))
    BY <2>1, <2>2 DEF Shown, Unused
  <2> QED
    BY <1>i, <2>2, <2>3, QuietSInv
<1>4. ASSUME NEW t \in Tab, NEW new \in Contents, NEW fresh \in Uid, DiscardTab(t, new, fresh)
      PROVE  SInv'
  BY <1>4, <1>i, DiscardSInv
<1>5. ASSUME NEW t \in Tab, UserClosesTab(t) \/ TabIsLost(t) PROVE SInv'
  <2>1. PICK w \in Contents : w = contentsOf[t]
    BY <1>5, <1>t DEF UserClosesTab, TabIsLost, CloseTab, TypeOK
  <2>2. CloseTab(t) /\ Forget(w)
    BY <1>5, <2>1 DEF UserClosesTab, TabIsLost
  <2>3. PICK data \in ExtraData : Remember(w, data)
    BY <1>5, <2>1, <1>g, HelperFacts DEF UserClosesTab, TabIsLost
  <2>4. /\ \A s \in Tab \ {t} : contentsOf'[s] = contentsOf[s]
        /\ contentsOf'[t] = NoContents
        /\ \A x \in Contents \ {w} : helper'[x] = helper[x] /\ pending'[x] = pending[x]
    BY <1>t, <2>1, <2>2 DEF CloseTab, Destroyed, TypeOK
  <2>5. \A x \in Contents \ {w} : (Shown(x)' <=> Shown(x)) /\ (Unused(x)' <=> Unused(x))
    BY <2>1, <2>4, TabUidAssumption DEF Shown, Unused
  <2> QED
    BY <1>i, <2>2, <2>3, <2>5, RememberOK, ForgetSInv
<1>6. ASSUME NEW w \in Contents, DiscardedGoes(w) PROVE SInv'
  <2>1. Forget(w) /\ closed' = closed /\ DestroyDiscarded(w)
    BY <1>6 DEF DiscardedGoes
  <2>2. \A x \in Contents \ {w} : (Shown(x)' <=> Shown(x)) /\ (Unused(x)' <=> Unused(x))
    BY <1>t, <2>1 DEF DestroyDiscarded, Destroyed, Shown, Unused, TypeOK
  <2> QED
    BY <1>i, <1>t, <2>1, <2>2, ForgetSInv
<1>7. ASSUME NEW w \in Contents, NEW n \in Navigations, Navigate(w, n) PROVE SInv'
  BY <1>7, <1>i, NavigateSInv, SessionTabsAssumption
<1>8. ASSUME NEW t \in Tab, ReloadInitialUrl(t) PROVE SInv'
  <2>1. PICK w \in Contents : w = contentsOf[t] /\ iu[w].captured
    BY <1>8, <1>t DEF ReloadInitialUrl, CanReloadInitialUrlForContents, TypeOK
  <2>2. PICK n : Navigate(w, n)
    BY <1>8, <2>1 DEF ReloadInitialUrl
  <2> QED
    BY <1>i, <2>1, <2>2, NavigateSInv
<1>9. ASSUME NEW w \in Contents, NEW u \in Url,
             SetInitialUrlToCurrentPage(w, u) \/ CommitEdit(w, u)
      PROVE  SInv'
  BY <1>9, <1>i, UserWriteSInv DEF SetInitialUrlToCurrentPage, CommitEdit
<1>10. ASSUME NEW s \in Tab, NEW t \in Tab, OnTabDuplicated(s, t) PROVE SInv'
  <2>1. PICK from \in Contents, to \in Contents : from = contentsOf[s] /\ to = contentsOf[t]
    BY <1>10, <1>t DEF OnTabDuplicated, TypeOK
  <2> DEFINE h == [iu[from] EXCEPT !.pendingWrite = FALSE]
  <2>2. /\ iu' = [iu EXCEPT ![to] = h] /\ PersistToSession(to, h) /\ ~Unused(to)
        /\ UNCHANGED <<vars, otr, closed>>
    BY <1>10, <2>1 DEF OnTabDuplicated, Unused
  <2>3. GoodHelper(h)
    BY <1>g DEF GoodHelper, Helper
  <2> HIDE DEF h
  <2> QED
    BY <1>i, <2>2, <2>3, WriteSInv
<1>11. ASSUME BuildTabExtraDataCommands PROVE SInv'
  <2>1. /\ ~otr /\ UNCHANGED <<vars, iu, otr, closed>> /\ carried' \subseteq carried
        /\ session' = [w \in Contents |-> IF Shown(w) THEN EncodeExtraData(iu[w]) ELSE NoData]
    BY <1>11 DEF BuildTabExtraDataCommands
  <2>2. \A x \in Contents : (Shown(x)' <=> Shown(x)) /\ (Unused(x)' <=> Unused(x))
    BY <2>1 DEF vars, Shown, Unused
  <2>3. SessionAgrees'
    BY <2>1, <2>2 DEF SessionAgrees, EncodeExtraData, NoData
  <2>4. NothingLeftBehind'
    BY <2>1, <2>2 DEF SInv, NothingLeftBehind, None, NoData
  <2>5. session' \in [Contents -> ExtraData]
    BY <2>1, <1>g, HelperFacts
  <2>6. otr' \in BOOLEAN /\ carried' \subseteq Contents
    BY <2>1 DEF SInv, FileInv, SessionTypeOK
  <2> QED
    BY <1>i, <1>g, <1>t, <2>1, <2>3, <2>4, <2>5, <2>6, AssembleSInv
<1>12. ASSUME UNCHANGED sessionVars PROVE SInv'
  <2>1. UNCHANGED urlVars /\ UNCHANGED vars
    BY <1>12 DEF sessionVars
  <2>2. \A x \in Contents : (Shown(x)' <=> Shown(x)) /\ (Unused(x)' => Unused(x))
    BY <2>1 DEF vars, Shown, Unused
  <2> QED
    BY <1>i, <2>1, <2>2, QuietSInv
<1> QED
  BY <1>1, <1>2, <1>3, <1>4, <1>5, <1>6, <1>7, <1>8, <1>9, <1>10, <1>11, <1>12
  DEF SessionNext

LEMMA SessionSInv == SessionSpec => []SInv
BY InitSInv, NextSInv, PTL DEF SessionSpec

(* A locked value is what the user wrote last: the history follows the lock through  *)
(* writes, duplicates, discards and restores.                                        *)
LEMMA NextChosen == SInv /\ LockedIsChosen /\ [SessionNext]_sessionVars => LockedIsChosen'
<1> SUFFICES ASSUME SInv, LockedIsChosen, [SessionNext]_sessionVars PROVE LockedIsChosen'
  OBVIOUS
<1>g. /\ iu \in [Contents -> Helper] /\ contentsOf \in [Tab -> Contents \cup {NoContents}]
      /\ chosen = [w \in Contents |-> IF iu[w].locked THEN iu[w].url ELSE NoUrl]
  BY DEF SInv, FileInv, SessionTypeOK, IInv, TypeOK, LockedIsChosen
<1>a. ASSUME iu' = iu, chosen' = chosen PROVE LockedIsChosen'
  BY <1>a, <1>g DEF LockedIsChosen
<1>b. ASSUME NEW w \in Contents, NEW h, iu' = [iu EXCEPT ![w] = h],
             chosen' = [chosen EXCEPT ![w] = IF h.locked THEN h.url ELSE NoUrl]
      PROVE  LockedIsChosen'
  BY <1>b, <1>g DEF LockedIsChosen
<1>1. ASSUME NEW t \in Tab, NEW w \in Contents, NEW e \in closed \cup HandEdited,
             RestoreTab(t, w, e)
      PROVE  LockedIsChosen'
  <2> DEFINE h == SetPendingRestoredInitialUrl(e.data)
  <2>1. iu' = [iu EXCEPT ![w] = h] /\ chosen' = [chosen EXCEPT ![w] = ChosenIn(e.data)]
    BY <1>1 DEF RestoreTab
  <2>2. ChosenIn(e.data) = IF h.locked THEN h.url ELSE NoUrl
    BY DEF ChosenIn, SetPendingRestoredInitialUrl, None
  <2> HIDE DEF h
  <2> QED
    BY <1>b, <2>1, <2>2
<1>2. ASSUME NEW t \in Tab, NEW new \in Contents, NEW fresh \in Uid, DiscardTab(t, new, fresh)
      PROVE  LockedIsChosen'
  <2>1. PICK old \in Contents : old = contentsOf[t]
    BY <1>2, <1>g DEF DiscardTab, WillDiscardContents
  <2> DEFINE h == CarryOver(iu[old])
  <2>2. iu' = [iu EXCEPT ![new] = h] /\ chosen' = [chosen EXCEPT ![new] = chosen[old]]
    BY <1>2, <2>1 DEF DiscardTab
  <2>3. chosen[old] = IF h.locked THEN h.url ELSE NoUrl
    BY <1>g DEF CarryOver, Helper
  <2> HIDE DEF h
  <2> QED
    BY <1>b, <2>2, <2>3
<1>3. ASSUME NEW w \in Contents, Forget(w) PROVE LockedIsChosen'
  <2>1. iu' = [iu EXCEPT ![w] = None] /\ chosen' = [chosen EXCEPT ![w] = NoUrl]
    BY <1>3 DEF Forget
  <2>2. NoUrl = IF None.locked THEN None.url ELSE NoUrl
    BY DEF None
  <2> QED
    BY <1>b, <2>1, <2>2
<1>4. ASSUME NEW t \in Tab, UserClosesTab(t) \/ TabIsLost(t) PROVE LockedIsChosen'
  <2>1. contentsOf[t] \in Contents /\ Forget(contentsOf[t])
    BY <1>4, <1>g DEF UserClosesTab, TabIsLost, CloseTab
  <2> QED
    BY <1>3, <2>1
<1>5. ASSUME NEW w, NEW n, Navigate(w, n) PROVE LockedIsChosen'
  <2>1. chosen' = chosen
    BY <1>5 DEF Navigate
  <2>2. PICK h : iu' = [iu EXCEPT ![w] = h]
                 /\ (w \in Contents => (IF h.locked THEN h.url ELSE NoUrl) = chosen[w])
    <3>1. CASE iu[w].captured \/ iu[w].locked
      <4> DEFINE h == [iu[w] EXCEPT !.pendingWrite = FALSE]
      <4>1. iu' = [iu EXCEPT ![w] = h]
        BY <1>5, <3>1 DEF Navigate, DidFinishNavigation
      <4>2. w \in Contents => (IF h.locked THEN h.url ELSE NoUrl) = chosen[w]
        BY <1>g DEF Helper
      <4> QED
        BY <4>1, <4>2
    <3>2. CASE ~(iu[w].captured \/ iu[w].locked)
      <4> DEFINE h == [iu[w] EXCEPT !.url = n.head, !.captured = TRUE]
      <4>1. iu' = [iu EXCEPT ![w] = h]
        BY <1>5, <3>2 DEF Navigate, DidFinishNavigation
      <4>2. w \in Contents => (IF h.locked THEN h.url ELSE NoUrl) = chosen[w]
        BY <1>g, <3>2 DEF Helper
      <4> QED
        BY <4>1, <4>2
    <3> QED
      BY <3>1, <3>2
  <2> QED
    BY <1>g, <2>1, <2>2 DEF LockedIsChosen
<1>6. ASSUME NEW w \in Contents, NEW u \in Url,
             SetInitialUrlToCurrentPage(w, u) \/ CommitEdit(w, u)
      PROVE  LockedIsChosen'
  <2> DEFINE h == [iu[w] EXCEPT !.url = u, !.captured = TRUE, !.locked = TRUE]
  <2>1. iu' = [iu EXCEPT ![w] = h] /\ chosen' = [chosen EXCEPT ![w] = u]
    BY <1>6 DEF SetInitialUrlToCurrentPage, CommitEdit, SetUserInitialUrl
  <2>2. u = IF h.locked THEN h.url ELSE NoUrl
    BY <1>g DEF Helper
  <2> HIDE DEF h
  <2> QED
    BY <1>b, <2>1, <2>2
<1>7. ASSUME NEW s \in Tab, NEW t \in Tab, OnTabDuplicated(s, t) PROVE LockedIsChosen'
  <2>1. PICK from \in Contents, to \in Contents : from = contentsOf[s] /\ to = contentsOf[t]
    BY <1>7, <1>g DEF OnTabDuplicated
  <2> DEFINE h == [iu[from] EXCEPT !.pendingWrite = FALSE]
  <2>2. iu' = [iu EXCEPT ![to] = h] /\ chosen' = [chosen EXCEPT ![to] = chosen[from]]
    BY <1>7, <2>1 DEF OnTabDuplicated
  <2>3. chosen[from] = IF h.locked THEN h.url ELSE NoUrl
    BY <1>g DEF Helper
  <2> HIDE DEF h
  <2> QED
    BY <1>b, <2>2, <2>3
<1> QED
  BY <1>a, <1>1, <1>2, <1>3, <1>4, <1>5, <1>6, <1>7
  DEF SessionNext, NewTab, AttachHelpers, DiscardedGoes, ReloadInitialUrl,
      BuildTabExtraDataCommands, sessionVars, urlVars

LEMMA ChosenAlways == SessionSpec => []LockedIsChosen
<1>1. SessionInit => LockedIsChosen
  BY DEF SessionInit, LockedIsChosen, None
<1> QED
  BY <1>1, NextChosen, SessionSInv, PTL DEF SessionSpec

(* The initial URLs and the session file: whatever was captured, edited, duplicated, *)
(* discarded and restored, user values are allowed ones, the file holds what the tab  *)
(* holds or nothing, and a locked value is the one the user wrote last.              *)
THEOREM SessionIsSound == SessionSpec => []SessionInv
<1>1. SInv /\ LockedIsChosen => SessionInv
  BY DEF SInv, FileInv, SessionInv
<1> QED
  BY <1>1, SessionSInv, ChosenAlways, PTL

(* Two helpers of one tab, before and after a step, with what the user has written. *)
Sticks(old, new, before, after) ==
    old.captured => /\ new.captured
                    /\ new.url = old.url \/ (after # before /\ new.url = after)
                    /\ old.locked => new.locked

(* A captured initial URL, locked or not, is replaced only by what the user has just *)
(* written, also across discards.                                                    *)
THEOREM InitialUrlsAreSticky == SessionSpec => InitialUrlIsSticky
<1> DEFINE Goal(t) == Sticks(iu[contentsOf[t]], iu'[contentsOf'[t]],
                             chosen[contentsOf[t]], chosen'[contentsOf'[t]])
           Keeps == \A t \in Tab :
                      contentsOf[t] # NoContents /\ contentsOf'[t] # NoContents => Goal(t)
<1>1. SInv /\ LockedIsChosen /\ [SessionNext]_sessionVars => [Keeps]_sessionVars
  <2> SUFFICES ASSUME SInv, LockedIsChosen, SessionNext, NEW s \in Tab,
                      contentsOf[s] # NoContents, contentsOf'[s] # NoContents
               PROVE  Goal(s)
    OBVIOUS
  <2>0. PICK c \in Contents : c = contentsOf[s]
    BY DEF SInv, IInv, TypeOK
  <2>g. /\ iu \in [Contents -> Helper] /\ \A w \in Contents : iu[w] \in Helper
        /\ contentsOf \in [Tab -> Contents \cup {NoContents}] /\ OneTabPerContents
    BY DEF SInv, IInv, TypeOK, FileInv, SessionTypeOK
  <2>s. ASSUME contentsOf'[s] = c, iu'[c] = iu[c]
        PROVE  Goal(s)
    BY <2>0, <2>s DEF Sticks
  <2>1. ASSUME NEW t \in Tab, NEW w \in Contents, NewTab(t, w)
        PROVE  contentsOf'[s] = c /\ iu'[c] = iu[c]
    BY <2>0, <2>1, <2>g DEF NewTab, OpenTab, urlVars
  <2>2. ASSUME NEW t \in Tab, NEW w \in Contents, NEW e \in closed \cup HandEdited,
               RestoreTab(t, w, e)
        PROVE  contentsOf'[s] = c /\ iu'[c] = iu[c]
    BY <2>0, <2>2, <2>g DEF RestoreTab, OpenTab, Unused, Shown
  <2>3. ASSUME NEW t \in Tab, NEW fresh \in Uid, AttachHelpers(t, fresh)
        PROVE  contentsOf'[s] = c /\ iu'[c] = iu[c]
    BY <2>0, <2>3 DEF AttachHelpers, MaybeCreateForTab, urlVars
  <2>4. ASSUME NEW t \in Tab, NEW new \in Contents, NEW fresh \in Uid,
               DiscardTab(t, new, fresh)
        PROVE  Goal(s)
    <3>1. /\ contentsOf' = [contentsOf EXCEPT ![t] = new] /\ ~Shown(new)
          /\ iu' = [iu EXCEPT ![new] = CarryOver(iu[contentsOf[t]])]
      BY <2>4 DEF DiscardTab, WillDiscardContents, Unused
    <3>2. CASE s = t
      BY <3>1, <3>2, <2>0, <2>g DEF CarryOver, Sticks, Helper
    <3>3. CASE s # t
      BY <3>1, <3>3, <2>0, <2>g, <2>s DEF Shown
    <3> QED
      BY <3>2, <3>3
  <2>5. ASSUME NEW t \in Tab, UserClosesTab(t) \/ TabIsLost(t)
        PROVE  contentsOf'[s] = c /\ iu'[c] = iu[c]
    <3>1. /\ contentsOf' = [contentsOf EXCEPT ![t] = NoContents]
          /\ iu' = [iu EXCEPT ![contentsOf[t]] = None]
      BY <2>5 DEF UserClosesTab, TabIsLost, CloseTab, Forget
    <3>2. s # t
      BY <3>1, <2>g
    <3> QED
      BY <3>1, <3>2, <2>0, <2>g DEF OneTabPerContents
  <2>6. ASSUME NEW w \in Contents, DiscardedGoes(w)
        PROVE  contentsOf'[s] = c /\ iu'[c] = iu[c]
    BY <2>0, <2>6, <2>g DEF DiscardedGoes, DestroyDiscarded, Forget, Shown
  <2>n. ASSUME NEW w, NEW n, Navigate(w, n)
        PROVE  Goal(s)
    <3>1. contentsOf' = contentsOf
      BY <2>n DEF Navigate, vars
    <3>2. CASE w = c /\ iu[c].captured
      BY <2>n, <3>1, <3>2, <2>0, <2>g DEF Navigate, DidFinishNavigation, Sticks, Helper
    <3>3. CASE w = c /\ ~iu[c].captured
      BY <3>3, <2>0 DEF Sticks
    <3>4. CASE w # c
      BY <2>n, <3>1, <3>4, <2>0, <2>g, <2>s DEF Navigate, DidFinishNavigation
    <3> QED
      BY <3>2, <3>3, <3>4
  <2>8. ASSUME NEW t \in Tab, ReloadInitialUrl(t)
        PROVE  Goal(s)
    BY <2>8, <2>n DEF ReloadInitialUrl
  <2>9. ASSUME NEW w \in Contents, NEW u \in Url,
               SetInitialUrlToCurrentPage(w, u) \/ CommitEdit(w, u)
        PROVE  Goal(s)
    <3>1. /\ contentsOf' = contentsOf /\ chosen' = [chosen EXCEPT ![w] = u]
          /\ iu' = [iu EXCEPT ![w] = [iu[w] EXCEPT !.url = u, !.captured = TRUE, !.locked = TRUE]]
      BY <2>9 DEF SetInitialUrlToCurrentPage, CommitEdit, SetUserInitialUrl, vars
    <3>2. CASE w = c
      <4>1. /\ chosen'[c] = u /\ iu'[c].url = u /\ iu'[c].captured /\ iu'[c].locked
        BY <3>1, <3>2, <2>0, <2>g DEF LockedIsChosen, Helper
      <4>2. chosen[c] = u => iu[c].url = u
        BY <2>0, SessionTabsAssumption DEF LockedIsChosen
      <4> QED
        BY <3>1, <4>1, <4>2, <2>0 DEF Sticks
    <3>3. CASE w # c
      BY <3>1, <3>3, <2>0, <2>g, <2>s
    <3> QED
      BY <3>2, <3>3
  <2>10. ASSUME NEW r \in Tab, NEW t \in Tab, OnTabDuplicated(r, t)
         PROVE  Goal(s)
    <3>1. /\ contentsOf' = contentsOf /\ iu[contentsOf[t]] = None
          /\ iu' = [iu EXCEPT ![contentsOf[t]] = [iu[contentsOf[r]] EXCEPT !.pendingWrite = FALSE]]
      BY <2>10 DEF OnTabDuplicated, vars
    <3> QED
      BY <3>1, <2>0, <2>g DEF Sticks, None
  <2>11. ASSUME BuildTabExtraDataCommands
         PROVE  contentsOf'[s] = c /\ iu'[c] = iu[c]
    BY <2>11, <2>0 DEF BuildTabExtraDataCommands, vars
  <2> QED
    BY <2>s, <2>1, <2>2, <2>3, <2>4, <2>5, <2>6, <2>n, <2>8, <2>9, <2>10, <2>11
    DEF SessionNext
<1>2. [Keeps]_sessionVars <=> [\A t \in Tab :
         LET w == contentsOf[t]
             w2 == contentsOf'[t]
         IN  /\ w # NoContents /\ w2 # NoContents
             /\ iu[w].captured
             => /\ iu'[w2].captured
                /\ \/ iu'[w2].url = iu[w].url
                   \/ chosen'[w2] # chosen[w] /\ iu'[w2].url = chosen'[w2]
                /\ iu[w].locked => iu'[w2].locked]_sessionVars
  BY DEF Sticks
<1> QED
  BY <1>1, <1>2, SessionSInv, ChosenAlways, PTL DEF SessionSpec, InitialUrlIsSticky
=============================================================================
