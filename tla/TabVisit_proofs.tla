--------------------------- MODULE TabVisit_proofs ---------------------------
(***************************************************************************)
(* Proofs about tab visit-order navigation, for any number of tabs,        *)
(* gestures, posted calls, clears and restarts: clearing browsing data is  *)
(* a barrier on the store sequence; the coordinator's state is sound       *)
(* between any two handlers; what it journals is what was settled; its     *)
(* cache of closed tabs agrees with the sidecar; and the order Back walks  *)
(* is the one a process started on the journal would derive.               *)
(***************************************************************************)
EXTENDS TabVisit, SequenceTheorems, FiniteSetTheorems, TLAPS

(* Some sequence, of elements of any kind. *)
IsSeq(s) == \E S : s \in Seq(S)

(* The calls that carry a generation. *)
Stamped(call) == call.op \in {"append", "readTabStates", "clear"}

(* Nothing in the queue is stamped with a generation still to come. *)
StampsArePast == \A i \in 1..Len(queue) : Stamped(queue[i]) => queue[i].gen \in 0..generation

(* A gesture does not outlive a clear. *)
GestureIsCurrent == traversalActive => gestureGeneration = generation

Barrier ==
    \A i, j \in 1..Len(queue) : i < j =>
        /\ queue[i].op = "clear" /\ queue[j].op = "append" => queue[i].gen <= queue[j].gen
        /\ queue[i].op = "readTabStates" /\ queue[j].op = "clear" =>
              queue[i].gen < generation

(* The inductive invariant. *)
BInv ==
    /\ IsSeq(queue)
    /\ generation \in Nat
    /\ GestureIsCurrent
    /\ StampsArePast
    /\ Barrier

(* Concatenation of sequences of any kind. *)
LEMMA ConcatSeq ==
    ASSUME NEW s, NEW t, IsSeq(s), IsSeq(t)
    PROVE  /\ IsSeq(s \o t) /\ Len(s) \in Nat /\ Len(t) \in Nat
           /\ Len(s \o t) = Len(s) + Len(t)
           /\ \A i \in 1..Len(s \o t) :
                 (s \o t)[i] = IF i <= Len(s) THEN s[i] ELSE t[i - Len(s)]
<1>1. PICK S : s \in Seq(S)
  BY DEF IsSeq
<1>2. PICK T : t \in Seq(T)
  BY DEF IsSeq
<1>3. s \in Seq(S \cup T) /\ t \in Seq(S \cup T)
  BY <1>1, <1>2
<1> QED
  BY <1>3 DEF IsSeq
(* Calls of this generation, none of them a clear. *)
CurrentCall(call) == call.op # "clear" /\ (Stamped(call) => call.gen = generation)
CurrentCalls(calls) == IsSeq(calls) /\ \A i \in 1..Len(calls) : CurrentCall(calls[i])

(* A handler may post nothing; what it posts is current if each call is. *)
LEMMA NoCall == CurrentCalls(<<>>)
<1>1. <<>> \in Seq({}) /\ Len(<<>>) = 0
  OBVIOUS
<1> QED
  BY <1>1 DEF CurrentCalls, IsSeq

(* One call. *)
LEMMA OneCall ==
    ASSUME NEW call, CurrentCall(call)
    PROVE  CurrentCalls(<<call>>)
<1>1. <<call>> \in Seq({call}) /\ Len(<<call>>) = 1 /\ <<call>>[1] = call
  OBVIOUS
<1>2. \A i \in 1..Len(<<call>>) : <<call>>[i] = call
  BY <1>1
<1>3. IsSeq(<<call>>)
  BY <1>1 DEF IsSeq
<1> QED
  BY <1>2, <1>3 DEF CurrentCalls

(* Two calls. *)
LEMMA TwoCalls ==
    ASSUME NEW x, NEW y, CurrentCall(x), CurrentCall(y)
    PROVE  CurrentCalls(<<x, y>>)
<1> DEFINE calls == <<x, y>>
<1>1. calls \in Seq({x, y}) /\ Len(calls) = 2 /\ calls[1] = x /\ calls[2] = y
  OBVIOUS
<1> HIDE DEF calls
<1>2. \A i \in 1..Len(calls) : i = 1 \/ i = 2
  BY <1>1
<1>3. \A i \in 1..Len(calls) : CurrentCall(calls[i])
  BY <1>1, <1>2
<1>4. IsSeq(calls)
  BY <1>1 DEF IsSeq
<1> QED
  BY <1>3, <1>4 DEF CurrentCalls, calls

(* One run of calls after another. *)
LEMMA BothCalls ==
    ASSUME NEW s, NEW t, CurrentCalls(s), CurrentCalls(t)
    PROVE  CurrentCalls(s \o t)
<1>1. /\ IsSeq(s \o t) /\ Len(s) \in Nat /\ Len(t) \in Nat
      /\ Len(s \o t) = Len(s) + Len(t)
      /\ \A i \in 1..Len(s \o t) :
            (s \o t)[i] = IF i <= Len(s) THEN s[i] ELSE t[i - Len(s)]
  BY ConcatSeq DEF CurrentCalls
<1> SUFFICES ASSUME NEW i \in 1..Len(s \o t)
             PROVE  CurrentCall((s \o t)[i])
  BY <1>1 DEF CurrentCalls
<1>2. CASE i <= Len(s)
  BY <1>1, <1>2 DEF CurrentCalls
<1>3. CASE ~(i <= Len(s))
  <2>1. i - Len(s) \in 1..Len(t) /\ (s \o t)[i] = t[i - Len(s)]
    BY <1>1, <1>3
  <2> QED
    BY <2>1 DEF CurrentCalls
<1> QED
  BY <1>2, <1>3

(* A visit stamped with this generation. *)
LEMMA VisitIsCurrent ==
    ASSUME NEW uid, NEW gen, gen = generation
    PROVE  CurrentCall(RecordVisit(uid, gen))
BY DEF CurrentCall, Stamped, RecordVisit

(* A tab_state row carries no generation. *)
LEMMA UpsertIsCurrent ==
    ASSUME NEW uid, NEW closed, NEW url
    PROVE  CurrentCall(SetTabState(uid, closed, url))
BY DEF CurrentCall, Stamped, SetTabState

(* LoadReopenableFromSidecar stamps its read with the generation. *)
LEMMA SidecarReadIsCurrent == CurrentCall(GetAllTabStates(generation))
BY DEF CurrentCall, Stamped, GetAllTabStates

(* RebindSidecar posts one row or nothing. *)
LEMMA RebindIsCurrent ==
    ASSUME NEW uid, NEW how
    PROVE  CurrentCalls(RebindCalls(uid, how))
BY NoCall, OneCall, UpsertIsCurrent DEF RebindCalls

(* Posting such calls keeps the invariant. *)
LEMMA PostKeeps ==
    ASSUME BInv, NEW calls, CurrentCalls(calls), Post(calls),
           generation' = generation, GestureIsCurrent'
    PROVE  BInv'
<1>1. /\ IsSeq(queue') /\ Len(queue) \in Nat /\ Len(calls) \in Nat
      /\ Len(queue') = Len(queue) + Len(calls)
      /\ \A i \in 1..Len(queue') :
            queue'[i] = IF i <= Len(queue) THEN queue[i] ELSE calls[i - Len(queue)]
  BY ConcatSeq DEF BInv, Post, CurrentCalls
<1>2. ASSUME NEW i \in 1..Len(queue')
      PROVE  \/ i \in 1..Len(queue) /\ queue'[i] = queue[i]
             \/ /\ ~(i \in 1..Len(queue))
                /\ queue'[i].op # "clear"
                /\ Stamped(queue'[i]) => queue'[i].gen = generation
  <2>1. CASE i <= Len(queue)
    BY <1>1, <2>1
  <2>2. CASE ~(i <= Len(queue))
    <3>1. i - Len(queue) \in 1..Len(calls) /\ queue'[i] = calls[i - Len(queue)]
      BY <1>1, <2>2
    <3> QED
      BY <1>1, <2>2, <3>1 DEF CurrentCalls, CurrentCall
  <2> QED
    BY <2>1, <2>2
<1>3. StampsArePast'
  <2> SUFFICES ASSUME NEW i \in 1..Len(queue'), Stamped(queue'[i])
               PROVE  queue'[i].gen \in 0..generation
    BY DEF StampsArePast, Stamped
  <2> QED
    BY <1>2 DEF BInv, StampsArePast
<1>4. Barrier'
  <2> SUFFICES ASSUME NEW i \in 1..Len(queue'), NEW j \in 1..Len(queue'), i < j
               PROVE  /\ queue'[i].op = "clear" /\ queue'[j].op = "append" =>
                            queue'[i].gen <= queue'[j].gen
                      /\ queue'[i].op = "readTabStates" /\ queue'[j].op = "clear" =>
                            queue'[i].gen < generation
    BY DEF Barrier
  <2>1. CASE j \in 1..Len(queue)
    <3>1. i \in 1..Len(queue)
      BY <1>1, <2>1
    <3>2. queue'[i] = queue[i] /\ queue'[j] = queue[j]
      BY <1>2, <2>1, <3>1
    <3> QED
      BY <2>1, <3>1, <3>2 DEF BInv, Barrier
  <2>2. CASE ~(j \in 1..Len(queue))
    <3>1. queue'[j].op # "clear" /\ (queue'[j].op = "append" => queue'[j].gen = generation)
      BY <1>2, <2>2 DEF Stamped
    <3>2. ASSUME queue'[i].op = "clear"
          PROVE  queue'[i].gen <= generation
      <4>1. i \in 1..Len(queue) /\ queue'[i] = queue[i]
        BY <1>2, <3>2
      <4> QED
        BY <3>2, <4>1 DEF BInv, StampsArePast, Stamped
    <3> QED
      BY <3>1, <3>2
  <2> QED
    BY <2>1, <2>2
<1> QED
  BY <1>1, <1>3, <1>4 DEF BInv

(* Posting a clear of the next generation, with the gesture over. *)
LEMMA ClearKeeps ==
    ASSUME BInv, NEW begin, NEW end,
           Post(<<ClearCall(begin, end, generation + 1)>>),
           generation' = generation + 1, traversalActive' = FALSE
    PROVE  BInv'
<1> DEFINE call == ClearCall(begin, end, generation + 1)
<1>0. call.op = "clear" /\ call.gen = generation + 1 /\ generation \in Nat
  BY DEF ClearCall, BInv
<1> HIDE DEF call
<1>1. /\ IsSeq(queue') /\ Len(queue) \in Nat
      /\ Len(queue') = Len(queue) + 1
      /\ \A i \in 1..Len(queue') : queue'[i] = IF i <= Len(queue) THEN queue[i] ELSE call
  <2>1. IsSeq(<<call>>) /\ Len(<<call>>) = 1 /\ <<call>>[1] = call
    <3>1. <<call>> \in Seq({call})
      OBVIOUS
    <3> QED
      BY <3>1 DEF IsSeq
  <2>2. queue' = queue \o <<call>>
    BY DEF Post, call
  <2> QED
    BY <2>1, <2>2, ConcatSeq DEF BInv
<1>2. StampsArePast'
  <2> SUFFICES ASSUME NEW i \in 1..Len(queue'), Stamped(queue'[i])
               PROVE  queue'[i].gen \in 0..(generation + 1)
    BY DEF StampsArePast, Stamped
  <2>1. CASE i <= Len(queue)
    BY <1>0, <1>1, <2>1 DEF BInv, StampsArePast
  <2>2. CASE ~(i <= Len(queue))
    BY <1>0, <1>1, <2>2
  <2> QED
    BY <2>1, <2>2
<1>3. Barrier'
  <2> SUFFICES ASSUME NEW i \in 1..Len(queue'), NEW j \in 1..Len(queue'), i < j
               PROVE  /\ queue'[i].op = "clear" /\ queue'[j].op = "append" =>
                            queue'[i].gen <= queue'[j].gen
                      /\ queue'[i].op = "readTabStates" /\ queue'[j].op = "clear" =>
                            queue'[i].gen < generation + 1
    BY DEF Barrier
  <2>1. i \in 1..Len(queue) /\ queue'[i] = queue[i]
    BY <1>1
  <2>2. CASE j <= Len(queue)
    <3>1. j \in 1..Len(queue) /\ queue'[j] = queue[j]
      BY <1>1, <2>2
    <3>2. queue[i].op = "readTabStates" => queue[i].gen \in 0..generation
      BY <2>1 DEF BInv, StampsArePast, Stamped
    <3> QED
      BY <1>0, <2>1, <3>1, <3>2 DEF BInv, Barrier
  <2>3. CASE ~(j <= Len(queue))
    <3>1. queue'[j] = call
      BY <1>1, <2>3
    <3>2. queue[i].op = "readTabStates" => queue[i].gen \in 0..generation
      BY <2>1 DEF BInv, StampsArePast, Stamped
    <3> QED
      BY <1>0, <2>1, <3>1, <3>2
  <2> QED
    BY <2>2, <2>3
<1> QED
  BY <1>0, <1>1, <1>2, <1>3 DEF BInv, GestureIsCurrent

(* A step that leaves the queue and the generation alone. *)
LEMMA QueueUnchangedKeeps ==
    ASSUME BInv, queue' = queue, generation' = generation, GestureIsCurrent'
    PROVE  BInv'
BY DEF BInv, StampsArePast, Stamped, Barrier

(* The store sequence takes the oldest call. *)
LEMMA TailKeeps ==
    ASSUME BInv, queue # <<>>, queue' = Tail(queue),
           UNCHANGED <<generation, traversalActive, gestureGeneration>>
    PROVE  BInv'
<1>1. PICK S : queue \in Seq(S)
  BY DEF BInv, IsSeq
<1>2. /\ queue' \in Seq(S) /\ Len(queue) \in Nat /\ Len(queue') = Len(queue) - 1
      /\ \A i \in 1..Len(queue') : i + 1 \in 1..Len(queue) /\ queue'[i] = queue[i + 1]
  BY <1>1
<1>3. StampsArePast'
  BY <1>2 DEF BInv, StampsArePast, Stamped
<1>4. Barrier'
  BY <1>2 DEF BInv, Barrier
<1> QED
  BY <1>2, <1>3, <1>4 DEF BInv, IsSeq, GestureIsCurrent
(* The initial state is in the invariant. *)
LEMMA InitBInv == Init => BInv
<1> SUFFICES ASSUME Init PROVE BInv
  OBVIOUS
<1>1. queue = <<>> /\ generation = 0 /\ traversalActive = FALSE
  BY DEF Init
<1>2. queue \in Seq({}) /\ Len(queue) = 0
  BY <1>1
<1> QED
  BY <1>1, <1>2 DEF BInv, IsSeq, GestureIsCurrent, StampsArePast, Barrier

(* A step of a gesture: the anchor's generation is this one. *)
LEMMA GestureKeeps ==
    ASSUME BInv, NEW stepped, NEW how, Gesture(stepped, how)
    PROVE  BInv'
<1>1. generation' = generation /\ Post(RebindCalls(Current(stepped), how))
  BY DEF Gesture, Land
<1>2. GestureIsCurrent'
  BY <1>1 DEF Gesture, GestureIsCurrent, BInv
<1> QED
  BY <1>1, <1>2, RebindIsCurrent, PostKeeps

(* The end of a gesture: the visit it commits is of this generation. *)
LEMMA SettleKeeps ==
    ASSUME BInv, NEW how, Settle(how)
    PROVE  BInv'
<1>1. traversalActive' = FALSE /\ traversalActive
  BY DEF Settle, EndGesture, SettleRuns
<1>2. GestureIsCurrent' /\ gestureGeneration = generation
  BY <1>1 DEF GestureIsCurrent, BInv
<1>3. CASE HasCurrent(controller) /\ Current(controller) # anchor
  <2> DEFINE uid == Current(controller)
             found == uid \in Live \/ Reopens(uid, how)
             visit == IF found /\ SettledUrl(uid, how) \in Url
                      THEN <<RecordVisit(uid, gestureGeneration)>> ELSE <<>>
  <2>1. generation' = generation /\ Post(RebindCalls(uid, how) \o visit)
    BY <1>3 DEF Settle, Land
  <2>2. CurrentCalls(visit)
    BY <1>2, NoCall, OneCall, VisitIsCurrent
  <2>3. CurrentCalls(RebindCalls(uid, how))
    BY RebindIsCurrent
  <2> HIDE DEF visit, uid
  <2>4. CurrentCalls(RebindCalls(uid, how) \o visit)
    BY <2>2, <2>3, BothCalls
  <2> QED
    BY <1>2, <2>1, <2>4, PostKeeps
<1>4. CASE ~(HasCurrent(controller) /\ Current(controller) # anchor)
  <2>1. queue' = queue /\ generation' = generation
    BY <1>4 DEF Settle, reopenVars
  <2> QED
    BY <1>2, <2>1, QueueUnchangedKeeps
<1> QED
  BY <1>3, <1>4

(* What the user does. *)
LEMMA UserStepKeeps ==
    ASSUME BInv, UserStep
    PROVE  BInv'
<1>0. GestureIsCurrent
  BY DEF BInv
<1>1. ASSUME NEW uid \in Uid, NEW url \in InsertUrl, NEW fg \in BOOLEAN,
             InsertTab(uid, url, fg)
      PROVE  BInv'
  BY <1>0, <1>1, QueueUnchangedKeeps
     DEF InsertTab, gestureVars, reopenVars, storeVars, GestureIsCurrent
<1>2. ASSUME NEW uid \in Uid, SelectTab(uid)
      PROVE  BInv'
  <2>1. generation' = generation /\ GestureIsCurrent'
    BY <1>0, <1>2 DEF SelectTab, gestureVars, reopenVars, GestureIsCurrent
  <2>2. CASE BridgeCommits
    <3> DEFINE calls == IF tabs[uid] \in Url THEN <<RecordVisit(uid, generation)>> ELSE <<>>
    <3>1. Post(calls)
      BY <1>2, <2>2 DEF SelectTab
    <3>2. CurrentCalls(calls)
      BY NoCall, OneCall, VisitIsCurrent
    <3> HIDE DEF calls
    <3> QED
      BY <2>1, <3>1, <3>2, PostKeeps
  <2>3. CASE ~BridgeCommits
    <3>1. queue' = queue
      BY <1>2, <2>3 DEF SelectTab
    <3> QED
      BY <2>1, <3>1, QueueUnchangedKeeps
  <2> QED
    BY <2>2, <2>3
<1>3. ASSUME NEW uid \in Uid, NEW successor \in Uid \cup {NoUid}, CloseTab(uid, successor)
      PROVE  BInv'
  <2>1. generation' = generation /\ GestureIsCurrent'
    BY <1>0, <1>3 DEF CloseTab, gestureVars, GestureIsCurrent
  <2>2. Post(<<SetTabState(uid, TRUE, tabs[uid])>>)
    BY <1>3 DEF CloseTab
  <2>3. CurrentCalls(<<SetTabState(uid, TRUE, tabs[uid])>>)
    BY OneCall, UpsertIsCurrent
  <2> QED
    BY <2>1, <2>2, <2>3, PostKeeps
<1>4. ASSUME NEW uid \in Uid, NEW url \in Url, Navigate(uid, url)
      PROVE  BInv'
  BY <1>0, <1>4, QueueUnchangedKeeps
     DEF Navigate, gestureVars, reopenVars, storeVars, GestureIsCurrent
<1>5. CASE SetReopenClosed
  BY <1>0, <1>5, QueueUnchangedKeeps
     DEF SetReopenClosed, gestureVars, reopenVars, storeVars, GestureIsCurrent
<1>6. ASSUME NEW how \in ReopenOutcomes, StepBack(how) \/ StepForward(how)
      PROVE  BInv'
  BY <1>6, GestureKeeps DEF StepBack, StepForward
<1>7. ASSUME NEW how \in ReopenOutcomes, ReleaseChord(how)
      PROVE  BInv'
  BY <1>7, SettleKeeps DEF ReleaseChord
<1>8. CASE CancelGesture
  BY <1>8, QueueUnchangedKeeps
     DEF CancelGesture, EndGesture, reopenVars, storeVars, GestureIsCurrent
<1>9. ASSUME NEW begin \in 0..MaxTime, NEW end \in 1..(MaxTime + 1),
             ClearBrowsingData(begin, end)
      PROVE  BInv'
  <2>1. /\ Post(<<ClearCall(begin, end, generation + 1)>>)
        /\ generation' = generation + 1 /\ traversalActive' = FALSE
    BY <1>9 DEF ClearBrowsingData, PrepareForBrowsingDataClear, EndGesture
  <2> QED
    BY <2>1, ClearKeeps
<1> QED
  BY <1>1, <1>2, <1>3, <1>4, <1>5, <1>6, <1>7, <1>8, <1>9 DEF UserStep

(* What the store sequence, the timer and the process do. *)
LEMMA SystemStepKeeps ==
    ASSUME BInv, SystemStep
    PROVE  BInv'
<1>0. GestureIsCurrent
  BY DEF BInv
<1>1. ASSUME NEW how \in ReopenOutcomes, DebounceFires(how)
      PROVE  BInv'
  BY <1>1, SettleKeeps DEF DebounceFires
<1>2. CASE LoadPersistedJournal
  <2>1. generation' = generation /\ GestureIsCurrent'
    BY <1>0, <1>2 DEF LoadPersistedJournal, gestureVars, reopenVars, GestureIsCurrent
  <2>2. Post(<<GetVisits, GetAllTabStates(generation)>>)
    BY <1>2 DEF LoadPersistedJournal
  <2>3. CurrentCall(GetVisits)
    BY DEF CurrentCall, Stamped, GetVisits
  <2>4. CurrentCalls(<<GetVisits, GetAllTabStates(generation)>>)
    BY <2>3, TwoCalls, SidecarReadIsCurrent
  <2> QED
    BY <2>1, <2>2, <2>4, PostKeeps
<1>3. CASE StoreStep
  BY <1>3, TailKeeps DEF StoreStep, gestureVars, reopenVars
<1>4. CASE DeliverReply
  <2>1. GestureIsCurrent' \/ generation' # generation
    BY <1>0, <1>4 DEF DeliverReply, gestureVars, GestureIsCurrent
  <2>2. CASE \E rows : OnJournalLoaded(rows)
    BY <2>1, <2>2, QueueUnchangedKeeps DEF OnJournalLoaded, reopenVars
  <2>3. CASE \E gen, rows : OnReopenableLoaded(gen, rows)
    BY <2>1, <2>3, QueueUnchangedKeeps DEF OnReopenableLoaded
  <2>4. CASE OnBrowsingDataCleared
    <3>1. CurrentCalls(<<GetAllTabStates(generation)>>)
      BY OneCall, SidecarReadIsCurrent
    <3> QED
      BY <2>1, <2>4, <3>1, PostKeeps DEF OnBrowsingDataCleared, reopenVars
  <2> QED
    BY <1>4, <2>2, <2>3, <2>4 DEF DeliverReply
<1>5. CASE Tick
  BY <1>0, <1>5, QueueUnchangedKeeps
     DEF Tick, gestureVars, reopenVars, storeVars, GestureIsCurrent
<1>6. CASE Restart
  <2>1. queue' = <<>> /\ generation' = 0 /\ traversalActive' = FALSE
    BY <1>6 DEF Restart, EndGesture
  <2>2. queue' \in Seq({}) /\ Len(queue') = 0
    BY <2>1
  <2> QED
    BY <2>1, <2>2 DEF BInv, IsSeq, GestureIsCurrent, StampsArePast, Barrier
<1> QED
  BY <1>1, <1>2, <1>3, <1>4, <1>5, <1>6 DEF SystemStep

(* Every step preserves the invariant. *)
LEMMA NextBInv == BInv /\ [Next]_vars => BInv'
<1> SUFFICES ASSUME BInv, [Next]_vars PROVE BInv'
  OBVIOUS
<1>1. CASE UNCHANGED vars
  BY <1>1, QueueUnchangedKeeps
     DEF vars, gestureVars, reopenVars, storeVars, BInv, GestureIsCurrent
<1> QED
  BY <1>1, UserStepKeeps, SystemStepKeeps DEF Next

(* Clearing browsing data is a barrier: PrepareForBrowsingDataClear ends the  *)
(* gesture and bumps the generation before the clear is posted, so no visit   *)
(* that began before the clear is appended behind it and no sidecar read from *)
(* before it is believed.                                                     *)
THEOREM ClearBarrierHolds == Spec => []ClearIsABarrier
<1>1. Init => BInv
  BY InitBInv
<1>2. BInv /\ [Next]_vars => BInv'
  BY NextBInv
<1>3. BInv => ClearIsABarrier
  <2> SUFFICES ASSUME BInv PROVE ClearIsABarrier
    OBVIOUS
  <2>1. PICK S : queue \in Seq(S)
    BY DEF BInv, IsSeq
  <2>2. DOMAIN queue = 1..Len(queue)
    BY <2>1
  <2> QED
    BY <2>2 DEF BInv, Barrier, ClearIsABarrier
<1> QED
  BY <1>1, <1>2, <1>3, PTL DEF Spec
-----------------------------------------------------------------------------
(* What the loops that copy part of a sequence leave.                        *)

(* The rank of a position counts it, is at most the number of positions, and  *)
(* grows with the position.                                                   *)
LEMMA RankGrows ==
    ASSUME NEW n \in Nat, NEW P \in SUBSET (1..n)
    PROVE  /\ IsFiniteSet(P) /\ Cardinality(P) \in Nat
           /\ \A i \in P : Rank(P, i) \in 1..Cardinality(P)
           /\ \A i, j \in P : i < j => Rank(P, i) < Rank(P, j)
           /\ \A i, j \in P : Rank(P, i) = Rank(P, j) => i = j
<1>1. IsFiniteSet(P) /\ Cardinality(P) \in Nat
  <2>1. 1 \in Int /\ n \in Int
    OBVIOUS
  <2>2. IsFiniteSet(1..n)
    BY <2>1, FS_Interval
  <2>3. IsFiniteSet(P)
    BY <2>2, FS_Subset
  <2> QED
    BY <2>3, FS_CardinalityType
<1> DEFINE Upto(i) == {j \in P : j <= i}
<1>2. \A i \in P : /\ IsFiniteSet(Upto(i)) /\ Cardinality(Upto(i)) \in Nat
                   /\ Cardinality(Upto(i)) <= Cardinality(P)
  <2> TAKE i \in P
  <2>1. Upto(i) \in SUBSET P
    OBVIOUS
  <2> QED
    BY <1>1, <2>1, FS_Subset, FS_CardinalityType
<1>3. \A i \in P : Cardinality(Upto(i)) # 0
  <2> TAKE i \in P
  <2>1. i \in Upto(i)
    OBVIOUS
  <2> QED
    BY <1>2, <2>1, FS_EmptySet
<1>4. ASSUME NEW i \in P, NEW j \in P, i < j
      PROVE  Cardinality(Upto(i)) < Cardinality(Upto(j))
  <2>0. i \in Nat /\ j \in Nat /\ \A k \in P : k \in Nat
    OBVIOUS
  <2>1. Upto(i) \in SUBSET Upto(j) /\ j \in Upto(j) /\ j \notin Upto(i)
    <3>1. \A k \in P : k <= i => k <= j
      BY <1>4, <2>0
    <3>2. j <= j /\ ~(j <= i)
      BY <1>4, <2>0
    <3> QED
      BY <3>1, <3>2
  <2>2. /\ Cardinality(Upto(i)) <= Cardinality(Upto(j))
        /\ Cardinality(Upto(i)) # Cardinality(Upto(j))
    BY <1>2, <2>1, FS_Subset
  <2> QED
    BY <1>2, <2>2
<1>5. \A i \in P : Rank(P, i) = Cardinality(Upto(i))
  BY DEF Rank
<1> HIDE DEF Upto
<1>6. \A i \in P : Rank(P, i) \in 1..Cardinality(P)
  BY <1>1, <1>2, <1>3, <1>5
<1>7. \A i, j \in P : i < j => Rank(P, i) < Rank(P, j)
  BY <1>4, <1>5
<1>8. \A i, j \in P : Rank(P, i) = Rank(P, j) => i = j
  BY <1>6, <1>7
<1> QED
  BY <1>1, <1>6, <1>7, <1>8

(* Every rank up to their number is the rank of one position.                 *)
LEMMA EveryRankIsTaken ==
    ASSUME NEW n \in Nat, NEW P \in SUBSET (1..n), NEW k \in 1..Cardinality(P)
    PROVE  \E i \in P : Rank(P, i) = k
<1> DEFINE N == Cardinality(P)
           T == (1..N) \ {k}
           f == [i \in P |-> Rank(P, i)]
<1>1. /\ IsFiniteSet(P) /\ N \in Nat
      /\ \A i \in P : Rank(P, i) \in 1..N
      /\ \A i, j \in P : Rank(P, i) = Rank(P, j) => i = j
  BY RankGrows
<1>2. IsFiniteSet(T) /\ Cardinality(T) < N
  <2>1. IsFiniteSet(1..N) /\ Cardinality(1..N) = N
    BY <1>1, FS_Interval
  <2>2. k \in 1..N
    OBVIOUS
  <2> HIDE DEF N
  <2>3. IsFiniteSet(T) /\ Cardinality(T) = N - 1
    BY <2>1, <2>2, FS_RemoveElement
  <2> QED
    BY <1>1, <2>3
<1>3. SUFFICES ASSUME \A i \in P : Rank(P, i) # k PROVE FALSE
  OBVIOUS
<1>4. f \in [P -> T]
  BY <1>1, <1>3
<1>5. PICK x \in P, y \in P : x # y /\ f[x] = f[y]
  <2> HIDE DEF f, T, N
  <2> QED
    BY <1>1, <1>2, <1>4, FS_PigeonHole DEF N
<1> QED
  BY <1>1, <1>5

(* ElementsAt is a sequence of elements at those positions, and ends with the *)
(* last one if that position is among them.                                   *)
LEMMA ElementsAtIsASequence ==
    ASSUME NEW S, NEW s \in Seq(S), NEW P \in SUBSET (1..Len(s))
    PROVE  /\ ElementsAt(s, P) \in Seq({s[i] : i \in P})
           /\ Len(ElementsAt(s, P)) = Cardinality(P) /\ Cardinality(P) \in Nat
           /\ P # {} => Cardinality(P) > 0
           /\ Len(s) \in P =>
                 ElementsAt(s, P)[Cardinality(P)] = s[Len(s)]
<1> DEFINE n == Len(s)
           N == Cardinality(P)
           at(k) == CHOOSE i \in P : Rank(P, i) = k
           e == [k \in 1..N |-> s[at(k)]]
<1>0. n \in Nat
  OBVIOUS
<1>1. /\ IsFiniteSet(P) /\ N \in Nat
      /\ \A i, j \in P : Rank(P, i) = Rank(P, j) => i = j
  BY <1>0, RankGrows
<1>2. \A k \in 1..N : at(k) \in P /\ Rank(P, at(k)) = k
  BY <1>0, EveryRankIsTaken
<1>3. ElementsAt(s, P) = e
  BY DEF ElementsAt
<1>4. e \in [1..N -> {s[i] : i \in P}]
  BY <1>2
<1>5. e \in Seq({s[i] : i \in P}) /\ Len(e) = N
  <2> HIDE DEF e, N
  <2> QED
    BY <1>1, <1>4
<1>6. P # {} => N > 0
  BY <1>1, FS_EmptySet
<1>7. ASSUME n \in P PROVE e[N] = s[n]
  <2>1. \A j \in P : j \in 1..n
    OBVIOUS
  <2>2. Rank(P, n) = N /\ N \in 1..N
    <3>1. \A j \in P : j <= n
      BY <1>0, <2>1
    <3>2. {j \in P : j <= n} = P
      BY <3>1
    <3>3. Rank(P, n) = N
      BY <3>2 DEF Rank
    <3> HIDE DEF N
    <3> QED
      BY <1>1, <1>6, <1>7, <3>3
  <2>3. at(N) = n
    BY <1>1, <1>2, <1>7, <2>2
  <2> QED
    BY <2>2, <2>3
<1> QED
  BY <1>1, <1>3, <1>5, <1>6, <1>7

(* A set of positions has a first and a last one.                             *)
LEMMA FirstAndLast ==
    ASSUME NEW n \in Nat, NEW P \in SUBSET (1..n), P # {}
    PROVE  Min(P) \in P /\ Max(P) \in P
<1>1. /\ IsFiniteSet(P) /\ Cardinality(P) \in Nat
      /\ \A i \in P : Rank(P, i) \in 1..Cardinality(P)
      /\ \A i, j \in P : i < j => Rank(P, i) < Rank(P, j)
  BY RankGrows
<1>2. Cardinality(P) # 0
  BY <1>1, FS_EmptySet
<1>3. 1 \in 1..Cardinality(P) /\ Cardinality(P) \in 1..Cardinality(P)
  BY <1>1, <1>2
<1>4. PICK first \in P : Rank(P, first) = 1
  BY <1>3, EveryRankIsTaken
<1>5. PICK last \in P : Rank(P, last) = Cardinality(P)
  BY <1>3, EveryRankIsTaken
<1>6. \A i \in P : i \in Nat
  OBVIOUS
<1>7. \A i \in P : first <= i /\ last >= i
  BY <1>1, <1>4, <1>5, <1>6
<1> QED
  BY <1>7 DEF Min, Max

(* The order of a log is a sequence of its tabs; that of an empty log is      *)
(* empty.                                                                     *)
LEMMA OrderOfALog ==
    ASSUME NEW log \in Seq(Uid)
    PROVE  /\ DeriveMruOrder(log) \in Seq(Uid)
           /\ log = <<>> => Len(DeriveMruOrder(log)) = 0
<1> DEFINE P == MostRecent(log)
           e == ElementsAt(log, P)
           r == Reverse(e)
<1>1. P \in SUBSET (1..Len(log))
  BY DEF MostRecent
<1>2. /\ e \in Seq({log[i] : i \in P}) /\ Len(e) = Cardinality(P) /\ Len(e) \in Nat
  <2> HIDE DEF P
  <2> QED
    BY <1>1, ElementsAtIsASequence
<1>3. e \in Seq(Uid)
  <2>1. {log[i] : i \in P} \subseteq Uid
    BY <1>1
  <2> HIDE DEF P, e
  <2> QED
    BY <1>2, <2>1, SeqMonotonic
<1>4. r \in Seq(Uid) /\ Len(r) = Len(e)
  <2> HIDE DEF e
  <2>1. \A i \in 1..Len(e) : (Len(e) - i) + 1 \in 1..Len(e)
    BY <1>2
  <2>2. r \in [1..Len(e) -> Uid]
    BY <1>3, <2>1 DEF Reverse
  <2> HIDE DEF r
  <2> QED
    BY <1>2, <2>2
<1>5. ASSUME log = <<>> PROVE Len(e) = 0
  <2>1. P = {}
    BY <1>1, <1>5
  <2> QED
    BY <1>2, <2>1, FS_EmptySet
<1> QED
  BY <1>4, <1>5 DEF DeriveMruOrder

(* The controller of a gesture under way. *)
Walks(c) ==
    /\ c \in [active : {TRUE}, order : Seq(Uid), landable : Seq(BOOLEAN), cursor : Nat]
    /\ Len(c.landable) = Len(c.order)
    /\ c.cursor \in 1..Len(c.order)

(* A gesture that may begin has a log, and its first step has a landing. *)
LEMMA BeginLands ==
    ASSUME NEW c, c.active = FALSE, NEW log \in Seq(Uid), NEW reachable,
           CanBeginBackTraversal(log, reachable)
    PROVE  /\ log # <<>>
           /\ Walks(BeginGesture(c, log, reachable))
           /\ ControllerCanGoBack(BeginGesture(c, log, reachable))
<1> DEFINE mru == DeriveMruOrder(log)
           landable == [i \in 1..Len(mru) |-> mru[i] \in reachable]
           b == [active |-> TRUE, order |-> mru, landable |-> landable, cursor |-> 1]
           I == {i \in 2..Len(landable) : landable[i]}
<1>1. mru \in Seq(Uid) /\ Len(mru) \in Nat /\ (log = <<>> => Len(mru) = 0)
  BY OrderOfALog
<1>2. PICK i \in 2..Len(mru) : mru[i] \in reachable
  BY DEF CanBeginBackTraversal
<1>3. landable \in Seq(BOOLEAN) /\ Len(landable) = Len(mru)
  <2>1. landable \in [1..Len(mru) -> BOOLEAN]
    OBVIOUS
  <2> HIDE DEF landable, mru
  <2> QED
    BY <1>1, <2>1
<1>4. BeginGesture(c, log, reachable) = b
  BY DEF BeginGesture
<1>5. Walks(b)
  <2> HIDE DEF landable, mru
  <2> QED
    BY <1>1, <1>2, <1>3 DEF Walks
<1>6. i \in I
  <2>1. i \in 1..Len(mru)
    BY <1>1
  <2>2. landable[i]
    BY <1>2, <2>1
  <2> HIDE DEF landable, mru
  <2> QED
    BY <1>3, <2>2
<1>7. Min(I) \in I
  <2>1. I \in SUBSET (1..Len(landable)) /\ I # {} /\ Len(landable) \in Nat
    <3> HIDE DEF landable, mru
    <3> QED
      BY <1>1, <1>3, <1>6
  <2> HIDE DEF I
  <2> QED
    BY <2>1, FirstAndLast
<1>8. NextLandableAfter(b, b.cursor) = Min(I)
  <2> HIDE DEF landable, mru
  <2> QED
    BY <1>6 DEF NextLandableAfter, SelectInSubSeq
<1>9. Min(I) # 0
  <2>1. \A j \in I : j # 0
    OBVIOUS
  <2> HIDE DEF I
  <2> QED
    BY <1>7, <2>1
<1> QED
  BY <1>1, <1>2, <1>4, <1>5, <1>8, <1>9 DEF ControllerCanGoBack

(* A step back that can land lands. *)
LEMMA BackLands ==
    ASSUME NEW c, Walks(c), ControllerCanGoBack(c)
    PROVE  Walks(Back(c)) /\ HasCurrent(Back(c))
<1> DEFINE I == {i \in (c.cursor + 1)..Len(c.landable) : c.landable[i]}
           at == NextLandableAfter(c, c.cursor)
<1>1. /\ c.landable \in Seq(BOOLEAN) /\ Len(c.landable) = Len(c.order)
      /\ Len(c.landable) \in Nat /\ c.cursor \in 1..Len(c.landable)
  BY DEF Walks
<1>2. I # {} /\ at = Min(I)
  BY DEF ControllerCanGoBack, NextLandableAfter, SelectInSubSeq
<1>3. I \in SUBSET (1..Len(c.landable))
  BY <1>1
<1>4. at \in I
  <2> HIDE DEF I, at
  <2> QED
    BY <1>1, <1>2, <1>3, FirstAndLast
<1>5. at \in 1..Len(c.landable) /\ c.landable[at]
  BY <1>3, <1>4
<1>6. Back(c) = [c EXCEPT !.cursor = at]
  BY DEF Back
<1> HIDE DEF at
<1>7. at \in Nat
  BY <1>5
<1> QED
  BY <1>1, <1>5, <1>6, <1>7 DEF Walks, HasCurrent

(* A step forward that can land lands. *)
LEMMA ForwardLands ==
    ASSUME NEW c, Walks(c), ControllerCanGoForward(c)
    PROVE  Walks(Forward(c)) /\ HasCurrent(Forward(c))
<1> DEFINE I == {i \in 1..(c.cursor - 1) : c.landable[i]}
           at == PrevLandableBefore(c, c.cursor)
<1>1. /\ c.landable \in Seq(BOOLEAN) /\ Len(c.landable) = Len(c.order)
      /\ Len(c.landable) \in Nat /\ c.cursor \in 1..Len(c.landable)
  BY DEF Walks
<1>2. I # {} /\ at = Max(I)
  BY DEF ControllerCanGoForward, PrevLandableBefore, SelectLastInSubSeq
<1>3. I \in SUBSET (1..Len(c.landable))
  BY <1>1
<1>4. at \in I
  <2> HIDE DEF I, at
  <2> QED
    BY <1>1, <1>2, <1>3, FirstAndLast
<1>5. at \in 1..Len(c.landable) /\ c.landable[at]
  BY <1>3, <1>4
<1>6. Forward(c) = [c EXCEPT !.cursor = at]
  BY DEF Forward
<1> HIDE DEF at
<1>7. at \in Nat
  BY <1>5
<1> QED
  BY <1>1, <1>5, <1>6, <1>7 DEF Walks, HasCurrent

(* The log after a visit ends with the tab that was visited. *)
LEMMA SettledEndsWithIt ==
    ASSUME NEW log \in Seq(Uid), NEW uid \in Uid
    PROVE  /\ Settled(log, uid) \in Seq(Uid) /\ Settled(log, uid) # <<>>
           /\ Last(Settled(log, uid)) = uid
<1>1. uid # NoUid
  BY TabVisitAssumption
<1>2. CASE log # <<>> /\ Last(log) = uid
  BY <1>1, <1>2 DEF Settled
<1>3. CASE ~(log # <<>> /\ Last(log) = uid)
  <2>1. Settled(log, uid) = Append(log, uid)
    BY <1>1, <1>3 DEF Settled
  <2> QED
    BY <2>1 DEF Last
<1> QED
  BY <1>2, <1>3

(* A late journal goes in front of what accrued meanwhile: the tail stays. *)
LEMMA MergeKeepsTheTail ==
    ASSUME NEW rows \in Seq(Uid \cup {NoUid}), NEW log \in Seq(Uid)
    PROVE  /\ MergedLog(rows, log) \in Seq(Uid)
           /\ log # <<>> => /\ MergedLog(rows, log) # <<>>
                            /\ Last(MergedLog(rows, log)) = Last(log)
<1> DEFINE P == {i \in 1..Len(rows) : rows[i] # NoUid}
           known == Identified(rows)
           all == known \o log
           Q == {i \in 1..Len(all) : i < Len(all) => all[i + 1] # all[i]}
           merged == ElementsAt(all, Q)
<1>1. known \in Seq(Uid)
  <2>1. known \in Seq({rows[i] : i \in P})
    BY ElementsAtIsASequence DEF Identified
  <2>2. {rows[i] : i \in P} \subseteq Uid
    OBVIOUS
  <2> HIDE DEF known, P
  <2> QED
    BY <2>1, <2>2, SeqMonotonic
<1> HIDE DEF known
<1>2. all \in Seq(Uid) /\ Len(all) = Len(known) + Len(log) /\ Len(known) \in Nat /\ Len(log) \in Nat
  BY <1>1
<1>3. log # <<>> => all[Len(all)] = log[Len(log)] /\ Len(all) # 0
  BY <1>1
<1> HIDE DEF all
<1>4. /\ merged \in Seq({all[i] : i \in Q})
      /\ Len(merged) = Cardinality(Q) /\ Cardinality(Q) \in Nat
      /\ Q # {} => Cardinality(Q) > 0
      /\ Len(all) \in Q => merged[Cardinality(Q)] = all[Len(all)]
  <2>1. Q \in SUBSET (1..Len(all))
    OBVIOUS
  <2> HIDE DEF Q
  <2> QED
    BY <1>2, <2>1, ElementsAtIsASequence
<1>5. {all[i] : i \in Q} \subseteq Uid
  BY <1>2
<1>6. log # <<>> => Len(all) \in Q
  BY <1>2, <1>3
<1> HIDE DEF Q, merged
<1>7. merged \in Seq(Uid)
  BY <1>4, <1>5, SeqMonotonic
<1>8. log # <<>> => merged # <<>> /\ merged[Len(merged)] = log[Len(log)]
  BY <1>3, <1>4, <1>6, <1>7
<1>9. MergedLog(rows, log) = merged
  BY DEF MergedLog, Coalesced, merged, Q, all, known
<1> QED
  BY <1>7, <1>8, <1>9 DEF Last
-----------------------------------------------------------------------------
(* The typed parts of the state.  The queue holds calls of the journal        *)
(* service, the replies hold what its reads return.                           *)
Visit == [uid : Uid \cup {NoUid}, at : Nat]

StoreOK(s) ==
    /\ s \in [visits : Seq(Visit), sidecar : {s.sidecar}]
    /\ DOMAIN s.sidecar \subseteq Uid
    /\ \A uid \in DOMAIN s.sidecar : s.sidecar[uid] \in Row

ReplyOK(reply) ==
    \/ reply.op = "readAll" /\ reply.rows \in Seq(Uid \cup {NoUid})
    \/ /\ reply.op = "readTabStates"
       /\ DOMAIN reply.rows \subseteq Uid
       /\ \A uid \in DOMAIN reply.rows : reply.rows[uid] \in Row
    \/ reply.op = "clear"

CallsOK(calls) == IsSeq(calls) /\ \A i \in 1..Len(calls) : CallOK(calls[i])
RepliesOK(rs) == IsSeq(rs) /\ \A i \in 1..Len(rs) : ReplyOK(rs[i])

(* Nothing, or one item, in a queue.                                          *)
LEMMA NothingOK == CallsOK(<<>>) /\ RepliesOK(<<>>)
<1>1. <<>> \in Seq({}) /\ Len(<<>>) = 0
  OBVIOUS
<1> QED
  BY <1>1 DEF CallsOK, RepliesOK, IsSeq

LEMMA OneOK ==
    ASSUME NEW x
    PROVE  /\ CallOK(x) => CallsOK(<<x>>)
           /\ ReplyOK(x) => RepliesOK(<<x>>)
<1>1. <<x>> \in Seq({x}) /\ Len(<<x>>) = 1 /\ \A i \in 1..Len(<<x>>) : <<x>>[i] = x
  OBVIOUS
<1>2. IsSeq(<<x>>)
  BY <1>1 DEF IsSeq
<1> QED
  BY <1>1, <1>2 DEF CallsOK, RepliesOK

(* One queue behind another.                                                  *)
LEMMA BothOK ==
    ASSUME NEW s, NEW t
    PROVE  /\ CallsOK(s) /\ CallsOK(t) => CallsOK(s \o t)
           /\ RepliesOK(s) /\ RepliesOK(t) => RepliesOK(s \o t)
<1>1. SUFFICES ASSUME IsSeq(s), IsSeq(t)
               PROVE  /\ CallsOK(s) /\ CallsOK(t) => CallsOK(s \o t)
                      /\ RepliesOK(s) /\ RepliesOK(t) => RepliesOK(s \o t)
  BY DEF CallsOK, RepliesOK
<1>2. /\ IsSeq(s \o t) /\ Len(s) \in Nat /\ Len(t) \in Nat
      /\ Len(s \o t) = Len(s) + Len(t)
      /\ \A i \in 1..Len(s \o t) :
            (s \o t)[i] = IF i <= Len(s) THEN s[i] ELSE t[i - Len(s)]
  BY <1>1, ConcatSeq
<1>3. \A i \in 1..Len(s \o t) :
         \/ i \in 1..Len(s) /\ (s \o t)[i] = s[i]
         \/ i - Len(s) \in 1..Len(t) /\ (s \o t)[i] = t[i - Len(s)]
  BY <1>2
<1>4. ASSUME CallsOK(s), CallsOK(t) PROVE CallsOK(s \o t)
  BY <1>2, <1>3, <1>4 DEF CallsOK
<1>5. ASSUME RepliesOK(s), RepliesOK(t) PROVE RepliesOK(s \o t)
  BY <1>2, <1>3, <1>5 DEF RepliesOK
<1> QED
  BY <1>4, <1>5

(* The oldest item and the rest.                                              *)
LEMMA HeadAndTailOK ==
    ASSUME NEW s, s # <<>>
    PROVE  /\ CallsOK(s) => CallOK(Head(s)) /\ CallsOK(Tail(s))
           /\ RepliesOK(s) => ReplyOK(Head(s)) /\ RepliesOK(Tail(s))
<1>1. SUFFICES ASSUME IsSeq(s)
               PROVE  /\ CallsOK(s) => CallOK(Head(s)) /\ CallsOK(Tail(s))
                      /\ RepliesOK(s) => ReplyOK(Head(s)) /\ RepliesOK(Tail(s))
  BY DEF CallsOK, RepliesOK
<1>2. PICK S : s \in Seq(S)
  BY <1>1 DEF IsSeq
<1>3. /\ Tail(s) \in Seq(S) /\ Len(s) \in Nat /\ Len(s) # 0 /\ Len(Tail(s)) = Len(s) - 1
      /\ Head(s) = s[1]
      /\ \A i \in 1..Len(Tail(s)) : Tail(s)[i] = s[i + 1]
  BY <1>2
<1>4. 1 \in 1..Len(s) /\ \A i \in 1..Len(Tail(s)) : i + 1 \in 1..Len(s)
  BY <1>3
<1>5. IsSeq(Tail(s))
  BY <1>3 DEF IsSeq
<1> HIDE <1>1
<1> QED
  BY <1>3, <1>4, <1>5 DEF CallsOK, RepliesOK

(* Every call leaves a store behind. *)
LEMMA RunCallOK ==
    ASSUME NEW s, StoreOK(s), NEW call, CallOK(call)
    PROVE  StoreOK(RunCall(s, call))
<1>0. /\ s.visits \in Seq(Visit) /\ Len(s.visits) \in Nat
      /\ DOMAIN s.sidecar \subseteq Uid
      /\ \A uid \in DOMAIN s.sidecar : s.sidecar[uid] \in Row
  BY DEF StoreOK
<1>1. CASE call.op = "append"
  <2> DEFINE all  == Append(s.visits, [uid |-> call.uid, at |-> call.at])
             drop == IF Len(all) > MaxVisits THEN Len(all) - MaxVisits ELSE 0
             kept == SubSeq(all, drop + 1, Len(all))
  <2>1. call.uid \in Uid /\ call.at \in Nat
    BY <1>1 DEF CallOK
  <2>2. all \in Seq(Visit) /\ Len(all) \in Nat
    BY <1>0, <2>1 DEF Visit
  <2>3. drop \in Nat
    <3> HIDE DEF all
    <3> QED
      BY <2>2, MaxVisitsAssumption
  <2> HIDE DEF all, drop
  <2>4. \A i \in (drop + 1)..Len(all) : all[i] \in Visit
    BY <2>2, <2>3
  <2>5. kept \in Seq(Visit)
    BY <2>2, <2>3, <2>4, SubSeqProperties
  <2> HIDE DEF kept
  <2>6. RunCall(s, call) = [s EXCEPT !.visits = kept]
    BY <1>1 DEF RunCall, AppendVisit, kept, drop, all
  <2> QED
    BY <2>5, <2>6 DEF StoreOK
<1>2. CASE call.op = "upsert"
  <2> DEFINE sidecar == Put(s.sidecar, call.uid, call.row)
  <2>1. call.uid \in Uid /\ call.row \in Row
    BY <1>2 DEF CallOK
  <2>2. /\ DOMAIN sidecar \subseteq Uid
        /\ \A uid \in DOMAIN sidecar : sidecar[uid] \in Row
    BY <1>0, <2>1 DEF Put
  <2> HIDE DEF sidecar
  <2>3. RunCall(s, call) = [s EXCEPT !.sidecar = sidecar]
    BY <1>2 DEF RunCall, UpsertTabState, sidecar, StoreOK
  <2> QED
    BY <2>2, <2>3 DEF StoreOK
<1>3. CASE call.op = "clear"
  <2> DEFINE P == {i \in 1..Len(s.visits) : ~(call.begin <= s.visits[i].at /\ s.visits[i].at < call.end)}
             kept == ElementsAt(s.visits, P)
             referred == {kept[i].uid : i \in DOMAIN kept} \ {NoUid}
             K == {k \in DOMAIN s.sidecar : ~s.sidecar[k].closed \/ k \in referred}
             sidecar == [k \in K |-> s.sidecar[k]]
  <2>1. kept \in Seq(Visit)
    <3>1. P \in SUBSET (1..Len(s.visits)) /\ {s.visits[i] : i \in P} \subseteq Visit
      BY <1>0
    <3> HIDE DEF P
    <3>2. kept \in Seq({s.visits[i] : i \in P})
      BY <1>0, <3>1, ElementsAtIsASequence
    <3> HIDE DEF kept
    <3> QED
      BY <3>1, <3>2, SeqMonotonic
  <2>2. DOMAIN sidecar \subseteq Uid /\ \A uid \in DOMAIN sidecar : sidecar[uid] \in Row
    <3>1. K \subseteq DOMAIN s.sidecar
      OBVIOUS
    <3> HIDE DEF K
    <3> QED
      BY <1>0, <3>1
  <2>3. RunCall(s, call) = [visits |-> kept, sidecar |-> sidecar]
    BY <1>3 DEF RunCall, ClearForBrowsingDataRemoval, RestrictDomain, Restrict
  <2> HIDE DEF kept, sidecar
  <2> QED
    BY <2>1, <2>2, <2>3 DEF StoreOK
<1>4. CASE call.op \notin {"append", "upsert", "clear"}
  BY <1>4 DEF RunCall
<1> QED
  BY <1>1, <1>2, <1>3, <1>4

(* An empty database is a store. *)
LEMMA EmptyStoreOK == StoreOK(EmptyStore)
<1>1. <<>> \in Seq(Visit) /\ DOMAIN <<>> = {}
  OBVIOUS
<1> QED
  BY <1>1 DEF StoreOK, EmptyStore

(* And every call a reply its handler understands, or none. *)
LEMMA ReplyToOK ==
    ASSUME NEW s, StoreOK(s), NEW call, CallOK(call)
    PROVE  RepliesOK(ReplyTo(s, call))
<1>1. CASE call.op = "readAll"
  <2>1. ReadAll(s) \in Seq(Uid \cup {NoUid})
    <3>1. s.visits \in Seq(Visit) /\ DOMAIN s.visits = 1..Len(s.visits) /\ Len(s.visits) \in Nat
      BY DEF StoreOK
    <3>2. \A i \in DOMAIN s.visits : s.visits[i] \in Visit
      BY <3>1
    <3>3. \A i \in DOMAIN s.visits : s.visits[i].uid \in Uid \cup {NoUid}
      BY <3>2 DEF Visit
    <3>4. ReadAll(s) \in [1..Len(s.visits) -> Uid \cup {NoUid}]
      BY <3>1, <3>3 DEF ReadAll
    <3> QED
      BY <3>1, <3>4
  <2>2. ReplyTo(s, call) = <<[op |-> "readAll", rows |-> ReadAll(s)]>>
    BY <1>1 DEF ReplyTo
  <2>3. ReplyOK([op |-> "readAll", rows |-> ReadAll(s)])
    BY <2>1 DEF ReplyOK
  <2> QED
    BY <2>2, <2>3, OneOK
<1>2. CASE call.op = "readTabStates"
  <2> DEFINE reply == [op |-> "readTabStates", gen |-> call.gen, rows |-> ReadTabStates(s)]
  <2>1. ReplyTo(s, call) = <<reply>>
    BY <1>2 DEF ReplyTo
  <2>2. ReplyOK(reply)
    BY DEF ReplyOK, ReadTabStates, StoreOK
  <2> QED
    BY <2>1, <2>2, OneOK
<1>3. CASE call.op = "clear"
  <2>1. ReplyTo(s, call) = <<[op |-> "clear"]>>
    BY <1>3 DEF ReplyTo
  <2>2. ReplyOK([op |-> "clear"])
    BY DEF ReplyOK
  <2> QED
    BY <2>1, <2>2, OneOK
<1>4. CASE call.op \notin {"readAll", "readTabStates", "clear"}
  <2>1. ReplyTo(s, call) = <<>>
    BY <1>4 DEF ReplyTo
  <2> QED
    BY <2>1, NothingOK
<1> QED
  BY <1>1, <1>2, <1>3, <1>4
-----------------------------------------------------------------------------
TabsOK ==
    /\ Live \subseteq Uid /\ \A uid \in Live : tabs[uid] \in TabUrl
    /\ activeTab \in Live \cup {NoUid}

ClockOK ==
    /\ reopenClosed \in BOOLEAN /\ now \in 0..MaxTime /\ restarts \in 0..MaxRestarts
    /\ journalLoaded \in BOOLEAN /\ loadPosted \in BOOLEAN

LogOK == settledLog \in Seq(Uid)

CacheOK ==
    /\ DOMAIN reopenable \subseteq Uid
    /\ \A uid \in DOMAIN reopenable : reopenable[uid] \in TabUrl
    /\ recentlyReopened \subseteq Uid /\ generation \in 0..MaxClears

(* A gesture has a controller that has landed; outside one nothing of it is   *)
(* left, the URLs of the tabs it reopened included.                           *)
GestureOK ==
    /\ traversalActive \in BOOLEAN /\ debounceArmed \in BOOLEAN
    /\ anchor \in Uid \cup {NoUid} /\ gestureGeneration \in Nat
    /\ controller.active = traversalActive
    /\ DOMAIN reopenedUrl \subseteq Uid
    /\ IF traversalActive THEN Walks(controller) /\ HasCurrent(controller)
       ELSE DOMAIN reopenedUrl = {}

(* The inductive invariant. *)
CInv ==
    /\ TabsOK /\ ClockOK /\ LogOK /\ CacheOK
    /\ GestureOK /\ AnchorIsTail
    /\ StoreOK(store) /\ CallsOK(queue) /\ RepliesOK(replies)

(* It is the coordinator's invariant, strengthened. *)
LEMMA CInvIsEnough == CInv => CoordinatorInv
<1> SUFFICES ASSUME CInv PROVE CoordinatorInv
  OBVIOUS
<1>1. \A i \in DOMAIN settledLog : settledLog[i] \in Uid
  BY DEF CInv, LogOK
<1>2. \A i \in DOMAIN queue : CallOK(queue[i])
  <2>1. PICK S : queue \in Seq(S)
    BY DEF CInv, CallsOK, IsSeq
  <2>2. DOMAIN queue = 1..Len(queue)
    BY <2>1
  <2> QED
    BY <2>2 DEF CInv, CallsOK
<1>3. \A i \in DOMAIN store.visits : store.visits[i].uid \in Uid \cup {NoUid}
  <2>1. \A i \in DOMAIN store.visits : store.visits[i] \in Visit
    BY DEF CInv, StoreOK
  <2> QED
    BY <2>1 DEF Visit
<1>4. DOMAIN store.sidecar \subseteq Uid
  BY DEF CInv, StoreOK
<1>5. TypeOK
  BY <1>1, <1>2, <1>3, <1>4 DEF CInv, TabsOK, ClockOK, CacheOK, GestureOK, TypeOK
<1>6. CursorLandable
  BY DEF CInv, GestureOK, CursorLandable
<1> QED
  BY <1>5, <1>6 DEF CInv, CoordinatorInv

(* The program starts in it. *)
LEMMA InitCInv == Init => CInv
<1> SUFFICES ASSUME Init PROVE CInv
  OBVIOUS
<1>1. DOMAIN EmptyFunction = {} /\ <<>> \in Seq(Uid)
  BY DEF EmptyFunction
<1>2. TabsOK /\ CacheOK
  BY <1>1, TabVisitAssumption DEF Init, TabsOK, CacheOK, Live
<1>3. ClockOK /\ LogOK /\ AnchorIsTail
  <2>1. now \in 0..MaxTime /\ restarts \in 0..MaxRestarts
    BY TabVisitAssumption DEF Init
  <2>2. reopenClosed \in BOOLEAN /\ journalLoaded \in BOOLEAN /\ loadPosted \in BOOLEAN
    BY DEF Init
  <2>3. LogOK /\ AnchorIsTail
    BY <1>1 DEF Init, LogOK, AnchorIsTail
  <2> QED
    BY <2>1, <2>2, <2>3 DEF ClockOK
<1>4. GestureOK
  <2>1. IdleController.active = FALSE
    BY DEF IdleController
  <2> QED
    BY <1>1, <2>1 DEF Init, GestureOK
<1>5. StoreOK(store)
  <2> DEFINE legacy == <<[uid |-> NoUid, at |-> 0]>>
  <2>1. CASE store = EmptyStore
    BY <2>1, EmptyStoreOK
  <2>2. CASE store = [EmptyStore EXCEPT !.visits = legacy]
    <3>1. legacy \in Seq(Visit)
      BY DEF Visit
    <3> HIDE DEF legacy
    <3>2. store = [visits |-> legacy, sidecar |-> <<>>]
      BY <2>2 DEF EmptyStore
    <3>3. DOMAIN <<>> = {}
      OBVIOUS
    <3> QED
      BY <3>1, <3>2, <3>3 DEF StoreOK
  <2> QED
    BY <2>1, <2>2 DEF Init
<1>6. CallsOK(queue) /\ RepliesOK(replies)
  BY NothingOK DEF Init
<1> QED
  BY <1>2, <1>3, <1>4, <1>5, <1>6 DEF CInv

(* Bringing a tab to the front: its row is posted if it had to be reopened.   *)
LEMMA LandKeeps ==
    ASSUME TabsOK, CacheOK, NEW uid, NEW how, Land(uid, how)
    PROVE  /\ TabsOK' /\ CacheOK' /\ CallsOK(RebindCalls(uid, how))
           /\ uid \in Live \/ Reopens(uid, how) => uid \in Uid /\ activeTab' = uid
<1>1. CASE Reopens(uid, how)
  <2> DEFINE url == IF how = "exact" THEN reopenable[uid] ELSE Empty
  <2>1. uid \in DOMAIN reopenable /\ uid \in Uid /\ reopenable[uid] \in TabUrl /\ url \in TabUrl
    BY <1>1 DEF Reopens, CacheOK, TabUrl
  <2>2. tabs' = Put(tabs, uid, url) /\ activeTab' = IF uid \in DOMAIN tabs' THEN uid ELSE activeTab
    BY <1>1 DEF Land
  <2> HIDE DEF url
  <2>3. /\ DOMAIN tabs' = Live \cup {uid}
        /\ \A u \in DOMAIN tabs' : tabs'[u] = IF u = uid THEN url ELSE tabs[u]
    BY <2>2 DEF Put, Live
  <2>4. TabsOK' /\ activeTab' = uid
    BY <2>1, <2>2, <2>3 DEF TabsOK, Live
  <2>5. CacheOK'
    BY <1>1, <2>1 DEF Land, CacheOK, Restrict
  <2>6. CallOK(SetTabState(uid, FALSE, reopenable[uid]))
    BY <2>1 DEF CallOK, SetTabState, Row
  <2>7. CallsOK(RebindCalls(uid, how))
    BY <1>1, <2>6, OneOK DEF RebindCalls
  <2> QED
    BY <2>1, <2>4, <2>5, <2>7
<1>2. CASE ~Reopens(uid, how)
  <2>1. TabsOK' /\ (uid \in Live => activeTab' = uid)
    BY <1>2 DEF Land, TabsOK, Live
  <2>2. CacheOK'
    BY <1>2 DEF Land, CacheOK
  <2>3. CallsOK(RebindCalls(uid, how))
    BY <1>2, NothingOK DEF RebindCalls
  <2> QED
    BY <1>2, <2>1, <2>2, <2>3 DEF TabsOK
<1> QED
  BY <1>1, <1>2

(* What is posted goes behind what is there. *)
LEMMA PostOK ==
    ASSUME CallsOK(queue), NEW calls, CallsOK(calls), Post(calls)
    PROVE  CallsOK(queue')
BY BothOK DEF Post

(* A gesture that ends leaves nothing behind. *)
LEMMA EndGestureOK ==
    ASSUME EndGesture
    PROVE  GestureOK' /\ AnchorIsTail'
<1>1. DOMAIN EmptyFunction = {}
  BY DEF EmptyFunction
<1>2. IdleController.active = FALSE
  BY DEF IdleController
<1>3. /\ traversalActive' = FALSE /\ controller' = IdleController /\ debounceArmed' = FALSE
      /\ reopenedUrl' = EmptyFunction /\ anchor' = NoUid /\ gestureGeneration' = 0
  BY DEF EndGesture
<1> QED
  BY <1>1, <1>2, <1>3 DEF GestureOK, AnchorIsTail

(* A step of a gesture, with a controller that has landed. *)
LEMMA GestureKeepsCInv ==
    ASSUME CInv, NEW c, NEW how, Walks(c), HasCurrent(c), Gesture(c, how), settledLog # <<>>
    PROVE  CInv'
<1> DEFINE uid == Current(c)
<1>1. TabsOK' /\ CacheOK' /\ CallsOK(RebindCalls(uid, how))
  BY LandKeeps DEF Gesture, CInv
<1>2. CallsOK(queue')
  BY <1>1, PostOK DEF Gesture, CInv
<1>3. ClockOK' /\ LogOK' /\ StoreOK(store') /\ RepliesOK(replies')
  BY DEF Gesture, CInv, ClockOK, LogOK, loadVars
<1>4. settledLog' = settledLog /\ traversalActive' /\ controller' = c
  BY DEF Gesture
<1>5. Last(settledLog) \in Uid
  BY DEF CInv, LogOK, Last
<1>6. anchor' = Last(settledLog) /\ AnchorIsTail'
  BY <1>4 DEF Gesture, CInv, AnchorIsTail
<1>7. DOMAIN reopenedUrl' \subseteq Uid
  <2>1. CASE Reopens(uid, how)
    <3>1. uid \in Uid
      BY <2>1 DEF Reopens, CInv, CacheOK
    <3>2. DOMAIN reopenedUrl' = DOMAIN reopenedUrl \cup {uid}
      BY <2>1 DEF Gesture, Put
    <3> QED
      BY <3>1, <3>2 DEF CInv, GestureOK
  <2>2. CASE ~Reopens(uid, how)
    BY <2>2 DEF Gesture, CInv, GestureOK
  <2> QED
    BY <2>1, <2>2
<1>8. gestureGeneration' \in Nat /\ debounceArmed' = TRUE /\ traversalActive' = TRUE
  BY DEF Gesture, CInv, GestureOK, CacheOK
<1>9. c.active = TRUE
  BY DEF Walks
<1>10. GestureOK'
  BY <1>4, <1>5, <1>6, <1>7, <1>8, <1>9 DEF GestureOK, Walks, HasCurrent
<1> QED
  BY <1>1, <1>2, <1>3, <1>6, <1>10 DEF CInv

(* The two directions. *)
LEMMA StepsKeepCInv ==
    ASSUME CInv, NEW how, StepBack(how) \/ StepForward(how)
    PROVE  CInv'
<1>0. settledLog \in Seq(Uid) /\ traversalActive \in BOOLEAN /\ controller.active = traversalActive
  BY DEF CInv, LogOK, GestureOK
<1>1. CASE StepBack(how)
  <2> DEFINE b == BeginGesture(controller, settledLog, CollectReachableUids)
  <2>1. Walks(b) /\ ControllerCanGoBack(b) /\ settledLog # <<>>
    <3>1. CASE traversalActive
      <4>1. b = controller
        BY <1>0, <3>1 DEF BeginGesture
      <4> QED
        BY <1>1, <3>1, <4>1 DEF StepBack, CanGoBack, CInv, GestureOK, AnchorIsTail
    <3>2. CASE ~traversalActive
      <4>1. controller.active = FALSE /\ CanBeginBackTraversal(settledLog, CollectReachableUids)
        BY <1>0, <1>1, <3>2 DEF StepBack, CanGoBack
      <4> QED
        BY <1>0, <4>1, BeginLands
    <3> QED
      BY <3>1, <3>2
  <2> HIDE DEF b
  <2>2. Walks(Back(b)) /\ HasCurrent(Back(b))
    BY <2>1, BackLands
  <2> QED
    BY <1>1, <2>1, <2>2, GestureKeepsCInv DEF StepBack, b
<1>2. CASE StepForward(how)
  <2>1. traversalActive /\ Walks(controller) /\ ControllerCanGoForward(controller) /\ settledLog # <<>>
    BY <1>2 DEF StepForward, CanGoForward, CInv, GestureOK, AnchorIsTail
  <2>2. Walks(Forward(controller)) /\ HasCurrent(Forward(controller))
    BY <2>1, ForwardLands
  <2> QED
    BY <1>2, <2>1, <2>2, GestureKeepsCInv DEF StepForward
<1> QED
  BY <1>1, <1>2

(* The visit that a handler records for a tab. *)
LEMMA VisitOK ==
    ASSUME CInv, NEW uid \in Uid, NEW gen \in Nat
    PROVE  CallsOK(<<RecordVisit(uid, gen)>>)
<1>1. now \in Nat
  BY DEF CInv, ClockOK
<1>2. CallOK(RecordVisit(uid, gen))
  BY <1>1 DEF CallOK, RecordVisit
<1> QED
  BY <1>2, OneOK

(* The end of a gesture. *)
LEMMA SettleKeepsCInv ==
    ASSUME CInv, NEW how, Settle(how)
    PROVE  CInv'
<1>1. GestureOK' /\ AnchorIsTail'
  BY EndGestureOK DEF Settle
<1>2. ClockOK' /\ StoreOK(store') /\ RepliesOK(replies')
  BY DEF Settle, CInv, ClockOK, loadVars
<1>3. CASE HasCurrent(controller) /\ Current(controller) # anchor
  <2> DEFINE uid == Current(controller)
             found == uid \in Live \/ Reopens(uid, how)
             visit == IF found /\ SettledUrl(uid, how) \in Url
                      THEN <<RecordVisit(uid, gestureGeneration)>> ELSE <<>>
  <2>1. /\ Land(uid, how)
        /\ settledLog' = IF found THEN Settled(settledLog, uid) ELSE settledLog
        /\ Post(RebindCalls(uid, how) \o visit)
    BY <1>3 DEF Settle
  <2>2. /\ TabsOK' /\ CacheOK' /\ CallsOK(RebindCalls(uid, how))
        /\ found => uid \in Uid
    BY <2>1, LandKeeps DEF CInv
  <2>3. CallsOK(visit)
    BY <2>2, VisitOK, NothingOK DEF CInv, GestureOK
  <2>4. LogOK'
    BY <2>1, <2>2, SettledEndsWithIt DEF CInv, LogOK
  <2> HIDE DEF visit, uid
  <2>5. CallsOK(RebindCalls(uid, how) \o visit)
    BY <2>2, <2>3, BothOK
  <2>6. CallsOK(queue')
    BY <2>1, <2>5, PostOK DEF CInv
  <2> QED
    BY <1>1, <1>2, <2>2, <2>4, <2>6 DEF CInv
<1>4. CASE ~(HasCurrent(controller) /\ Current(controller) # anchor)
  <2>1. UNCHANGED <<tabs, activeTab, reopenVars, settledLog, queue>>
    BY <1>4 DEF Settle
  <2>2. TabsOK' /\ CacheOK' /\ LogOK' /\ CallsOK(queue')
    BY <2>1 DEF CInv, TabsOK, CacheOK, LogOK, Live, reopenVars
  <2> QED
    BY <1>1, <1>2, <2>2 DEF CInv
<1> QED
  BY <1>3, <1>4

(* What the user does. *)
LEMMA UserStepKeepsCInv ==
    ASSUME CInv, UserStep
    PROVE  CInv'
<1>1. ASSUME NEW uid \in Uid, NEW url \in InsertUrl, NEW fg \in BOOLEAN,
             InsertTab(uid, url, fg)
      PROVE  CInv'
  <2>1. url \in TabUrl
    BY TabVisitAssumption DEF TabUrl
  <2>2. /\ DOMAIN tabs' = Live \cup {uid}
        /\ \A u \in DOMAIN tabs' : tabs'[u] = IF u = uid THEN url ELSE tabs[u]
    BY <1>1 DEF InsertTab, Put, Live
  <2>3. TabsOK'
    BY <1>1, <2>1, <2>2 DEF InsertTab, CInv, TabsOK, Live
  <2> QED
    BY <1>1, <2>3 DEF InsertTab, CInv, ClockOK, LogOK, CacheOK, GestureOK, AnchorIsTail,
       gestureVars, reopenVars, loadVars, storeVars
<1>2. ASSUME NEW uid \in Uid, SelectTab(uid)
      PROVE  CInv'
  <2>1. TabsOK' /\ ClockOK' /\ CacheOK' /\ GestureOK' /\ StoreOK(store') /\ RepliesOK(replies')
    BY <1>2 DEF SelectTab, CInv, TabsOK, Live, ClockOK, CacheOK, GestureOK,
       gestureVars, reopenVars, loadVars
  <2>2. LogOK' /\ AnchorIsTail' /\ CallsOK(queue')
    <3>1. CASE BridgeCommits
      <4> DEFINE calls == IF tabs[uid] \in Url THEN <<RecordVisit(uid, generation)>> ELSE <<>>
      <4>1. settledLog' = Settled(settledLog, uid) /\ Post(calls) /\ ~traversalActive'
        BY <1>2, <3>1 DEF SelectTab, BridgeCommits, gestureVars
      <4>2. CallsOK(calls)
        BY VisitOK, NothingOK DEF CInv, CacheOK
      <4> HIDE DEF calls
      <4> QED
        BY <4>1, <4>2, PostOK, SettledEndsWithIt DEF CInv, LogOK, AnchorIsTail
    <3>2. CASE ~BridgeCommits
      BY <1>2, <3>2 DEF SelectTab, CInv, LogOK, AnchorIsTail, gestureVars
    <3> QED
      BY <3>1, <3>2
  <2> QED
    BY <2>1, <2>2 DEF CInv
<1>3. ASSUME NEW uid \in Uid, NEW successor \in Uid \cup {NoUid}, CloseTab(uid, successor)
      PROVE  CInv'
  <2>1. uid \in Live /\ tabs[uid] \in TabUrl
    BY <1>3 DEF CloseTab, CInv, TabsOK
  <2>2. TabsOK'
    <3>1. /\ DOMAIN tabs' = Live \ {uid}
          /\ \A u \in DOMAIN tabs' : tabs'[u] = tabs[u]
      BY <1>3 DEF CloseTab, Restrict, Live
    <3>2. activeTab' \in (Live \ {uid}) \cup {NoUid}
      BY <1>3 DEF CloseTab, CInv, TabsOK
    <3> QED
      BY <3>1, <3>2 DEF CInv, TabsOK, Live
  <2>3. CacheOK'
    <3>1. /\ DOMAIN reopenable' = DOMAIN reopenable \cup {uid}
          /\ \A u \in DOMAIN reopenable' :
                reopenable'[u] = IF u = uid THEN tabs[uid] ELSE reopenable[u]
      BY <1>3 DEF CloseTab, Put
    <3> QED
      BY <1>3, <2>1, <3>1 DEF CloseTab, CInv, CacheOK
  <2>4. CallOK(SetTabState(uid, TRUE, tabs[uid]))
    BY <2>1 DEF CallOK, SetTabState, Row
  <2>5. CallsOK(queue')
    BY <1>3, <2>4, OneOK, PostOK DEF CloseTab, CInv
  <2> QED
    BY <1>3, <2>2, <2>3, <2>5 DEF CloseTab, CInv, ClockOK, LogOK, GestureOK, AnchorIsTail,
       gestureVars, loadVars
<1>4. ASSUME NEW uid \in Uid, NEW url \in Url, Navigate(uid, url)
      PROVE  CInv'
  <2>1. TabsOK'
    <3>1. /\ DOMAIN tabs' = Live
          /\ \A u \in DOMAIN tabs' : tabs'[u] = IF u = uid THEN url ELSE tabs[u]
      BY <1>4 DEF Navigate, Live
    <3> QED
      BY <1>4, <3>1 DEF Navigate, CInv, TabsOK, Live, TabUrl
  <2> QED
    BY <1>4, <2>1 DEF Navigate, CInv, ClockOK, LogOK, CacheOK, GestureOK, AnchorIsTail,
       gestureVars, reopenVars, loadVars, storeVars
<1>5. CASE SetReopenClosed
  <2>1. ClockOK'
    BY <1>5 DEF SetReopenClosed, CInv, ClockOK, loadVars
  <2> QED
    BY <1>5, <2>1 DEF SetReopenClosed, CInv, TabsOK, Live, LogOK, CacheOK, GestureOK,
       AnchorIsTail, gestureVars, reopenVars, storeVars
<1>6. ASSUME NEW how \in ReopenOutcomes, StepBack(how) \/ StepForward(how)
      PROVE  CInv'
  BY <1>6, StepsKeepCInv
<1>7. ASSUME NEW how \in ReopenOutcomes, ReleaseChord(how)
      PROVE  CInv'
  BY <1>7, SettleKeepsCInv DEF ReleaseChord
<1>8. CASE CancelGesture
  <2>1. GestureOK' /\ AnchorIsTail'
    BY <1>8, EndGestureOK DEF CancelGesture
  <2> QED
    BY <1>8, <2>1 DEF CancelGesture, CInv, TabsOK, Live, ClockOK, LogOK, CacheOK,
       browserVars, reopenVars, loadVars, storeVars
<1>9. ASSUME NEW begin \in 0..MaxTime, NEW end \in 1..(MaxTime + 1),
             ClearBrowsingData(begin, end)
      PROVE  CInv'
  <2>1. generation \in 0..MaxClears /\ generation < MaxClears /\ MaxClears \in Nat
    BY <1>9, TabVisitAssumption DEF ClearBrowsingData, CInv, CacheOK
  <2>2. GestureOK' /\ AnchorIsTail'
    BY <1>9, EndGestureOK DEF ClearBrowsingData, PrepareForBrowsingDataClear
  <2>3. CacheOK'
    <3>1. DOMAIN EmptyFunction = {}
      BY DEF EmptyFunction
    <3> QED
      BY <1>9, <2>1, <3>1
         DEF ClearBrowsingData, PrepareForBrowsingDataClear, CInv, CacheOK
  <2>4. CallOK(ClearCall(begin, end, generation + 1))
    <3>1. begin \in Nat /\ end \in Nat /\ generation + 1 \in Nat
      BY <2>1, TabVisitAssumption
    <3> QED
      BY <3>1 DEF CallOK, ClearCall
  <2>5. CallsOK(queue')
    BY <1>9, <2>4, OneOK, PostOK DEF ClearBrowsingData, CInv
  <2> QED
    BY <1>9, <2>2, <2>3, <2>5 DEF ClearBrowsingData, CInv, TabsOK, Live, ClockOK, LogOK,
       browserVars, loadVars
<1> QED
  BY <1>1, <1>2, <1>3, <1>4, <1>5, <1>6, <1>7, <1>8, <1>9 DEF UserStep

(* What the store sequence, the timer and the process do. *)
LEMMA SystemStepKeepsCInv ==
    ASSUME CInv, SystemStep
    PROVE  CInv'
<1>1. ASSUME NEW how \in ReopenOutcomes, DebounceFires(how)
      PROVE  CInv'
  BY <1>1, SettleKeepsCInv DEF DebounceFires
<1>2. CASE LoadPersistedJournal
  <2>1. CallOK(GetVisits) /\ CallOK(GetAllTabStates(generation))
    BY DEF CallOK, GetVisits, GetAllTabStates, CInv, CacheOK
  <2> DEFINE calls == <<GetVisits, GetAllTabStates(generation)>>
  <2>2. /\ calls \in Seq({GetVisits, GetAllTabStates(generation)})
        /\ \A i \in 1..Len(calls) : calls[i] \in {GetVisits, GetAllTabStates(generation)}
    OBVIOUS
  <2>3. Post(calls)
    BY <1>2 DEF LoadPersistedJournal
  <2> HIDE DEF calls
  <2>4. CallsOK(queue')
    BY <2>1, <2>2, <2>3, PostOK DEF CInv, CallsOK, IsSeq
  <2>5. ClockOK'
    BY <1>2 DEF LoadPersistedJournal, CInv, ClockOK, browserVars
  <2> QED
    BY <1>2, <2>4, <2>5 DEF LoadPersistedJournal, CInv, TabsOK, Live, LogOK, CacheOK,
       GestureOK, AnchorIsTail, browserVars, gestureVars, reopenVars
<1>3. CASE StoreStep
  <2>1. CallOK(Head(queue)) /\ CallsOK(queue')
    BY <1>3, HeadAndTailOK DEF StoreStep, CInv
  <2>2. StoreOK(store')
    BY <1>3, <2>1, RunCallOK DEF StoreStep, CInv
  <2>3. PICK read \in {store'} \cup (IF StoreMayFail THEN {EmptyStore} ELSE {}) :
           replies' = replies \o ReplyTo(read, Head(queue))
    BY <1>3 DEF StoreStep
  <2>4. StoreOK(read)
    BY <2>2, EmptyStoreOK
  <2>5. RepliesOK(replies')
    BY <2>1, <2>3, <2>4, ReplyToOK, BothOK DEF CInv
  <2> QED
    BY <1>3, <2>1, <2>2, <2>5 DEF StoreStep, CInv, TabsOK, Live, ClockOK, LogOK, CacheOK,
       GestureOK, AnchorIsTail, browserVars, gestureVars, reopenVars, loadVars
<1>4. CASE DeliverReply
  <2> DEFINE reply == Head(replies)
  <2>1. ReplyOK(reply) /\ RepliesOK(replies')
    BY <1>4, HeadAndTailOK DEF DeliverReply, CInv
  <2>2. TabsOK' /\ GestureOK' /\ StoreOK(store')
    BY <1>4 DEF DeliverReply, CInv, TabsOK, Live, GestureOK, browserVars, gestureVars
  <2>3. ASSUME reply.op = "readAll", OnJournalLoaded(reply.rows)
        PROVE  CInv'
    <3>1. reply.rows \in Seq(Uid \cup {NoUid})
      BY <2>1, <2>3 DEF ReplyOK
    <3>2. LogOK' /\ AnchorIsTail'
      BY <1>4, <2>3, <3>1, MergeKeepsTheTail
         DEF DeliverReply, OnJournalLoaded, CInv, LogOK, AnchorIsTail, gestureVars
    <3> QED
      BY <1>4, <2>1, <2>2, <2>3, <3>2
         DEF DeliverReply, OnJournalLoaded, CInv, ClockOK, CacheOK, browserVars, reopenVars
  <2>4. ASSUME reply.op = "readTabStates", OnReopenableLoaded(reply.gen, reply.rows)
        PROVE  CInv'
    <3>1. DOMAIN reply.rows \subseteq Uid /\ \A uid \in DOMAIN reply.rows : reply.rows[uid].url \in TabUrl
      BY <2>1, <2>4 DEF ReplyOK, Row
    <3>2. CacheOK'
      <4>1. CASE IsStale(reply.gen)
        BY <2>4, <4>1 DEF OnReopenableLoaded, CInv, CacheOK
      <4>2. CASE ~IsStale(reply.gen)
        <5> DEFINE D == DOMAIN reopenable
                        \cup ({u \in DOMAIN reply.rows : reply.rows[u].closed} \ recentlyReopened)
        <5>1. reopenable' = [uid \in D |->
                 IF uid \in DOMAIN reopenable THEN reopenable[uid] ELSE reply.rows[uid].url]
          BY <2>4, <4>2 DEF OnReopenableLoaded
        <5>2. D \subseteq Uid /\ \A uid \in D : uid \in DOMAIN reopenable \/ uid \in DOMAIN reply.rows
          BY <3>1 DEF CInv, CacheOK
        <5> HIDE DEF D, reply
        <5> QED
          BY <2>4, <3>1, <5>1, <5>2 DEF OnReopenableLoaded, CInv, CacheOK
      <4> QED
        BY <4>1, <4>2
    <3> QED
      BY <1>4, <2>1, <2>2, <2>4, <3>2
         DEF DeliverReply, OnReopenableLoaded, CInv, ClockOK, LogOK, AnchorIsTail, browserVars,
             loadVars, gestureVars
  <2>5. ASSUME reply.op = "clear", OnBrowsingDataCleared
        PROVE  CInv'
    <3>1. CallOK(GetAllTabStates(generation))
      BY DEF CallOK, GetAllTabStates, CInv, CacheOK
    <3>2. CallsOK(queue')
      BY <2>5, <3>1, OneOK, PostOK DEF OnBrowsingDataCleared, CInv
    <3> QED
      BY <1>4, <2>1, <2>2, <2>5, <3>2
         DEF DeliverReply, OnBrowsingDataCleared, CInv, ClockOK, LogOK, CacheOK, AnchorIsTail,
             browserVars, loadVars, gestureVars, reopenVars
  <2> QED
    BY <1>4, <2>3, <2>4, <2>5 DEF DeliverReply
<1>5. CASE Tick
  <2>1. ClockOK'
    BY <1>5, TabVisitAssumption DEF Tick, CInv, ClockOK, loadVars
  <2> QED
    BY <1>5, <2>1 DEF Tick, CInv, TabsOK, Live, LogOK, CacheOK, GestureOK, AnchorIsTail,
       gestureVars, reopenVars, storeVars
<1>6. CASE Restart
  <2>1. DOMAIN EmptyFunction = {} /\ <<>> \in Seq(Uid)
    BY DEF EmptyFunction
  <2>2. TabsOK' /\ LogOK'
    BY <1>6, <2>1 DEF Restart, TabsOK, Live, LogOK
  <2>3. CacheOK'
    BY <1>6, <2>1, TabVisitAssumption DEF Restart, CacheOK
  <2>4. ClockOK'
    <3>1. restarts' \in 0..MaxRestarts
      BY <1>6, TabVisitAssumption DEF Restart, CInv, ClockOK
    <3> QED
      BY <1>6, <3>1 DEF Restart, CInv, ClockOK
  <2>5. GestureOK' /\ AnchorIsTail'
    BY <1>6, EndGestureOK DEF Restart
  <2>6. StoreOK(store')
    BY <1>6, EmptyStoreOK DEF Restart, CInv
  <2>7. CallsOK(queue') /\ RepliesOK(replies')
    BY <1>6, NothingOK DEF Restart
  <2> QED
    BY <2>2, <2>3, <2>4, <2>5, <2>6, <2>7 DEF CInv
<1> QED
  BY <1>1, <1>2, <1>3, <1>4, <1>5, <1>6 DEF SystemStep

(* Every step preserves it. *)
LEMMA NextCInv == CInv /\ [Next]_vars => CInv'
<1> SUFFICES ASSUME CInv, [Next]_vars PROVE CInv'
  OBVIOUS
<1>1. CASE UNCHANGED vars
  BY <1>1 DEF CInv, TabsOK, Live, ClockOK, LogOK, CacheOK, GestureOK, AnchorIsTail, vars,
     browserVars, gestureVars, reopenVars, loadVars, storeVars
<1> QED
  BY <1>1, UserStepKeepsCInv, SystemStepKeepsCInv DEF Next

(* The coordinator is sound between any two handlers: the state has its       *)
(* types, a gesture's anchor is the log's tail even if the persisted journal  *)
(* arrives in the middle of it (OnJournalLoaded merges in front), and its     *)
(* cursor always rests on a tab that could be landed on, so Settle has a      *)
(* landing to commit.                                                         *)
THEOREM CoordinatorIsSound == Spec => []CoordinatorInv
<1>1. Init => CInv
  BY InitCInv
<1>2. CInv /\ [Next]_vars => CInv'
  BY NextCInv
<1>3. CInv => CoordinatorInv
  BY CInvIsEnough
<1> QED
  BY <1>1, <1>2, <1>3, PTL DEF Spec

(* The last call in the queue after a post. *)
LEMMA LastPosted ==
    ASSUME CallsOK(queue), NEW calls, CallsOK(calls), Post(calls)
    PROVE  /\ Len(queue') > Len(queue) => calls # <<>>
           /\ calls # <<>> => Last(queue') = Last(calls)
<1>1. /\ IsSeq(queue) /\ IsSeq(calls) /\ queue' = queue \o calls
  BY DEF CallsOK, Post
<1>2. PICK S : queue \in Seq(S)
  BY <1>1 DEF IsSeq
<1>3. PICK T : calls \in Seq(T)
  BY <1>1 DEF IsSeq
<1>4. queue \in Seq(S \cup T) /\ calls \in Seq(S \cup T)
  BY <1>2, <1>3
<1> QED
  BY <1>1, <1>4 DEF Last

(* Of a handler's post of one call, or of none. *)
LEMMA LastOfOne ==
    ASSUME CallsOK(queue), NEW call, CallOK(call), NEW calls, Post(calls),
           calls = <<call>> \/ calls = <<>>
    PROVE  /\ Len(queue') > Len(queue) => calls = <<call>> /\ Last(queue') = call
           /\ calls = <<call>> => Last(queue') = call
<1>1. CallsOK(calls)
  BY OneOK, NothingOK
<1>2. Last(<<call>>) = call /\ <<call>> # <<>>
  BY DEF Last
<1> QED
  BY <1>1, <1>2, LastPosted

(* What Settle posts last, and where it leaves the user: the visit, if it     *)
(* posts one.                                                                 *)
LEMMA SettlePosts ==
    ASSUME CInv, NEW how, Settle(how)
    PROVE  LET uid     == Current(controller)
               landed  == /\ HasCurrent(controller) /\ uid # anchor
                          /\ uid \in Live \/ Reopens(uid, how)
               visits  == landed /\ SettledUrl(uid, how) \in Url
           IN  /\ landed => /\ activeTab' = uid /\ settledLog' = Settled(settledLog, uid)
                            /\ Last(settledLog') = uid
               /\ ~landed => settledLog' = settledLog
               /\ visits => Last(queue').op = "append" /\ Last(queue').uid = uid
               /\ ~visits => ~(Len(queue') > Len(queue) /\ Last(queue').op = "append")
<1> DEFINE uid     == Current(controller)
           found   == uid \in Live \/ Reopens(uid, how)
           landed  == HasCurrent(controller) /\ uid # anchor /\ found
           visits  == landed /\ SettledUrl(uid, how) \in Url
           record  == RecordVisit(uid, gestureGeneration)
           row     == SetTabState(uid, FALSE, reopenable[uid])
           rebind  == RebindCalls(uid, how)
<1>1. CASE HasCurrent(controller) /\ uid # anchor
  <2> DEFINE visit == IF visits THEN <<record>> ELSE <<>>
  <2>1. /\ Land(uid, how)
        /\ settledLog' = IF landed THEN Settled(settledLog, uid) ELSE settledLog
        /\ Post(rebind \o visit)
    BY <1>1 DEF Settle
  <2>2. CallsOK(rebind) /\ (found => uid \in Uid /\ activeTab' = uid)
    BY <2>1, LandKeeps DEF CInv
  <2>3. landed => Last(settledLog') = uid
    BY <2>1, <2>2, SettledEndsWithIt DEF CInv, LogOK
  <2>4. CallsOK(visit)
    BY <2>2, VisitOK, NothingOK DEF CInv, GestureOK
  <2>5. CallsOK(queue) /\ CallsOK(rebind \o visit)
    BY <2>2, <2>4, BothOK DEF CInv
  <2>6. /\ record.op = "append" /\ record.uid = uid /\ row.op = "upsert"
        /\ Last(<<record>>) = record /\ Last(<<row>>) = row
    BY DEF RecordVisit, SetTabState, Last
  <2>7. rebind = <<>> \/ rebind = <<row>>
    BY DEF RebindCalls
  <2> HIDE DEF record, row, rebind
  <2>8. <<>> \o <<>> = <<>> /\ <<row>> \o <<>> = <<row>>
    OBVIOUS
  <2>9. rebind \o <<record>> # <<>> /\ Last(rebind \o <<record>>) = record
    <3>1. CASE rebind = <<>>
      BY <2>6, <3>1 DEF Last
    <3>2. CASE rebind = <<row>>
      BY <3>2 DEF Last
    <3> QED
      BY <2>7, <3>1, <3>2
  <2>10. visits => Last(queue') = record
    <3>1. ASSUME visits PROVE visit = <<record>>
      BY <3>1
    <3> HIDE DEF visit, visits
    <3> QED
      BY <2>1, <2>5, <2>9, <3>1, LastPosted
  <2>11. ASSUME ~visits, Len(queue') > Len(queue) PROVE Last(queue') = row
    <3>1. visit = <<>>
      BY <2>11
    <3> HIDE DEF visit, visits
    <3>2. rebind \o visit # <<>> /\ Last(queue') = Last(rebind \o visit)
      BY <2>1, <2>5, <2>11, LastPosted
    <3> QED
      BY <2>6, <2>7, <2>8, <3>1, <3>2
  <2> HIDE DEF visit
  <2> QED
    BY <1>1, <2>1, <2>2, <2>3, <2>6, <2>10, <2>11
<1>2. CASE ~(HasCurrent(controller) /\ uid # anchor)
  <2>1. settledLog' = settledLog /\ queue' = queue
    BY <1>2 DEF Settle
  <2>2. Len(queue) \in Nat
    BY ConcatSeq DEF CInv, CallsOK
  <2> QED
    BY <1>2, <2>1, <2>2
<1> QED
  BY <1>1, <1>2

(* A step that posts no visit. *)
NoVisitPosted == ~(Len(queue') > Len(queue) /\ Last(queue').op = "append")

LEMMA NothingPosted ==
    ASSUME CInv, UNCHANGED queue
    PROVE  NoVisitPosted
<1>1. Len(queue) \in Nat
  BY ConcatSeq DEF CInv, CallsOK
<1> QED
  BY <1>1 DEF NoVisitPosted

LEMMA OneOtherPosted ==
    ASSUME CInv, NEW call, CallOK(call), call.op # "append", NEW calls, Post(calls),
           calls = <<call>> \/ calls = <<>>
    PROVE  NoVisitPosted
BY LastOfOne DEF CInv, NoVisitPosted

(* Of a gesture's steps and of the steps that are no user's commit.           *)
LEMMA OthersPostNoVisit ==
    ASSUME CInv, Next,
           \A uid \in Uid : ~SelectTab(uid),
           \A how \in ReopenOutcomes : ~Settle(how)
    PROVE  NoVisitPosted
<1>1. ASSUME NEW uid \in Uid, NEW successor \in Uid \cup {NoUid}, CloseTab(uid, successor)
      PROVE  NoVisitPosted
  <2> DEFINE call == SetTabState(uid, TRUE, tabs[uid])
  <2>1. CallOK(call) /\ call.op # "append"
    BY <1>1 DEF CloseTab, CInv, TabsOK, CallOK, SetTabState, Row
  <2>2. Post(<<call>>)
    BY <1>1 DEF CloseTab
  <2> HIDE DEF call
  <2> QED
    BY <2>1, <2>2, OneOtherPosted
<1>2. ASSUME NEW how \in ReopenOutcomes, NEW c, Gesture(c, how)
      PROVE  NoVisitPosted
  <2> DEFINE uid == Current(c)
             call == SetTabState(uid, FALSE, reopenable[uid])
  <2>1. Post(RebindCalls(uid, how))
    BY <1>2 DEF Gesture
  <2>2. CASE Reopens(uid, how)
    <3>1. CallOK(call) /\ call.op # "append"
      BY <2>2 DEF Reopens, CInv, CacheOK, CallOK, SetTabState, Row
    <3>2. RebindCalls(uid, how) = <<call>>
      BY <2>2 DEF RebindCalls
    <3> HIDE DEF call
    <3> QED
      BY <2>1, <3>1, <3>2, OneOtherPosted
  <2>3. CASE ~Reopens(uid, how)
    <3>1. CallOK(GetVisits) /\ GetVisits.op # "append"
      BY DEF CallOK, GetVisits
    <3> QED
      BY <2>1, <2>3, <3>1, OneOtherPosted DEF RebindCalls
  <2> QED
    BY <2>2, <2>3
<1>3. ASSUME NEW begin \in 0..MaxTime, NEW end \in 1..(MaxTime + 1),
             ClearBrowsingData(begin, end)
      PROVE  NoVisitPosted
  <2> DEFINE call == ClearCall(begin, end, generation + 1)
  <2>1. CallOK(call) /\ call.op # "append"
    BY TabVisitAssumption DEF CallOK, ClearCall, CInv, CacheOK
  <2>2. Post(<<call>>)
    BY <1>3 DEF ClearBrowsingData
  <2> HIDE DEF call
  <2> QED
    BY <2>1, <2>2, OneOtherPosted
<1>4. CASE LoadPersistedJournal
  <2> DEFINE read == GetAllTabStates(generation)
             calls == <<GetVisits, read>>
  <2>1. CallOK(GetVisits) /\ CallOK(read) /\ read.op # "append"
    BY DEF CallOK, GetVisits, GetAllTabStates, CInv, CacheOK
  <2>2. Post(calls)
    BY <1>4 DEF LoadPersistedJournal
  <2> HIDE DEF read
  <2>3. /\ calls \in Seq({GetVisits, read}) /\ Last(calls) = read /\ calls # <<>>
        /\ \A i \in 1..Len(calls) : calls[i] \in {GetVisits, read}
    BY DEF Last
  <2> HIDE DEF calls
  <2>4. CallsOK(calls)
    BY <2>1, <2>3 DEF CallsOK, IsSeq
  <2> QED
    BY <2>1, <2>2, <2>3, <2>4, LastPosted DEF CInv, NoVisitPosted
<1>5. CASE StoreStep
  <2>1. PICK S : queue \in Seq(S)
    BY DEF CInv, CallsOK, IsSeq
  <2> QED
    BY <1>5, <2>1 DEF StoreStep, NoVisitPosted
<1>6. CASE DeliverReply
  <2>1. CASE UNCHANGED queue
    BY <2>1, NothingPosted
  <2>2. CASE OnBrowsingDataCleared
    <3> DEFINE call == GetAllTabStates(generation)
    <3>1. CallOK(call) /\ call.op # "append"
      BY DEF CallOK, GetAllTabStates, CInv, CacheOK
    <3>2. Post(<<call>>)
      BY <2>2 DEF OnBrowsingDataCleared
    <3> HIDE DEF call
    <3> QED
      BY <3>1, <3>2, OneOtherPosted
  <2> QED
    BY <1>6, <2>1, <2>2 DEF DeliverReply, OnJournalLoaded, OnReopenableLoaded
<1>7. CASE Restart
  <2>1. queue' = <<>> /\ Len(<<>>) = 0 /\ Len(queue) \in Nat
    BY <1>7, ConcatSeq DEF Restart, CInv, CallsOK
  <2> QED
    BY <2>1 DEF NoVisitPosted
<1>8. ASSUME NEW uid \in Uid, NEW url, NEW fg, InsertTab(uid, url, fg) \/ Navigate(uid, url)
      PROVE  NoVisitPosted
  BY <1>8, NothingPosted DEF InsertTab, Navigate, storeVars
<1>9. CASE SetReopenClosed \/ CancelGesture \/ Tick
  BY <1>9, NothingPosted DEF SetReopenClosed, CancelGesture, Tick, storeVars
<1>10. CASE UserStep
  BY <1>1, <1>2, <1>3, <1>8, <1>9, <1>10
     DEF UserStep, StepBack, StepForward, ReleaseChord
<1>11. CASE SystemStep
  BY <1>4, <1>5, <1>6, <1>7, <1>9, <1>11 DEF SystemStep, DebounceFires
<1> QED
  BY <1>10, <1>11 DEF Next

(* A visit is journaled only once the gesture is over, for the tab in front,  *)
(* and that tab is the log's tail: previews never reach the journal, and the  *)
(* volatile and the persisted order get a visit together.                     *)
THEOREM JournaledVisitsAreSettled == Spec => VisitsAreSettled
<1>1. CInv /\ [Next]_vars =>
         [Len(queue') > Len(queue) /\ Last(queue').op = "append" =>
            /\ ~traversalActive'
            /\ activeTab' = Last(queue').uid
            /\ Last(settledLog') = Last(queue').uid]_vars
  <2> SUFFICES ASSUME CInv, Next, ~NoVisitPosted
               PROVE  /\ ~traversalActive'
                      /\ activeTab' = Last(queue').uid
                      /\ Last(settledLog') = Last(queue').uid
    BY DEF NoVisitPosted
  <2>1. ASSUME NEW uid \in Uid, SelectTab(uid)
        PROVE  /\ ~traversalActive'
               /\ activeTab' = Last(queue').uid
               /\ Last(settledLog') = Last(queue').uid
    <3>1. CASE BridgeCommits
      <4> DEFINE call == RecordVisit(uid, generation)
                 calls == IF tabs[uid] \in Url THEN <<call>> ELSE <<>>
      <4>1. /\ activeTab' = uid /\ settledLog' = Settled(settledLog, uid)
            /\ ~traversalActive' /\ Post(calls)
        BY <2>1, <3>1 DEF SelectTab, BridgeCommits, gestureVars
      <4>2. CallOK(call) /\ call.uid = uid
        BY DEF CallOK, RecordVisit, CInv, CacheOK, ClockOK
      <4>3. calls = <<call>> \/ calls = <<>>
        OBVIOUS
      <4> HIDE DEF call, calls
      <4>4. Last(queue') = call
        BY <4>1, <4>2, <4>3, LastOfOne DEF CInv, NoVisitPosted
      <4> QED
        BY <4>1, <4>2, <4>4, SettledEndsWithIt DEF CInv, LogOK
    <3>2. CASE ~BridgeCommits
      BY <2>1, <3>2, NothingPosted DEF SelectTab
    <3> QED
      BY <3>1, <3>2
  <2>2. ASSUME NEW how \in ReopenOutcomes, Settle(how)
        PROVE  /\ ~traversalActive'
               /\ activeTab' = Last(queue').uid
               /\ Last(settledLog') = Last(queue').uid
    BY <2>2, SettlePosts DEF Settle, EndGesture, NoVisitPosted
  <2> QED
    BY <2>1, <2>2, OthersPostNoVisit
<1> QED
  BY <1>1, InitCInv, NextCInv, PTL DEF Spec, VisitsAreSettled

(* A gesture that commits to a tab it reopened journals the visit although    *)
(* the page has not committed yet: Settle falls back to the URL the tab was   *)
(* reopened at, and nothing else appends to the log while such a URL is kept. *)
THEOREM ReopenedVisitsAreJournaled == Spec => ReopenedVisitIsJournaled
<1>1. CInv /\ [Next]_vars =>
         [\A uid \in DOMAIN reopenedUrl :
            Len(settledLog') > Len(settledLog) /\ ~traversalActive'
               /\ Last(settledLog') = uid /\ reopenedUrl[uid] \in Url
               /\ uid \in Live
            => Last(queue').op = "append" /\ Last(queue').uid = uid]_vars
  <2> SUFFICES ASSUME CInv, Next, NEW uid \in DOMAIN reopenedUrl,
                      Len(settledLog') > Len(settledLog), ~traversalActive',
                      Last(settledLog') = uid, reopenedUrl[uid] \in Url, uid \in Live
               PROVE  Last(queue').op = "append" /\ Last(queue').uid = uid
    OBVIOUS
  <2>1. traversalActive /\ Len(settledLog) \in Nat
    BY DEF CInv, GestureOK, LogOK
  <2>2. ASSUME NEW how \in ReopenOutcomes, Settle(how)
        PROVE  Last(queue').op = "append" /\ Last(queue').uid = uid
    <3>1. /\ uid = Current(controller) /\ HasCurrent(controller) /\ uid # anchor
      BY <2>1, <2>2, SettlePosts
    <3>2. SettledUrl(uid, how) \in Url
      BY DEF SettledUrl, Reopens
    <3> QED
      BY <2>2, <3>1, <3>2, SettlePosts
  <2>3. settledLog' # settledLog
    BY <2>1
  <2>4. ~CancelGesture /\ \A begin, end : ~ClearBrowsingData(begin, end)
    BY <2>3 DEF CancelGesture, ClearBrowsingData
  <2>5. ~Restart
    <3>1. Len(<<>>) = 0
      OBVIOUS
    <3> QED
      BY <2>1, <3>1 DEF Restart
  <2>6. \A how : ~StepBack(how) /\ ~StepForward(how)
    BY DEF StepBack, StepForward, Gesture
  <2>7. traversalActive' # traversalActive
    BY <2>1
  <2>8. ~UNCHANGED gestureVars
    BY <2>7 DEF gestureVars
  <2> QED
    BY <2>2, <2>4, <2>5, <2>6, <2>8
       DEF Next, UserStep, SystemStep, InsertTab, SelectTab, CloseTab, Navigate, SetReopenClosed,
           ReleaseChord, DebounceFires, LoadPersistedJournal, StoreStep, DeliverReply, Tick
<1> QED
  BY <1>1, InitCInv, NextCInv, PTL DEF Spec, ReopenedVisitIsJournaled

-----------------------------------------------------------------------------
(* A set of positions that is not empty has a least one: its member of rank 1. *)
LEMMA LeastPosition ==
    ASSUME NEW n \in Nat, NEW P \in SUBSET (1..n), P # {}
    PROVE  \E m \in P : \A k \in P : m <= k
<1>1. /\ IsFiniteSet(P) /\ Cardinality(P) \in Nat
      /\ \A i \in P : Rank(P, i) \in 1..Cardinality(P)
      /\ \A i, j \in P : i < j => Rank(P, i) < Rank(P, j)
  BY RankGrows
<1>2. 1 \in 1..Cardinality(P)
  BY <1>1, FS_EmptySet
<1>3. PICK m \in P : Rank(P, m) = 1
  BY <1>2, EveryRankIsTaken
<1>4. \A i \in P : i \in Nat
  OBVIOUS
<1>5. \A k \in P : m <= k
  BY <1>1, <1>3, <1>4
<1> QED
  BY <1>3, <1>5

(* The stores that the first calls lead through. A recursive function has to be *)
(* shown to exist before its equation may be used.                             *)
Run(f, s, calls, n) == f = [i \in 0..n |-> IF i = 0 THEN s ELSE RunCall(f[i - 1], calls[i])]

(* There is one: a least number of calls with none would follow one that has. *)
LEMMA RunExists ==
    ASSUME NEW s, NEW calls, NEW n \in Nat
    PROVE  \E f : Run(f, s, calls, n)
<1> DEFINE Bad == {k \in 1..n : ~\E f : Run(f, s, calls, k)}
<1>0. Run([i \in 0..0 |-> s], s, calls, 0)
  BY DEF Run
<1>1. SUFFICES ASSUME Bad # {} PROVE FALSE
  <2>1. CASE n = 0
    BY <1>0, <2>1
  <2>2. CASE n # 0
    <3>1. n \in 1..n
      BY <2>2
    <3> QED
      BY <3>1
  <2> QED
    BY <2>1, <2>2
<1>2. PICK m \in Bad : \A k \in Bad : m <= k
  <2>1. Bad \in SUBSET (1..n)
    OBVIOUS
  <2> HIDE DEF Bad
  <2> QED
    BY <1>1, <2>1, LeastPosition
<1>3. m \in 1..n /\ ~\E f : Run(f, s, calls, m)
  BY <1>2
<1>4. PICK f : Run(f, s, calls, m - 1)
  <2>1. CASE m = 1
    BY <1>0, <2>1
  <2>2. CASE m # 1
    <3>1. m - 1 \in 1..n /\ ~(m <= m - 1)
      BY <1>3, <2>2
    <3>2. m - 1 \notin Bad
      BY <1>2, <3>1
    <3> QED
      BY <3>1, <3>2
  <2> QED
    BY <2>1, <2>2
<1> HIDE DEF Bad
<1> DEFINE g == [i \in 0..m |-> IF i = m THEN RunCall(f[m - 1], calls[m]) ELSE f[i]]
<1>5. /\ DOMAIN f = 0..(m - 1)
      /\ \A i \in 0..(m - 1) : f[i] = IF i = 0 THEN s ELSE RunCall(f[i - 1], calls[i])
  BY <1>4 DEF Run
<1>6. \A i \in 0..m : i = m \/ (i \in 0..(m - 1) /\ g[i] = f[i])
  BY <1>3
<1>7. \A i \in 0..m : g[i] = IF i = 0 THEN s ELSE RunCall(g[i - 1], calls[i])
  <2> TAKE i \in 0..m
  <2>1. CASE i = m
    <3>1. m # 0 /\ m - 1 \in 0..m /\ m - 1 # m
      BY <1>3
    <3>2. g[m - 1] = f[m - 1] /\ g[m] = RunCall(f[m - 1], calls[m])
      BY <1>3, <3>1
    <3> QED
      BY <2>1, <3>1, <3>2
  <2>2. CASE i # m /\ i # 0
    <3>1. i \in 0..(m - 1) /\ i - 1 \in 0..m /\ i - 1 # m
      BY <1>3, <2>2
    <3>2. g[i - 1] = f[i - 1] /\ g[i] = f[i]
      BY <2>2, <3>1
    <3> QED
      BY <1>5, <2>2, <3>1, <3>2
  <2>3. CASE i # m /\ i = 0
    <3>1. 0 \in 0..(m - 1) /\ 0 \in 0..m
      BY <1>3
    <3> QED
      BY <1>5, <2>3, <3>1
  <2> QED
    BY <2>1, <2>2, <2>3
<1>8. g = [i \in 0..m |-> g[i]]
  OBVIOUS
<1> HIDE DEF g
<1>9. Run(g, s, calls, m)
  BY <1>7, <1>8 DEF Run
<1> QED
  BY <1>3, <1>9

(* So StoresAlong is one. *)
LEMMA StoresAlongRuns ==
    ASSUME NEW s, NEW calls, Len(calls) \in Nat
    PROVE  LET ran == StoresAlong(s, calls)
           IN  /\ DOMAIN ran = 0..Len(calls) /\ ran[0] = s
               /\ \A i \in 1..Len(calls) : ran[i] = RunCall(ran[i - 1], calls[i])
<1> DEFINE ran == StoresAlong(s, calls)
<1>1. ran = CHOOSE f : Run(f, s, calls, Len(calls))
  BY DEF StoresAlong, Run
<1>2. Run(ran, s, calls, Len(calls))
  BY <1>1, RunExists
<1> HIDE DEF ran
<1>3. /\ DOMAIN ran = 0..Len(calls)
      /\ \A i \in 0..Len(calls) : ran[i] = IF i = 0 THEN s ELSE RunCall(ran[i - 1], calls[i])
  BY <1>2 DEF Run
<1>4. 0 \in 0..Len(calls) /\ \A i \in 1..Len(calls) : i \in 0..Len(calls) /\ i # 0
  OBVIOUS
<1> QED
  BY <1>3, <1>4 DEF ran

(* f is a run of the first n calls. *)
Follows(f, calls, n) == \A i \in 1..n : f[i] = RunCall(f[i - 1], calls[i])

(* Two runs of the same calls from the same store agree. *)
LEMMA SameRun ==
    ASSUME NEW calls, NEW n \in Nat, NEW f, NEW g, f[0] = g[0],
           Follows(f, calls, n), Follows(g, calls, n)
    PROVE  \A i \in 0..n : f[i] = g[i]
<1> DEFINE Bad == {k \in 1..n : f[k] # g[k]}
<1>1. SUFFICES ASSUME Bad # {} PROVE FALSE
  <2>1. \A i \in 0..n : i = 0 \/ i \in 1..n
    OBVIOUS
  <2> QED
    BY <2>1
<1>2. PICK m \in Bad : \A k \in Bad : m <= k
  <2>1. Bad \in SUBSET (1..n)
    OBVIOUS
  <2> HIDE DEF Bad
  <2> QED
    BY <1>1, <2>1, LeastPosition
<1>3. m \in 1..n /\ f[m] # g[m]
  BY <1>2
<1>4. f[m - 1] = g[m - 1]
  <2>1. CASE m = 1
    BY <2>1
  <2>2. CASE m # 1
    <3>1. m - 1 \in 1..n /\ ~(m <= m - 1)
      BY <1>3, <2>2
    <3> QED
      BY <1>2, <3>1
  <2> QED
    BY <2>1, <2>2
<1> QED
  BY <1>3, <1>4 DEF Follows

(* The store once the calls have run. *)
Drained(s, q) == StoresAlong(s, q)[Len(q)]

(* A call that is posted runs after the others, which run as before. *)
LEMMA PostRuns ==
    ASSUME NEW s, NEW q, IsSeq(q), NEW call
    PROVE  /\ Len(q) \in Nat /\ Len(q \o <<call>>) = Len(q) + 1 /\ IsSeq(q \o <<call>>)
           /\ \A i \in 1..Len(q) : (q \o <<call>>)[i] = q[i]
           /\ (q \o <<call>>)[Len(q) + 1] = call
           /\ \A i \in 0..Len(q) : StoresAlong(s, q \o <<call>>)[i] = StoresAlong(s, q)[i]
           /\ StoresAlong(s, q \o <<call>>)[Len(q) + 1] = RunCall(Drained(s, q), call)
           /\ Drained(s, q \o <<call>>) = RunCall(Drained(s, q), call)
<1> DEFINE n == Len(q)
           p == q \o <<call>>
           a == StoresAlong(s, q)
           b == StoresAlong(s, p)
<1>1. PICK S : q \in Seq(S)
  BY DEF IsSeq
<1>2. /\ q \in Seq(S \cup {call}) /\ <<call>> \in Seq(S \cup {call})
      /\ Len(<<call>>) = 1 /\ <<call>>[1] = call
  BY <1>1
<1>3. /\ n \in Nat /\ p \in Seq(S \cup {call}) /\ Len(p) = n + 1
      /\ \A i \in 1..n : p[i] = q[i]
      /\ p[n + 1] = call
  BY <1>2
<1>4. IsSeq(p)
  BY <1>3 DEF IsSeq
<1> HIDE DEF n, p
<1>5. /\ a[0] = s /\ \A i \in 1..n : a[i] = RunCall(a[i - 1], q[i])
  BY <1>3, StoresAlongRuns DEF n
<1>6. /\ b[0] = s /\ \A i \in 1..(n + 1) : b[i] = RunCall(b[i - 1], p[i])
  <2>1. Len(p) \in Nat
    BY <1>3
  <2> QED
    BY <1>3, <2>1, StoresAlongRuns
<1> HIDE DEF a, b
<1>7. \A i \in 1..n : b[i] = RunCall(b[i - 1], q[i])
  BY <1>3, <1>6
<1>8. \A i \in 0..n : b[i] = a[i]
  <2>1. b[0] = a[0] /\ n \in Nat
    BY <1>3, <1>5, <1>6
  <2>2. Follows(a, q, n) /\ Follows(b, q, n)
    BY <1>5, <1>7 DEF Follows
  <2> QED
    BY <2>1, <2>2, SameRun
<1>9. b[n + 1] = RunCall(a[n], call)
  <2>1. n + 1 \in 1..(n + 1) /\ (n + 1) - 1 = n /\ n \in 0..n
    BY <1>3
  <2>2. b[n + 1] = RunCall(b[n], p[n + 1])
    BY <1>6, <2>1
  <2> QED
    BY <1>3, <1>8, <2>1, <2>2
<1> QED
  BY <1>3, <1>4, <1>8, <1>9 DEF Drained, n, p, a, b

(* Running the oldest call changes nothing of the rest of the run. *)
LEMMA StepRuns ==
    ASSUME NEW s, NEW q, IsSeq(q), q # <<>>
    PROVE  /\ Len(q) \in Nat \ {0} /\ IsSeq(Tail(q)) /\ Len(Tail(q)) = Len(q) - 1
           /\ Head(q) = q[1] /\ \A i \in 1..(Len(q) - 1) : Tail(q)[i] = q[i + 1]
           /\ StoresAlong(s, q)[1] = RunCall(s, Head(q))
           /\ \A i \in 0..(Len(q) - 1) :
                 StoresAlong(RunCall(s, Head(q)), Tail(q))[i] = StoresAlong(s, q)[i + 1]
           /\ Drained(RunCall(s, Head(q)), Tail(q)) = Drained(s, q)
<1> DEFINE n == Len(q)
           t == Tail(q)
           r == RunCall(s, Head(q))
           a == StoresAlong(s, q)
           b == StoresAlong(r, t)
           c == [i \in 0..(n - 1) |-> a[i + 1]]
<1>1. PICK S : q \in Seq(S)
  BY DEF IsSeq
<1>2. /\ n \in Nat \ {0} /\ t \in Seq(S) /\ Len(t) = n - 1 /\ Head(q) = q[1]
      /\ \A i \in 1..(n - 1) : t[i] = q[i + 1]
  BY <1>1
<1>3. IsSeq(t)
  BY <1>2 DEF IsSeq
<1> HIDE DEF n, t
<1>4. /\ a[0] = s /\ \A i \in 1..n : a[i] = RunCall(a[i - 1], q[i])
  BY <1>2, StoresAlongRuns DEF n
<1>5. /\ b[0] = r /\ \A i \in 1..(n - 1) : b[i] = RunCall(b[i - 1], t[i])
  <2>1. Len(t) \in Nat
    BY <1>2
  <2> QED
    BY <1>2, <2>1, StoresAlongRuns
<1>6. a[1] = r
  <2>1. 1 \in 1..n /\ 1 - 1 = 0
    BY <1>2
  <2> QED
    BY <1>2, <1>4, <2>1
<1> HIDE DEF a, b, r
<1>7. c[0] = r /\ \A i \in 1..(n - 1) : c[i] = RunCall(c[i - 1], t[i])
  <2>1. 0 \in 0..(n - 1) /\ 0 + 1 = 1
    BY <1>2
  <2>2. ASSUME NEW i \in 1..(n - 1) PROVE c[i] = RunCall(c[i - 1], t[i])
    <3>1. i \in 0..(n - 1) /\ i - 1 \in 0..(n - 1) /\ i + 1 \in 1..n /\ (i - 1) + 1 = i /\ (i + 1) - 1 = i
      BY <1>2
    <3>2. c[i] = a[i + 1] /\ c[i - 1] = a[i]
      BY <3>1
    <3>3. a[i + 1] = RunCall(a[i], q[i + 1])
      BY <1>4, <3>1
    <3> QED
      BY <1>2, <3>2, <3>3
  <2> QED
    BY <1>6, <2>1, <2>2
<1>8. \A i \in 0..(n - 1) : b[i] = c[i]
  <2>1. n - 1 \in Nat /\ b[0] = c[0]
    BY <1>2, <1>5, <1>7
  <2> HIDE DEF c
  <2>2. Follows(b, t, n - 1) /\ Follows(c, t, n - 1)
    BY <1>5, <1>7 DEF Follows
  <2> QED
    BY <2>1, <2>2, SameRun
<1>9. b[n - 1] = a[n]
  <2>1. n - 1 \in 0..(n - 1) /\ (n - 1) + 1 = n
    BY <1>2
  <2> QED
    BY <1>8, <2>1
<1> QED
  BY <1>2, <1>3, <1>6, <1>8, <1>9 DEF Drained, n, t, a, b, r

(* Every store of the run is one. *)
LEMMA RunsOK ==
    ASSUME NEW s, StoreOK(s), NEW q, CallsOK(q)
    PROVE  /\ \A i \in 0..Len(q) : StoreOK(StoresAlong(s, q)[i])
           /\ StoreOK(Drained(s, q))
<1> DEFINE n == Len(q)
           a == StoresAlong(s, q)
           Bad == {k \in 1..n : ~StoreOK(a[k])}
<1>1. n \in Nat
  <2>1. PICK S : q \in Seq(S)
    BY DEF CallsOK, IsSeq
  <2> QED
    BY <2>1
<1>2. a[0] = s /\ \A i \in 1..n : a[i] = RunCall(a[i - 1], q[i])
  BY <1>1, StoresAlongRuns
<1>3. \A i \in 1..n : CallOK(q[i])
  BY DEF CallsOK
<1> HIDE DEF n, a
<1>4. SUFFICES ASSUME Bad # {} PROVE FALSE
  <2>1. \A i \in 0..n : i = 0 \/ i \in 1..n
    BY <1>1
  <2>2. n \in 0..n
    BY <1>1
  <2> QED
    BY <1>2, <2>1, <2>2 DEF Drained, n, a
<1>5. PICK m \in Bad : \A k \in Bad : m <= k
  <2>1. Bad \in SUBSET (1..n)
    OBVIOUS
  <2> HIDE DEF Bad
  <2> QED
    BY <1>1, <1>4, <2>1, LeastPosition
<1>6. m \in 1..n /\ ~StoreOK(a[m])
  BY <1>5
<1>7. StoreOK(a[m - 1])
  <2>1. CASE m = 1
    BY <1>2, <2>1
  <2>2. CASE m # 1
    <3>1. m - 1 \in 1..n /\ ~(m <= m - 1)
      BY <1>1, <1>6, <2>2
    <3> QED
      BY <1>5, <3>1
  <2> QED
    BY <2>1, <2>2
<1> QED
  BY <1>2, <1>3, <1>6, <1>7, RunCallOK

-----------------------------------------------------------------------------
(* The closed-tab cache and the sidecar.  A read of the sidecar is under way  *)
(* from its call to its reply; it counts as long as no clear began since.     *)
Closed(rows) == {u \in DOMAIN rows : rows[u].closed}

(* A read of the sidecar, posted or answered, that is believed. *)
CurrentRead(item, gen) == item.op = "readTabStates" /\ item.gen = gen

(* What the reads under way will bring, or have brought. *)
ReadRows(s, q, rs, gen) ==
    {StoresAlong(s, q)[i].sidecar : i \in {j \in 1..Len(q) : CurrentRead(q[j], gen)}}
    \cup {rs[i].rows : i \in {j \in 1..Len(rs) : CurrentRead(rs[j], gen)}}

(* A read will be posted, by the start of the program or after a clear. *)
ReadOwed(posted, q, rs) ==
    \/ posted
    \/ \E i \in 1..Len(q) : q[i].op = "clear"
    \/ \E i \in 1..Len(rs) : rs[i].op = "clear"

(* No read is of a generation to come. *)
NoFutureRead(items, gen) ==
    \A i \in 1..Len(items) : items[i].op = "readTabStates" => items[i].gen \in 0..gen

(* The cache says what the sidecar will say. *)
Backed(side, cache) == \A u \in DOMAIN cache : u \in Closed(side) /\ side[u].url = cache[u]

(* A closed row that was read is still the sidecar's, unless the tab was closed  *)
(* or reopened since.                                                            *)
ReadsAreFresh(side, reads, cache, recent) ==
    \A rows \in reads : \A u \in Closed(rows) \ (recent \cup DOMAIN cache) :
        u \in Closed(side) /\ side[u] = rows[u]

(* Every closed row is in the cache or on its way. *)
Covered(side, reads, cache) ==
    Closed(side) \subseteq DOMAIN cache \cup UNION {Closed(rows) : rows \in reads}

Sound(side, reads, cache, recent) ==
    /\ Backed(side, cache)
    /\ ReadsAreFresh(side, reads, cache, recent)
    /\ Closed(side) \cap recent = {}

(* A call is posted: only a read of the sidecar adds to what is read. *)
LEMMA PostedReads ==
    ASSUME NEW s, NEW q, IsSeq(q), NEW rs, NEW gen, NEW posted, NEW c
    PROVE  LET p == q \o <<c>>
           IN  /\ CurrentRead(c, gen) =>
                    ReadRows(s, p, rs, gen) = ReadRows(s, q, rs, gen) \cup {Drained(s, q).sidecar}
               /\ ~CurrentRead(c, gen) => ReadRows(s, p, rs, gen) = ReadRows(s, q, rs, gen)
               /\ ReadOwed(posted, q, rs) \/ c.op = "clear" <=> ReadOwed(posted, p, rs)
               /\ NoFutureRead(q, gen) /\ (c.op = "readTabStates" => c.gen \in 0..gen)
                    => NoFutureRead(p, gen)
<1> DEFINE n == Len(q)
           p == q \o <<c>>
           a == StoresAlong(s, q)
           b == StoresAlong(s, p)
<1>1. /\ n \in Nat /\ Len(p) = n + 1 /\ \A i \in 1..n : p[i] = q[i]
      /\ p[n + 1] = c /\ \A i \in 0..n : b[i] = a[i]
      /\ b[n + 1] = RunCall(Drained(s, q), c)
  BY PostRuns
<1>2. c.op = "readTabStates" => b[n + 1] = Drained(s, q)
  BY <1>1 DEF RunCall
<1> HIDE DEF n, p, a, b
<1>3. /\ \A i \in 1..(n + 1) : i \in 1..n \/ i = n + 1
      /\ \A i \in 1..n : i \in 1..(n + 1) /\ b[i] = a[i]
      /\ n + 1 \in 1..(n + 1)
  BY <1>1
<1> DEFINE A == {a[i].sidecar : i \in {j \in 1..n : CurrentRead(q[j], gen)}}
           B == {b[i].sidecar : i \in {j \in 1..(n + 1) : CurrentRead(p[j], gen)}}
           R == {rs[i].rows : i \in {j \in 1..Len(rs) : CurrentRead(rs[j], gen)}}
<1>4. ReadRows(s, q, rs, gen) = A \cup R /\ ReadRows(s, p, rs, gen) = B \cup R
  BY <1>1 DEF ReadRows, n, a, b
<1>5. A \subseteq B
  BY <1>1, <1>3
<1>6. ASSUME NEW x \in B PROVE x \in A \/ (CurrentRead(c, gen) /\ x = b[n + 1].sidecar)
  <2>1. PICK i \in 1..(n + 1) : CurrentRead(p[i], gen) /\ x = b[i].sidecar
    OBVIOUS
  <2>2. CASE i \in 1..n
    BY <1>1, <1>3, <2>1, <2>2
  <2>3. CASE i = n + 1
    BY <1>1, <2>1, <2>3
  <2> QED
    BY <1>3, <2>2, <2>3
<1>7. CurrentRead(c, gen) => b[n + 1].sidecar \in B
  BY <1>1, <1>3
<1>8. CurrentRead(c, gen) => b[n + 1] = Drained(s, q)
  BY <1>2 DEF CurrentRead
<1> HIDE DEF A, B, R
<1>9. /\ CurrentRead(c, gen) =>
           ReadRows(s, p, rs, gen) = ReadRows(s, q, rs, gen) \cup {Drained(s, q).sidecar}
      /\ ~CurrentRead(c, gen) => ReadRows(s, p, rs, gen) = ReadRows(s, q, rs, gen)
  BY <1>4, <1>5, <1>6, <1>7, <1>8
<1>10. ReadOwed(posted, q, rs) \/ c.op = "clear" <=> ReadOwed(posted, p, rs)
  BY <1>1, <1>3 DEF ReadOwed, n
<1>11. NoFutureRead(q, gen) /\ (c.op = "readTabStates" => c.gen \in 0..gen)
         => NoFutureRead(p, gen)
  BY <1>1, <1>3 DEF NoFutureRead, n
<1> QED
  BY <1>9, <1>10, <1>11 DEF p

(* A reply is delivered. *)
LEMMA DeliveredReads ==
    ASSUME NEW s, NEW q, NEW rs, IsSeq(rs), rs # <<>>, NEW gen
    PROVE  ReadRows(s, q, rs, gen) =
             ReadRows(s, q, Tail(rs), gen)
             \cup {x \in {Head(rs).rows} : CurrentRead(Head(rs), gen)}
<1> DEFINE n == Len(rs)
           t == Tail(rs)
           reply == Head(rs)
<1>1. PICK S : rs \in Seq(S)
  BY DEF IsSeq
<1>2. /\ n \in Nat \ {0} /\ Len(t) = n - 1 /\ reply = rs[1]
      /\ \A i \in 1..(n - 1) : t[i] = rs[i + 1]
  BY <1>1
<1> HIDE DEF n, t, reply
<1>3. /\ \A i \in 1..n : i = 1 \/ (i - 1 \in 1..(n - 1) /\ (i - 1) + 1 = i)
      /\ \A i \in 1..(n - 1) : i + 1 \in 1..n
      /\ 1 \in 1..n
  BY <1>2
<1>4. \A i \in 1..n : i = 1 \/ rs[i] = t[i - 1]
  BY <1>2, <1>3
<1> DEFINE A == {t[i].rows : i \in {j \in 1..(n - 1) : CurrentRead(t[j], gen)}}
           B == {rs[i].rows : i \in {j \in 1..n : CurrentRead(rs[j], gen)}}
           R == {StoresAlong(s, q)[i].sidecar : i \in {j \in 1..Len(q) : CurrentRead(q[j], gen)}}
<1>5. ReadRows(s, q, rs, gen) = R \cup B /\ ReadRows(s, q, t, gen) = R \cup A
  BY <1>2 DEF ReadRows, n
<1>6. ASSUME NEW x \in A PROVE x \in B
  <2>1. PICK i \in 1..(n - 1) : CurrentRead(t[i], gen) /\ x = t[i].rows
    OBVIOUS
  <2> QED
    BY <1>2, <1>3, <2>1
<1>7. ASSUME NEW x \in B PROVE x \in A \/ (CurrentRead(reply, gen) /\ x = reply.rows)
  <2>1. PICK i \in 1..n : CurrentRead(rs[i], gen) /\ x = rs[i].rows
    OBVIOUS
  <2>2. CASE i = 1
    BY <1>2, <2>1, <2>2
  <2>3. CASE i # 1
    <3>1. i - 1 \in 1..(n - 1) /\ rs[i] = t[i - 1]
      BY <1>3, <1>4, <2>3
    <3> QED
      BY <2>1, <3>1
  <2> QED
    BY <2>2, <2>3
<1>8. CurrentRead(reply, gen) => reply.rows \in B
  BY <1>2, <1>3
<1> HIDE DEF A, B, R
<1>9. ReadRows(s, q, rs, gen) =
        ReadRows(s, q, t, gen) \cup {x \in {reply.rows} : CurrentRead(reply, gen)}
  BY <1>5, <1>6, <1>7, <1>8
<1> QED
  BY <1>9 DEF t, reply

(* A delivered reply owes a read where it answers a clear. *)
LEMMA DeliveredOwes ==
    ASSUME NEW q, NEW rs, IsSeq(rs), rs # <<>>, NEW posted, NEW gen
    PROVE  /\ ReadOwed(posted, q, rs) <=> ReadOwed(posted, q, Tail(rs)) \/ Head(rs).op = "clear"
           /\ NoFutureRead(rs, gen) => NoFutureRead(Tail(rs), gen)
<1> DEFINE n == Len(rs)
           t == Tail(rs)
<1>1. PICK S : rs \in Seq(S)
  BY DEF IsSeq
<1>2. /\ n \in Nat \ {0} /\ Len(t) = n - 1 /\ Head(rs) = rs[1]
      /\ \A i \in 1..(n - 1) : t[i] = rs[i + 1]
  BY <1>1
<1> HIDE DEF n, t
<1>3. /\ \A i \in 1..n : i = 1 \/ (i - 1 \in 1..(n - 1) /\ (i - 1) + 1 = i)
      /\ \A i \in 1..(n - 1) : i + 1 \in 1..n
      /\ 1 \in 1..n
  BY <1>2
<1>4. (\E i \in 1..n : rs[i].op = "clear")
        <=> (\E i \in 1..(n - 1) : t[i].op = "clear") \/ Head(rs).op = "clear"
  <2>1. \A i \in 1..n : i = 1 \/ rs[i] = t[i - 1]
    BY <1>2, <1>3
  <2> QED
    BY <1>2, <1>3, <2>1
<1>5. ReadOwed(posted, q, rs) <=> ReadOwed(posted, q, t) \/ Head(rs).op = "clear"
  BY <1>2, <1>4 DEF ReadOwed, n
<1>6. NoFutureRead(rs, gen) => NoFutureRead(t, gen)
  BY <1>2, <1>3 DEF NoFutureRead, n
<1> QED
  BY <1>5, <1>6 DEF t

(* The oldest call runs: what it read is in its reply. *)
LEMMA RunReads ==
    ASSUME NEW s, NEW q, IsSeq(q), q # <<>>, NEW rs, IsSeq(rs), NEW gen, NEW posted
    PROVE  LET r == RunCall(s, Head(q))
               rs2 == rs \o ReplyTo(r, Head(q))
           IN  /\ ReadRows(r, Tail(q), rs2, gen) = ReadRows(s, q, rs, gen)
               /\ ReadOwed(posted, Tail(q), rs2) <=> ReadOwed(posted, q, rs)
               /\ NoFutureRead(q, gen) /\ NoFutureRead(rs, gen)
                    => NoFutureRead(Tail(q), gen) /\ NoFutureRead(rs2, gen)
<1> DEFINE n == Len(q)
           m == Len(rs)
           t == Tail(q)
           c == Head(q)
           r == RunCall(s, c)
           ans == ReplyTo(r, c)
           rs2 == rs \o ans
           a == StoresAlong(s, q)
           b == StoresAlong(r, t)
<1>1. /\ n \in Nat \ {0} /\ Len(t) = n - 1 /\ c = q[1]
      /\ \A i \in 1..(n - 1) : t[i] = q[i + 1]
      /\ a[1] = r /\ \A i \in 0..(n - 1) : b[i] = a[i + 1]
  BY StepRuns
<1>2. m \in Nat
  BY ConcatSeq
<1>3. CASE c.op \in {"readAll", "readTabStates", "clear"}
  <2> DEFINE x == ans[1]
  <2>1. /\ ans = <<x>> /\ x.op = c.op
        /\ c.op = "readTabStates" => x.gen = c.gen /\ x.rows = r.sidecar
    BY <1>3 DEF ReplyTo, ReadTabStates
  <2> HIDE DEF ans, x
  <2>2. /\ Len(rs2) = m + 1 /\ rs2[m + 1] = x /\ \A i \in 1..m : rs2[i] = rs[i]
    <3>1. rs2 = rs \o <<x>>
      BY <2>1
    <3> HIDE DEF rs2
    <3> QED
      BY <3>1, PostRuns
  <2> HIDE DEF n, m, t, c, r, rs2, a, b
  <2>3. /\ \A i \in 1..(m + 1) : i \in 1..m \/ i = m + 1
        /\ \A i \in 1..m : i \in 1..(m + 1)
        /\ m + 1 \in 1..(m + 1)
    BY <1>2
  <2>4. /\ \A i \in 1..n : i = 1 \/ (i - 1 \in 1..(n - 1) /\ (i - 1) + 1 = i)
        /\ \A i \in 1..(n - 1) : i + 1 \in 1..n /\ i \in 0..(n - 1)
        /\ 1 \in 1..n
    BY <1>1
  <2>5. \A i \in 1..(n - 1) : t[i] = q[i + 1] /\ b[i] = a[i + 1]
    BY <1>1, <2>4
  <2>6. CurrentRead(x, gen) <=> CurrentRead(c, gen)
    BY <2>1 DEF CurrentRead
  <2>7. CurrentRead(x, gen) => x.rows = a[1].sidecar
    BY <1>1, <2>1 DEF CurrentRead
  <2> DEFINE A == {a[i].sidecar : i \in {j \in 1..n : CurrentRead(q[j], gen)}}
             B == {b[i].sidecar : i \in {j \in 1..(n - 1) : CurrentRead(t[j], gen)}}
             C == {rs[i].rows : i \in {j \in 1..m : CurrentRead(rs[j], gen)}}
             D == {rs2[i].rows : i \in {j \in 1..(m + 1) : CurrentRead(rs2[j], gen)}}
  <2>8. ReadRows(s, q, rs, gen) = A \cup C /\ ReadRows(r, t, rs2, gen) = B \cup D
    BY <1>1, <2>2 DEF ReadRows, n, m, a, b
  <2>9. ASSUME NEW y \in A PROVE y \in B \cup D
    <3>1. PICK i \in 1..n : CurrentRead(q[i], gen) /\ y = a[i].sidecar
      OBVIOUS
    <3>2. CASE i = 1
      BY <1>1, <2>2, <2>3, <2>6, <2>7, <3>1, <3>2
    <3>3. CASE i # 1
      <4>1. i - 1 \in 1..(n - 1) /\ t[i - 1] = q[i] /\ b[i - 1] = a[i]
        BY <2>4, <2>5, <3>3
      <4> QED
        BY <3>1, <4>1
    <3> QED
      BY <3>2, <3>3
  <2>10. ASSUME NEW y \in C PROVE y \in D
    <3>1. PICK i \in 1..m : CurrentRead(rs[i], gen) /\ y = rs[i].rows
      OBVIOUS
    <3> QED
      BY <2>2, <2>3, <3>1
  <2>11. ASSUME NEW y \in B PROVE y \in A
    <3>1. PICK i \in 1..(n - 1) : CurrentRead(t[i], gen) /\ y = b[i].sidecar
      OBVIOUS
    <3> QED
      BY <2>4, <2>5, <3>1
  <2>12. ASSUME NEW y \in D PROVE y \in A \cup C
    <3>1. PICK i \in 1..(m + 1) : CurrentRead(rs2[i], gen) /\ y = rs2[i].rows
      OBVIOUS
    <3>2. CASE i \in 1..m
      BY <2>2, <3>1, <3>2
    <3>3. CASE i = m + 1
      BY <1>1, <2>2, <2>4, <2>6, <2>7, <3>1, <3>3
    <3> QED
      BY <2>3, <3>2, <3>3
  <2> HIDE DEF A, B, C, D
  <2>13. ReadRows(r, t, rs2, gen) = ReadRows(s, q, rs, gen)
    BY <2>8, <2>9, <2>10, <2>11, <2>12
  <2>14. ReadOwed(posted, t, rs2) <=> ReadOwed(posted, q, rs)
    <3>1. (\E i \in 1..n : q[i].op = "clear") <=> (\E i \in 1..(n - 1) : t[i].op = "clear") \/ c.op = "clear"
      <4>1. \A i \in 1..n : i = 1 \/ q[i] = t[i - 1]
        BY <2>4, <2>5
      <4> QED
        BY <1>1, <2>4, <2>5, <4>1
    <3>2. (\E i \in 1..(m + 1) : rs2[i].op = "clear") <=> (\E i \in 1..m : rs[i].op = "clear") \/ c.op = "clear"
      BY <2>1, <2>2, <2>3
    <3> QED
      BY <1>1, <2>2, <3>1, <3>2 DEF ReadOwed, n, m
  <2>15. NoFutureRead(q, gen) /\ NoFutureRead(rs, gen) => NoFutureRead(t, gen) /\ NoFutureRead(rs2, gen)
    <3>1. NoFutureRead(q, gen) => NoFutureRead(t, gen) /\ (c.op = "readTabStates" => c.gen \in 0..gen)
      BY <1>1, <2>4, <2>5 DEF NoFutureRead, n
    <3>2. NoFutureRead(rs, gen) /\ (x.op = "readTabStates" => x.gen \in 0..gen) => NoFutureRead(rs2, gen)
      BY <2>2, <2>3 DEF NoFutureRead, m
    <3> QED
      BY <2>1, <3>1, <3>2
  <2> QED
    BY <2>13, <2>14, <2>15 DEF t, r, rs2, c, ans
<1>4. CASE c.op \notin {"readAll", "readTabStates", "clear"}
  <2>1. rs2 = rs
    <3>1. ans = <<>>
      BY <1>4 DEF ReplyTo
    <3>2. PICK S : rs \in Seq(S)
      BY DEF IsSeq
    <3> HIDE DEF ans
    <3> QED
      BY <3>1, <3>2
  <2> HIDE DEF n, t, c, r, ans, rs2, a, b
  <2>4. /\ \A i \in 1..n : i = 1 \/ (i - 1 \in 1..(n - 1) /\ (i - 1) + 1 = i)
        /\ \A i \in 1..(n - 1) : i + 1 \in 1..n /\ i \in 0..(n - 1)
        /\ 1 \in 1..n
    BY <1>1
  <2>5. \A i \in 1..(n - 1) : t[i] = q[i + 1] /\ b[i] = a[i + 1]
    BY <1>1, <2>4
  <2> DEFINE A == {a[i].sidecar : i \in {j \in 1..n : CurrentRead(q[j], gen)}}
             B == {b[i].sidecar : i \in {j \in 1..(n - 1) : CurrentRead(t[j], gen)}}
             C == {rs[i].rows : i \in {j \in 1..Len(rs) : CurrentRead(rs[j], gen)}}
  <2>8. ReadRows(s, q, rs, gen) = A \cup C /\ ReadRows(r, t, rs2, gen) = B \cup C
    BY <1>1, <2>1 DEF ReadRows, n, a, b
  <2>9. ASSUME NEW y \in A PROVE y \in B
    <3>1. PICK i \in 1..n : CurrentRead(q[i], gen) /\ y = a[i].sidecar
      OBVIOUS
    <3>2. i # 1
      BY <1>1, <1>4, <3>1 DEF CurrentRead
    <3>3. i - 1 \in 1..(n - 1) /\ t[i - 1] = q[i] /\ b[i - 1] = a[i]
      BY <2>4, <2>5, <3>2
    <3> QED
      BY <3>1, <3>3
  <2>11. ASSUME NEW y \in B PROVE y \in A
    <3>1. PICK i \in 1..(n - 1) : CurrentRead(t[i], gen) /\ y = b[i].sidecar
      OBVIOUS
    <3> QED
      BY <2>4, <2>5, <3>1
  <2> HIDE DEF A, B, C
  <2>13. ReadRows(r, t, rs2, gen) = ReadRows(s, q, rs, gen)
    BY <2>8, <2>9, <2>11
  <2>14. ReadOwed(posted, t, rs2) <=> ReadOwed(posted, q, rs)
    <3>1. (\E i \in 1..n : q[i].op = "clear") <=> (\E i \in 1..(n - 1) : t[i].op = "clear")
      <4>1. \A i \in 1..n : i = 1 \/ q[i] = t[i - 1]
        BY <2>4, <2>5
      <4> QED
        BY <1>1, <1>4, <2>4, <2>5, <4>1
    <3> QED
      BY <1>1, <2>1, <3>1 DEF ReadOwed, n
  <2>15. NoFutureRead(q, gen) => NoFutureRead(t, gen)
    BY <1>1, <2>4, <2>5 DEF NoFutureRead, n
  <2> QED
    BY <2>1, <2>13, <2>14, <2>15 DEF t, r, rs2, c, ans
<1> QED
  BY <1>3, <1>4

(* A clear makes every read stale. *)
LEMMA ClearedReads ==
    ASSUME NEW s, NEW q, NEW rs, NEW gen \in Nat, NoFutureRead(q, gen), NoFutureRead(rs, gen)
    PROVE  /\ ReadRows(s, q, rs, gen + 1) = {}
           /\ NoFutureRead(q, gen + 1) /\ NoFutureRead(rs, gen + 1)
<1>1. \A k \in 0..gen : k # gen + 1 /\ k \in 0..(gen + 1)
  OBVIOUS
<1>2. /\ \A i \in 1..Len(q) : ~CurrentRead(q[i], gen + 1)
      /\ \A i \in 1..Len(rs) : ~CurrentRead(rs[i], gen + 1)
  BY <1>1 DEF CurrentRead, NoFutureRead
<1> QED
  BY <1>1, <1>2 DEF ReadRows, NoFutureRead

(* What a call does to the sidecar. *)
LEMMA SidecarAfter ==
    ASSUME NEW st, StoreOK(st), NEW c, CallOK(c)
    PROVE  /\ c.op \in {"append", "readAll", "readTabStates"} =>
                 RunCall(st, c).sidecar = st.sidecar
           /\ c.op = "upsert" => RunCall(st, c).sidecar = Put(st.sidecar, c.uid, c.row)
           /\ c.op = "clear" => Closed(RunCall(st, c).sidecar) \subseteq Closed(st.sidecar)
<1>1. ASSUME c.op = "append" PROVE RunCall(st, c).sidecar = st.sidecar
  <2>1. \A v : [st EXCEPT !.visits = v].sidecar = st.sidecar
    BY DEF StoreOK
  <2> QED
    BY <1>1, <2>1 DEF RunCall, AppendVisit
<1>2. ASSUME c.op \in {"readAll", "readTabStates"} PROVE RunCall(st, c).sidecar = st.sidecar
  BY <1>2 DEF RunCall
<1>3. ASSUME c.op = "upsert" PROVE RunCall(st, c).sidecar = Put(st.sidecar, c.uid, c.row)
  <2>1. \A v : [st EXCEPT !.sidecar = v].sidecar = v
    BY DEF StoreOK
  <2>2. RunCall(st, c) = [st EXCEPT !.sidecar = Put(st.sidecar, c.uid, c.row)]
    BY <1>3 DEF RunCall, UpsertTabState
  <2> QED
    BY <2>1, <2>2
<1>4. ASSUME c.op = "clear" PROVE Closed(RunCall(st, c).sidecar) \subseteq Closed(st.sidecar)
  <2> DEFINE P == {i \in 1..Len(st.visits) : ~(c.begin <= st.visits[i].at /\ st.visits[i].at < c.end)}
             kept == ElementsAt(st.visits, P)
             referred == {kept[i].uid : i \in DOMAIN kept} \ {NoUid}
             K == {k \in DOMAIN st.sidecar : ~st.sidecar[k].closed \/ k \in referred}
             sidecar == [k \in K |-> st.sidecar[k]]
  <2>1. RunCall(st, c) = [visits |-> kept, sidecar |-> sidecar]
    BY <1>4 DEF RunCall, ClearForBrowsingDataRemoval, RestrictDomain, Restrict
  <2>2. K \subseteq DOMAIN st.sidecar
    OBVIOUS
  <2> HIDE DEF K, kept
  <2>3. Closed(sidecar) \subseteq Closed(st.sidecar)
    BY <2>2 DEF Closed
  <2> HIDE DEF sidecar
  <2> QED
    BY <2>1, <2>3
<1> QED
  BY <1>1, <1>2, <1>3, <1>4

(* A tab is closed: its row and its record agree. *)
LEMMA ClosingKeeps ==
    ASSUME NEW side, NEW reads, NEW cache, NEW recent, NEW u, NEW url,
           Sound(side, reads, cache, recent)
    PROVE  LET side2 == Put(side, u, [closed |-> TRUE, url |-> url])
               cache2 == Put(cache, u, url)
           IN  /\ Sound(side2, reads, cache2, recent \ {u})
               /\ Covered(side, reads, cache) => Covered(side2, reads, cache2)
<1> DEFINE side2 == Put(side, u, [closed |-> TRUE, url |-> url])
           cache2 == Put(cache, u, url)
<1>1. /\ DOMAIN side2 = DOMAIN side \cup {u}
      /\ side2[u] = [closed |-> TRUE, url |-> url]
      /\ \A x \in DOMAIN side : x # u => side2[x] = side[x]
  BY DEF Put
<1>2. /\ DOMAIN cache2 = DOMAIN cache \cup {u} /\ cache2[u] = url
      /\ \A x \in DOMAIN cache : x # u => cache2[x] = cache[x]
  BY DEF Put
<1>3. side2[u].closed /\ side2[u].url = url
  BY <1>1
<1> HIDE DEF side2, cache2
<1>4. Closed(side2) = Closed(side) \cup {u}
  BY <1>1, <1>3 DEF Closed
<1>5. \A x \in Closed(side) : x # u => side2[x] = side[x]
  BY <1>1 DEF Closed
<1>6. Backed(side2, cache2)
  BY <1>2, <1>3, <1>4, <1>5 DEF Sound, Backed
<1>7. ReadsAreFresh(side2, reads, cache2, recent \ {u})
  <2> SUFFICES ASSUME NEW rows \in reads, NEW x \in Closed(rows),
                      x \notin recent \ {u}, x \notin DOMAIN cache2
               PROVE  x \in Closed(side2) /\ side2[x] = rows[x]
    BY DEF ReadsAreFresh
  <2>1. x # u /\ x \notin recent \cup DOMAIN cache
    BY <1>2
  <2> QED
    BY <1>4, <1>5, <2>1 DEF Sound, ReadsAreFresh
<1>8. Closed(side2) \cap (recent \ {u}) = {}
  BY <1>4 DEF Sound
<1>9. Covered(side, reads, cache) => Covered(side2, reads, cache2)
  BY <1>2, <1>4 DEF Covered
<1> QED
  BY <1>6, <1>7, <1>8, <1>9 DEF Sound, side2, cache2

(* A closed tab is reopened: its row is open, its record gone, its tombstone set. *)
LEMMA ReopeningKeeps ==
    ASSUME NEW side, NEW reads, NEW cache, NEW recent, NEW u, NEW url,
           Sound(side, reads, cache, recent)
    PROVE  LET side2 == Put(side, u, [closed |-> FALSE, url |-> url])
               cache2 == Restrict(cache, DOMAIN cache \ {u})
           IN  /\ Sound(side2, reads, cache2, recent \cup {u})
               /\ Covered(side, reads, cache) => Covered(side2, reads, cache2)
<1> DEFINE side2 == Put(side, u, [closed |-> FALSE, url |-> url])
           cache2 == Restrict(cache, DOMAIN cache \ {u})
<1>1. /\ DOMAIN side2 = DOMAIN side \cup {u}
      /\ side2[u] = [closed |-> FALSE, url |-> url]
      /\ \A x \in DOMAIN side : x # u => side2[x] = side[x]
  BY DEF Put
<1>2. /\ DOMAIN cache2 = DOMAIN cache \ {u}
      /\ \A x \in DOMAIN cache : x # u => cache2[x] = cache[x]
  BY DEF Restrict
<1>3. ~side2[u].closed
  BY <1>1
<1> HIDE DEF side2, cache2
<1>4. Closed(side2) = Closed(side) \ {u}
  BY <1>1, <1>3 DEF Closed
<1>5. \A x \in Closed(side) : x # u => side2[x] = side[x]
  BY <1>1 DEF Closed
<1>6. Backed(side2, cache2)
  BY <1>2, <1>4, <1>5 DEF Sound, Backed
<1>7. ReadsAreFresh(side2, reads, cache2, recent \cup {u})
  <2> SUFFICES ASSUME NEW rows \in reads, NEW x \in Closed(rows),
                      x \notin recent \cup {u}, x \notin DOMAIN cache2
               PROVE  x \in Closed(side2) /\ side2[x] = rows[x]
    BY DEF ReadsAreFresh
  <2>1. x # u /\ x \notin recent \cup DOMAIN cache
    BY <1>2
  <2> QED
    BY <1>4, <1>5, <2>1 DEF Sound, ReadsAreFresh
<1>8. Closed(side2) \cap (recent \cup {u}) = {}
  BY <1>4 DEF Sound
<1>9. Covered(side, reads, cache) => Covered(side2, reads, cache2)
  BY <1>2, <1>4 DEF Covered
<1> QED
  BY <1>6, <1>7, <1>8, <1>9 DEF Sound, side2, cache2

(* A read that is believed fills the cache. *)
LEMMA LoadingKeeps ==
    ASSUME NEW side, NEW reads, NEW rows, NEW cache, NEW recent,
           Sound(side, reads \cup {rows}, cache, recent), NEW cache2,
           DOMAIN cache2 = DOMAIN cache \cup (Closed(rows) \ recent),
           \A u \in DOMAIN cache : cache2[u] = cache[u],
           \A u \in (Closed(rows) \ recent) \ DOMAIN cache : cache2[u] = rows[u].url
    PROVE  /\ Sound(side, reads, cache2, recent)
           /\ Covered(side, reads \cup {rows}, cache) => Covered(side, reads, cache2)
<1>2. Backed(side, cache2)
  <2> SUFFICES ASSUME NEW u \in DOMAIN cache2 PROVE u \in Closed(side) /\ side[u].url = cache2[u]
    BY DEF Backed
  <2>1. CASE u \in DOMAIN cache
    BY <2>1 DEF Sound, Backed
  <2>2. CASE u \notin DOMAIN cache
    <3>1. u \in Closed(rows) \ (recent \cup DOMAIN cache)
      BY <2>2
    <3>2. u \in Closed(side) /\ side[u] = rows[u]
      BY <3>1 DEF Sound, ReadsAreFresh
    <3> QED
      BY <3>1, <3>2
  <2> QED
    BY <2>1, <2>2
<1>3. ReadsAreFresh(side, reads, cache2, recent)
  BY DEF Sound, ReadsAreFresh
<1>4. Covered(side, reads \cup {rows}, cache) => Covered(side, reads, cache2)
  <2> SUFFICES ASSUME Covered(side, reads \cup {rows}, cache), NEW u \in Closed(side)
               PROVE  u \in DOMAIN cache2 \cup UNION {Closed(r) : r \in reads}
    BY DEF Covered
  <2>1. u \notin recent
    BY DEF Sound
  <2>2. CASE u \in DOMAIN cache
    BY <2>2
  <2>3. CASE u \in Closed(rows)
    BY <2>1, <2>3
  <2>4. CASE \E r \in reads : u \in Closed(r)
    BY <2>4
  <2> QED
    BY <2>2, <2>3, <2>4 DEF Covered
<1> QED
  BY <1>2, <1>3, <1>4 DEF Sound

(* A read posted now finds the sidecar as it will be. *)
LEMMA ReadingKeeps ==
    ASSUME NEW side, NEW reads, NEW cache, NEW recent, Sound(side, reads, cache, recent)
    PROVE  /\ Sound(side, reads \cup {side}, cache, recent)
           /\ Covered(side, reads \cup {side}, cache)
<1>1. ReadsAreFresh(side, reads \cup {side}, cache, recent)
  BY DEF Sound, ReadsAreFresh
<1>2. side \in reads \cup {side}
  OBVIOUS
<1>3. Covered(side, reads \cup {side}, cache)
  BY <1>2 DEF Covered
<1> QED
  BY <1>1, <1>3 DEF Sound

CacheFacts(s, q, rs, gen, posted, cache, recent) ==
    LET side == Drained(s, q).sidecar
        reads == ReadRows(s, q, rs, gen)
    IN  /\ NoFutureRead(q, gen) /\ NoFutureRead(rs, gen)
        /\ Sound(side, reads, cache, recent)
        /\ ReadOwed(posted, q, rs) \/ Covered(side, reads, cache)

(* The inductive invariant. *)
CacheInv ==
    CacheFacts(store, queue, replies, generation, loadPosted, reopenable, recentlyReopened)

(* A process that starts has nothing cached and a read to post. *)
LEMMA FreshCache ==
    ASSUME NEW s, NEW gen
    PROVE  CacheFacts(s, <<>>, <<>>, gen, TRUE, EmptyFunction, {})
<1>1. Len(<<>>) = 0 /\ DOMAIN EmptyFunction = {} /\ 1..0 = {}
  BY DEF EmptyFunction
<1>2. ReadRows(s, <<>>, <<>>, gen) = {}
  BY <1>1 DEF ReadRows
<1>3. NoFutureRead(<<>>, gen) /\ ReadOwed(TRUE, <<>>, <<>>)
  BY <1>1 DEF NoFutureRead, ReadOwed
<1> QED
  BY <1>1, <1>2, <1>3 DEF CacheFacts, Sound, Backed, ReadsAreFresh

(* A call that neither writes nor reads the sidecar. *)
LEMMA PostOther ==
    ASSUME NEW s, StoreOK(s), NEW q, CallsOK(q), NEW rs, NEW gen, NEW posted, NEW cache,
           NEW recent, NEW c, CallOK(c), c.op \in {"append", "readAll"},
           CacheFacts(s, q, rs, gen, posted, cache, recent)
    PROVE  CacheFacts(s, q \o <<c>>, rs, gen, posted, cache, recent)
<1> DEFINE p == q \o <<c>>
<1>1. IsSeq(q) /\ StoreOK(Drained(s, q))
  BY RunsOK DEF CallsOK
<1>2. Drained(s, p) = RunCall(Drained(s, q), c)
  BY <1>1, PostRuns
<1>3. Drained(s, p).sidecar = Drained(s, q).sidecar
  BY <1>1, <1>2, SidecarAfter
<1>4. ~CurrentRead(c, gen) /\ c.op # "readTabStates" /\ c.op # "clear"
  BY DEF CurrentRead
<1>5. /\ ReadRows(s, p, rs, gen) = ReadRows(s, q, rs, gen)
      /\ ReadOwed(posted, q, rs) <=> ReadOwed(posted, p, rs)
      /\ NoFutureRead(q, gen) => NoFutureRead(p, gen)
  BY <1>1, <1>4, PostedReads
<1> HIDE DEF p
<1> QED
  BY <1>3, <1>5 DEF CacheFacts, p

(* The row of a tab that is closed, with the record of it. *)
LEMMA PostClosed ==
    ASSUME NEW s, StoreOK(s), NEW q, CallsOK(q), NEW rs, NEW gen, NEW posted, NEW cache,
           NEW recent, NEW u, NEW url, CallOK(SetTabState(u, TRUE, url)),
           CacheFacts(s, q, rs, gen, posted, cache, recent)
    PROVE  CacheFacts(s, q \o <<SetTabState(u, TRUE, url)>>, rs, gen, posted,
                      Put(cache, u, url), recent \ {u})
<1> DEFINE c == SetTabState(u, TRUE, url)
           p == q \o <<c>>
           row == [closed |-> TRUE, url |-> url]
<1>1. IsSeq(q) /\ StoreOK(Drained(s, q))
  BY RunsOK DEF CallsOK
<1>2. c.op = "upsert" /\ c.uid = u /\ c.row = row
  BY DEF SetTabState
<1> HIDE DEF c
<1>3. Drained(s, p) = RunCall(Drained(s, q), c)
  BY <1>1, PostRuns
<1>4. Drained(s, p).sidecar = Put(Drained(s, q).sidecar, u, row)
  <2>1. CallOK(c)
    BY DEF c
  <2> HIDE DEF row
  <2> QED
    BY <1>1, <1>2, <1>3, <2>1, SidecarAfter
<1>5. ~CurrentRead(c, gen) /\ c.op # "readTabStates" /\ c.op # "clear"
  BY <1>2 DEF CurrentRead
<1>6. /\ ReadRows(s, p, rs, gen) = ReadRows(s, q, rs, gen)
      /\ ReadOwed(posted, q, rs) <=> ReadOwed(posted, p, rs)
      /\ NoFutureRead(q, gen) => NoFutureRead(p, gen)
  BY <1>1, <1>5, PostedReads
<1> HIDE DEF p
<1>7. CacheFacts(s, p, rs, gen, posted, Put(cache, u, url), recent \ {u})
  BY <1>4, <1>6, ClosingKeeps DEF CacheFacts
<1> QED
  BY <1>7 DEF p, c

(* The row of a tab that is reopened, with the record dropped. *)
LEMMA PostOpen ==
    ASSUME NEW s, StoreOK(s), NEW q, CallsOK(q), NEW rs, NEW gen, NEW posted, NEW cache,
           NEW recent, NEW u, NEW url, CallOK(SetTabState(u, FALSE, url)),
           CacheFacts(s, q, rs, gen, posted, cache, recent)
    PROVE  CacheFacts(s, q \o <<SetTabState(u, FALSE, url)>>, rs, gen, posted,
                      Restrict(cache, DOMAIN cache \ {u}), recent \cup {u})
<1> DEFINE c == SetTabState(u, FALSE, url)
           p == q \o <<c>>
           row == [closed |-> FALSE, url |-> url]
<1>1. IsSeq(q) /\ StoreOK(Drained(s, q))
  BY RunsOK DEF CallsOK
<1>2. c.op = "upsert" /\ c.uid = u /\ c.row = row
  BY DEF SetTabState
<1> HIDE DEF c
<1>3. Drained(s, p) = RunCall(Drained(s, q), c)
  BY <1>1, PostRuns
<1>4. Drained(s, p).sidecar = Put(Drained(s, q).sidecar, u, row)
  <2>1. CallOK(c)
    BY DEF c
  <2> HIDE DEF row
  <2> QED
    BY <1>1, <1>2, <1>3, <2>1, SidecarAfter
<1>5. ~CurrentRead(c, gen) /\ c.op # "readTabStates" /\ c.op # "clear"
  BY <1>2 DEF CurrentRead
<1>6. /\ ReadRows(s, p, rs, gen) = ReadRows(s, q, rs, gen)
      /\ ReadOwed(posted, q, rs) <=> ReadOwed(posted, p, rs)
      /\ NoFutureRead(q, gen) => NoFutureRead(p, gen)
  BY <1>1, <1>5, PostedReads
<1> HIDE DEF p
<1>7. CacheFacts(s, p, rs, gen, posted, Restrict(cache, DOMAIN cache \ {u}), recent \cup {u})
  BY <1>4, <1>6, ReopeningKeeps DEF CacheFacts
<1> QED
  BY <1>7 DEF p, c

(* A read of the sidecar: from here on nothing is owed. *)
LEMMA PostRead ==
    ASSUME NEW s, StoreOK(s), NEW q, CallsOK(q), NEW rs, NEW gen \in Nat, NEW posted, NEW cache,
           NEW recent, NoFutureRead(q, gen), NoFutureRead(rs, gen),
           Sound(Drained(s, q).sidecar, ReadRows(s, q, rs, gen), cache, recent)
    PROVE  CacheFacts(s, q \o <<GetAllTabStates(gen)>>, rs, gen, posted, cache, recent)
<1> DEFINE c == GetAllTabStates(gen)
           p == q \o <<c>>
<1>1. IsSeq(q) /\ StoreOK(Drained(s, q))
  BY RunsOK DEF CallsOK
<1>2. c.op = "readTabStates" /\ c.gen = gen /\ CallOK(c)
  BY DEF GetAllTabStates, CallOK
<1> HIDE DEF c
<1>3. Drained(s, p) = RunCall(Drained(s, q), c)
  BY <1>1, PostRuns
<1>4. Drained(s, p).sidecar = Drained(s, q).sidecar
  BY <1>1, <1>2, <1>3, SidecarAfter
<1>5. CurrentRead(c, gen) /\ c.gen \in 0..gen
  BY <1>2 DEF CurrentRead
<1>6. /\ ReadRows(s, p, rs, gen) = ReadRows(s, q, rs, gen) \cup {Drained(s, q).sidecar}
      /\ NoFutureRead(p, gen)
  BY <1>1, <1>5, PostedReads
<1> HIDE DEF p
<1>7. CacheFacts(s, p, rs, gen, posted, cache, recent)
  BY <1>4, <1>6, ReadingKeeps DEF CacheFacts
<1> QED
  BY <1>7 DEF p, c

(* A clear of browsing data: the cache is emptied, the reads are stale, one is owed. *)
LEMMA PostClear ==
    ASSUME NEW s, StoreOK(s), NEW q, CallsOK(q), NEW rs, NEW gen \in Nat, NEW posted, NEW cache,
           NEW recent, NEW c, CallOK(c), c.op = "clear",
           CacheFacts(s, q, rs, gen, posted, cache, recent)
    PROVE  CacheFacts(s, q \o <<c>>, rs, gen + 1, posted, EmptyFunction, recent)
<1> DEFINE p == q \o <<c>>
<1>1. IsSeq(q) /\ StoreOK(Drained(s, q))
  BY RunsOK DEF CallsOK
<1>2. Drained(s, p) = RunCall(Drained(s, q), c)
  BY <1>1, PostRuns
<1>3. Closed(Drained(s, p).sidecar) \subseteq Closed(Drained(s, q).sidecar)
  BY <1>1, <1>2, SidecarAfter
<1>4. ~CurrentRead(c, gen + 1) /\ c.op # "readTabStates"
  BY DEF CurrentRead
<1>5. /\ ReadRows(s, q, rs, gen + 1) = {}
      /\ NoFutureRead(q, gen + 1) /\ NoFutureRead(rs, gen + 1)
  BY ClearedReads DEF CacheFacts
<1>6. /\ ReadRows(s, p, rs, gen + 1) = {}
      /\ ReadOwed(posted, p, rs)
      /\ NoFutureRead(p, gen + 1)
  BY <1>1, <1>4, <1>5, PostedReads
<1> HIDE DEF p
<1>7. Sound(Drained(s, p).sidecar, {}, EmptyFunction, recent)
  <2>1. DOMAIN EmptyFunction = {}
    BY DEF EmptyFunction
  <2>2. Closed(Drained(s, q).sidecar) \cap recent = {}
    BY DEF CacheFacts, Sound
  <2> QED
    BY <1>3, <2>1, <2>2 DEF Sound, Backed, ReadsAreFresh
<1>8. CacheFacts(s, p, rs, gen + 1, posted, EmptyFunction, recent)
  BY <1>5, <1>6, <1>7 DEF CacheFacts
<1> QED
  BY <1>8 DEF p

(* Bringing a tab to the front. *)
LEMMA LandKeepsCache ==
    ASSUME CInv, CacheInv, NEW uid, NEW how, Land(uid, how)
    PROVE  LET q == queue \o RebindCalls(uid, how)
           IN  /\ CallsOK(q)
               /\ CacheFacts(store, q, replies, generation, loadPosted, reopenable',
                             recentlyReopened')
<1>0. StoreOK(store) /\ CallsOK(queue) /\ CallsOK(RebindCalls(uid, how))
  BY LandKeeps DEF CInv
<1>1. CallsOK(queue \o RebindCalls(uid, how))
  BY <1>0, BothOK
<1>2. CASE Reopens(uid, how)
  <2>1. /\ reopenable' = Restrict(reopenable, DOMAIN reopenable \ {uid})
        /\ recentlyReopened' = recentlyReopened \cup {uid}
    BY <1>2 DEF Land
  <2>2. RebindCalls(uid, how) = <<SetTabState(uid, FALSE, reopenable[uid])>>
    BY <1>2 DEF RebindCalls
  <2>3. CallOK(SetTabState(uid, FALSE, reopenable[uid]))
    <3>1. uid \in Uid /\ reopenable[uid] \in TabUrl
      BY <1>2 DEF Reopens, CInv, CacheOK
    <3> QED
      BY <3>1 DEF CallOK, SetTabState, Row
  <2> QED
    BY <1>0, <1>1, <2>1, <2>2, <2>3, PostOpen DEF CacheInv
<1>3. CASE ~Reopens(uid, how)
  <2>1. reopenable' = reopenable /\ recentlyReopened' = recentlyReopened
    BY <1>3 DEF Land
  <2>2. queue \o RebindCalls(uid, how) = queue
    <3>1. RebindCalls(uid, how) = <<>>
      BY <1>3 DEF RebindCalls
    <3>2. PICK S : queue \in Seq(S)
      BY <1>0 DEF CallsOK, IsSeq
    <3> QED
      BY <3>1, <3>2
  <2> QED
    BY <1>0, <2>1, <2>2 DEF CacheInv
<1> QED
  BY <1>2, <1>3

(* A handler that leaves the cache and the queues alone. *)
LEMMA CacheUnchanged ==
    ASSUME CacheInv, UNCHANGED <<store, queue, replies, generation, loadPosted, reopenable,
                                 recentlyReopened>>
    PROVE  CacheInv'
BY DEF CacheInv

(* A visit behind what is posted, or nothing. *)
LEMMA VisitPosted ==
    ASSUME CInv, NEW q, CallsOK(q), NEW cache, NEW recent, NEW uid \in Uid, NEW gen \in Nat,
           CacheFacts(store, q, replies, generation, loadPosted, cache, recent)
    PROVE  CacheFacts(store, q \o <<RecordVisit(uid, gen)>>, replies, generation, loadPosted,
                      cache, recent)
<1>1. now \in Nat /\ StoreOK(store)
  BY DEF CInv, ClockOK
<1>2. CallOK(RecordVisit(uid, gen)) /\ RecordVisit(uid, gen).op = "append"
  BY <1>1 DEF CallOK, RecordVisit
<1> QED
  BY <1>1, <1>2, PostOther

(* The end of a gesture. *)
LEMMA SettleKeepsCache ==
    ASSUME CInv, CacheInv, NEW how, Settle(how)
    PROVE  CacheInv'
<1>0. store' = store /\ replies' = replies /\ loadPosted' = loadPosted
  BY DEF Settle, loadVars
<1>1. CASE HasCurrent(controller) /\ Current(controller) # anchor
  <2> DEFINE uid == Current(controller)
             found == uid \in Live \/ Reopens(uid, how)
             visit == IF found /\ SettledUrl(uid, how) \in Url
                      THEN <<RecordVisit(uid, gestureGeneration)>> ELSE <<>>
             rebind == RebindCalls(uid, how)
             q == queue \o rebind
  <2>1. Land(uid, how) /\ queue' = queue \o (rebind \o visit) /\ generation' = generation
    BY <1>1 DEF Settle, Land, Post
  <2>2. /\ CallsOK(q)
        /\ CacheFacts(store, q, replies, generation, loadPosted, reopenable', recentlyReopened')
    BY <2>1, LandKeepsCache
  <2>3. CallsOK(queue) /\ CallsOK(rebind) /\ (found => uid \in Uid)
    BY <2>1, LandKeeps DEF CInv
  <2>4. gestureGeneration \in Nat
    BY DEF CInv, GestureOK
  <2> HIDE DEF rebind, uid, found
  <2>5. CASE found /\ SettledUrl(uid, how) \in Url
    <3> DEFINE v == RecordVisit(uid, gestureGeneration)
    <3>1. visit = <<v>>
      BY <2>5
    <3>2. queue' = q \o <<v>>
      <4>1. PICK S : queue \in Seq(S)
        BY <2>3 DEF CallsOK, IsSeq
      <4>2. PICK T : rebind \in Seq(T)
        BY <2>3 DEF CallsOK, IsSeq
      <4> HIDE DEF v, visit
      <4>3. /\ queue \in Seq(S \cup T \cup {v}) /\ rebind \in Seq(S \cup T \cup {v})
            /\ <<v>> \in Seq(S \cup T \cup {v})
        BY <4>1, <4>2
      <4> QED
        BY <2>1, <3>1, <4>3, ConcatAssociative
    <3>3. CacheFacts(store, q \o <<v>>, replies, generation, loadPosted, reopenable', recentlyReopened')
      <4> HIDE DEF q
      <4> QED
        BY <2>2, <2>3, <2>4, <2>5, VisitPosted
    <3> QED
      BY <1>0, <2>1, <3>2, <3>3 DEF CacheInv
  <2>6. CASE ~(found /\ SettledUrl(uid, how) \in Url)
    <3>1. rebind \o visit = rebind
      <4>1. visit = <<>>
        BY <2>6
      <4>2. PICK T : rebind \in Seq(T)
        BY <2>3 DEF CallsOK, IsSeq
      <4> HIDE DEF visit
      <4> QED
        BY <4>1, <4>2
    <3> QED
      BY <1>0, <2>1, <2>2, <3>1 DEF CacheInv
  <2> QED
    BY <2>5, <2>6
<1>2. CASE ~(HasCurrent(controller) /\ Current(controller) # anchor)
  <2>1. UNCHANGED <<reopenVars, queue>>
    BY <1>2 DEF Settle
  <2> QED
    BY <1>0, <2>1, CacheUnchanged DEF reopenVars
<1> QED
  BY <1>1, <1>2

(* What the user does. *)
LEMMA UserStepKeepsCache ==
    ASSUME CInv, CacheInv, UserStep
    PROVE  CacheInv'
<1>0. StoreOK(store) /\ CallsOK(queue) /\ generation \in Nat
  BY DEF CInv, CacheOK
<1>1. ASSUME NEW uid \in Uid, NEW url \in InsertUrl, NEW fg \in BOOLEAN,
             InsertTab(uid, url, fg)
      PROVE  CacheInv'
  BY <1>1, CacheUnchanged DEF InsertTab, reopenVars, loadVars, storeVars
<1>2. ASSUME NEW uid \in Uid, SelectTab(uid)
      PROVE  CacheInv'
  <2>1. UNCHANGED <<store, replies, generation, loadPosted, reopenable, recentlyReopened>>
    BY <1>2 DEF SelectTab, reopenVars, loadVars
  <2>2. CASE BridgeCommits /\ tabs[uid] \in Url
    <3>1. queue' = queue \o <<RecordVisit(uid, generation)>>
      BY <1>2, <2>2 DEF SelectTab, Post
    <3>2. CacheFacts(store, queue \o <<RecordVisit(uid, generation)>>, replies, generation,
                     loadPosted, reopenable, recentlyReopened)
      BY <1>0, VisitPosted DEF CacheInv
    <3> QED
      BY <2>1, <3>1, <3>2 DEF CacheInv
  <2>3. CASE ~(BridgeCommits /\ tabs[uid] \in Url)
    <3>1. queue' = queue \/ queue' = queue \o <<>>
      BY <1>2, <2>3 DEF SelectTab, Post
    <3>2. PICK S : queue \in Seq(S)
      BY <1>0 DEF CallsOK, IsSeq
    <3>3. queue' = queue
      BY <3>1, <3>2
    <3> QED
      BY <2>1, <3>3, CacheUnchanged
  <2> QED
    BY <2>2, <2>3
<1>3. ASSUME NEW uid \in Uid, NEW successor \in Uid \cup {NoUid}, CloseTab(uid, successor)
      PROVE  CacheInv'
  <2>1. uid \in Live /\ tabs[uid] \in TabUrl
    BY <1>3 DEF CloseTab, CInv, TabsOK
  <2>2. CallOK(SetTabState(uid, TRUE, tabs[uid]))
    BY <2>1 DEF CallOK, SetTabState, Row
  <2>3. /\ queue' = queue \o <<SetTabState(uid, TRUE, tabs[uid])>>
        /\ reopenable' = Put(reopenable, uid, tabs[uid])
        /\ recentlyReopened' = recentlyReopened \ {uid}
        /\ UNCHANGED <<store, replies, generation, loadPosted>>
    BY <1>3 DEF CloseTab, Post, loadVars
  <2>4. CacheFacts(store, queue \o <<SetTabState(uid, TRUE, tabs[uid])>>, replies, generation,
                   loadPosted, Put(reopenable, uid, tabs[uid]), recentlyReopened \ {uid})
    BY <1>0, <2>2, PostClosed DEF CacheInv
  <2> QED
    BY <2>3, <2>4 DEF CacheInv
<1>4. ASSUME NEW uid \in Uid, NEW url \in Url, Navigate(uid, url)
      PROVE  CacheInv'
  BY <1>4, CacheUnchanged DEF Navigate, reopenVars, loadVars, storeVars
<1>5. CASE SetReopenClosed
  BY <1>5, CacheUnchanged DEF SetReopenClosed, reopenVars, loadVars, storeVars
<1>6. ASSUME NEW c, NEW how, Gesture(c, how)
      PROVE  CacheInv'
  <2>1. /\ Land(Current(c), how) /\ queue' = queue \o RebindCalls(Current(c), how)
        /\ UNCHANGED <<store, replies, generation, loadPosted>>
    BY <1>6 DEF Gesture, Land, Post, loadVars
  <2>2. CacheFacts(store, queue \o RebindCalls(Current(c), how), replies, generation,
                   loadPosted, reopenable', recentlyReopened')
    BY <2>1, LandKeepsCache
  <2> QED
    BY <2>1, <2>2 DEF CacheInv
<1>7. ASSUME NEW how \in ReopenOutcomes, StepBack(how) \/ StepForward(how)
      PROVE  CacheInv'
  BY <1>6, <1>7 DEF StepBack, StepForward
<1>8. ASSUME NEW how \in ReopenOutcomes, ReleaseChord(how)
      PROVE  CacheInv'
  BY <1>8, SettleKeepsCache DEF ReleaseChord
<1>9. CASE CancelGesture
  BY <1>9, CacheUnchanged DEF CancelGesture, reopenVars, loadVars, storeVars
<1>10. ASSUME NEW begin \in 0..MaxTime, NEW end \in 1..(MaxTime + 1),
              ClearBrowsingData(begin, end)
       PROVE  CacheInv'
  <2> DEFINE c == ClearCall(begin, end, generation + 1)
  <2>1. /\ queue' = queue \o <<c>> /\ generation' = generation + 1
        /\ reopenable' = EmptyFunction
        /\ UNCHANGED <<store, replies, loadPosted, recentlyReopened>>
    BY <1>10 DEF ClearBrowsingData, PrepareForBrowsingDataClear, Post, loadVars
  <2>2. CallOK(c) /\ c.op = "clear"
    <3>1. begin \in Nat /\ end \in Nat /\ generation + 1 \in Nat
      BY <1>0, TabVisitAssumption
    <3> QED
      BY <3>1 DEF CallOK, ClearCall
  <2> HIDE DEF c
  <2>3. CacheFacts(store, queue \o <<c>>, replies, generation + 1, loadPosted, EmptyFunction,
                   recentlyReopened)
    BY <1>0, <2>2, PostClear DEF CacheInv
  <2> QED
    BY <2>1, <2>3 DEF CacheInv
<1> QED
  BY <1>1, <1>2, <1>3, <1>4, <1>5, <1>7, <1>8, <1>9, <1>10 DEF UserStep

(* Two calls posted at once are posted one after the other. *)
LEMMA TwoInARow ==
    ASSUME NEW x, NEW y
    PROVE  <<x, y>> = <<x>> \o <<y>>
<1>1. <<x>> \in Seq({x, y}) /\ <<y>> \in Seq({x, y}) /\ <<x, y>> \in Seq({x, y})
  OBVIOUS
<1>2. /\ <<x>> \o <<y>> \in Seq({x, y}) /\ Len(<<x>> \o <<y>>) = 2
      /\ (<<x>> \o <<y>>)[1] = x /\ (<<x>> \o <<y>>)[2] = y
  BY <1>1
<1>3. \A i \in 1..2 : <<x, y>>[i] = (<<x>> \o <<y>>)[i]
  BY <1>2
<1> QED
  BY <1>1, <1>2, <1>3, SeqEqual

(* What the store sequence, the timer and the process do, if no statement fails. *)
LEMMA SystemStepKeepsCache ==
    ASSUME ~StoreMayFail, CInv, CacheInv, SystemStep
    PROVE  CacheInv'
<1>0. StoreOK(store) /\ CallsOK(queue) /\ RepliesOK(replies) /\ generation \in Nat
  BY DEF CInv, CacheOK
<1>1. ASSUME NEW how \in ReopenOutcomes, DebounceFires(how)
      PROVE  CacheInv'
  BY <1>1, SettleKeepsCache DEF DebounceFires
<1>2. CASE LoadPersistedJournal
  <2> DEFINE q == queue \o <<GetVisits>>
  <2>1. /\ queue' = queue \o <<GetVisits, GetAllTabStates(generation)>>
        /\ UNCHANGED <<store, replies, generation, reopenable, recentlyReopened>>
    BY <1>2 DEF LoadPersistedJournal, Post, reopenVars
  <2>2. CallOK(GetVisits) /\ GetVisits.op = "readAll"
    BY DEF CallOK, GetVisits
  <2>3. CacheFacts(store, q, replies, generation, loadPosted, reopenable, recentlyReopened)
    BY <1>0, <2>2, PostOther DEF CacheInv
  <2>4. CallsOK(q)
    BY <1>0, <2>2, OneOK, BothOK
  <2>5. queue' = q \o <<GetAllTabStates(generation)>>
    <3> DEFINE x == GetVisits
               y == GetAllTabStates(generation)
    <3>1. PICK S : queue \in Seq(S)
      BY <1>0 DEF CallsOK, IsSeq
    <3> HIDE DEF x, y
    <3>2. /\ queue \in Seq(S \cup {x, y}) /\ <<x>> \in Seq(S \cup {x, y})
          /\ <<y>> \in Seq(S \cup {x, y}) /\ <<x, y>> = <<x>> \o <<y>>
      <4>1. queue \in Seq(S \cup {x, y})
        BY <3>1, SeqMonotonic
      <4>2. <<x>> \in Seq(S \cup {x, y}) /\ <<y>> \in Seq(S \cup {x, y})
        OBVIOUS
      <4>3. <<x, y>> = <<x>> \o <<y>>
        BY TwoInARow
      <4> QED
        BY <4>1, <4>2, <4>3
    <3>3. queue' = queue \o (<<x>> \o <<y>>) /\ q = queue \o <<x>>
      BY <2>1, <3>2 DEF x, y
    <3>4. queue' = q \o <<y>>
      BY <3>2, <3>3, ConcatAssociative
    <3> QED
      BY <3>4 DEF y
  <2> HIDE DEF q
  <2>6. CacheFacts(store, q \o <<GetAllTabStates(generation)>>, replies, generation, loadPosted',
                   reopenable, recentlyReopened)
    BY <1>0, <2>3, <2>4, PostRead DEF CacheFacts
  <2> QED
    BY <2>1, <2>5, <2>6 DEF CacheInv
<1>3. CASE StoreStep
  <2> DEFINE r == RunCall(store, Head(queue))
             rs == replies \o ReplyTo(r, Head(queue))
  <2>1. /\ queue # <<>> /\ store' = r /\ queue' = Tail(queue) /\ replies' = rs
        /\ UNCHANGED <<generation, loadPosted, reopenable, recentlyReopened>>
    BY <1>3 DEF StoreStep, reopenVars, loadVars
  <2>2. IsSeq(queue) /\ IsSeq(replies)
    BY <1>0 DEF CallsOK, RepliesOK
  <2>3. /\ ReadRows(r, Tail(queue), rs, generation) = ReadRows(store, queue, replies, generation)
        /\ ReadOwed(loadPosted, Tail(queue), rs) <=> ReadOwed(loadPosted, queue, replies)
        /\ NoFutureRead(queue, generation) /\ NoFutureRead(replies, generation)
             => NoFutureRead(Tail(queue), generation) /\ NoFutureRead(rs, generation)
    BY <2>1, <2>2, RunReads
  <2>4. Drained(r, Tail(queue)) = Drained(store, queue)
    BY <2>1, <2>2, StepRuns
  <2> HIDE DEF r, rs
  <2>5. CacheFacts(r, Tail(queue), rs, generation, loadPosted, reopenable, recentlyReopened)
    BY <2>3, <2>4 DEF CacheInv, CacheFacts
  <2> QED
    BY <2>1, <2>5 DEF CacheInv
<1>4. CASE DeliverReply
  <2> DEFINE reply == Head(replies)
             rs == Tail(replies)
             side == Drained(store, queue).sidecar
             reads == ReadRows(store, queue, rs, generation)
  <2>1. replies # <<>> /\ replies' = rs /\ store' = store /\ IsSeq(replies)
    BY <1>0, <1>4 DEF DeliverReply, RepliesOK
  <2>2. /\ CurrentRead(reply, generation) =>
             ReadRows(store, queue, replies, generation) = reads \cup {reply.rows}
        /\ ~CurrentRead(reply, generation) => ReadRows(store, queue, replies, generation) = reads
        /\ ReadOwed(loadPosted, queue, replies)
             <=> ReadOwed(loadPosted, queue, rs) \/ reply.op = "clear"
        /\ NoFutureRead(replies, generation) => NoFutureRead(rs, generation)
    <3>0. replies # <<>> /\ IsSeq(replies)
      BY <2>1
    <3>1. ReadRows(store, queue, replies, generation) =
            ReadRows(store, queue, Tail(replies), generation)
            \cup {x \in {Head(replies).rows} : CurrentRead(Head(replies), generation)}
      BY <3>0, DeliveredReads
    <3>3. /\ CurrentRead(reply, generation) =>
                {x \in {reply.rows} : CurrentRead(reply, generation)} = {reply.rows}
          /\ ~CurrentRead(reply, generation) =>
                {x \in {reply.rows} : CurrentRead(reply, generation)} = {}
      OBVIOUS
    <3>2. /\ ReadOwed(loadPosted, queue, replies)
               <=> ReadOwed(loadPosted, queue, Tail(replies)) \/ Head(replies).op = "clear"
          /\ NoFutureRead(replies, generation) => NoFutureRead(Tail(replies), generation)
      BY <2>1, DeliveredOwes
    <3> QED
      BY <3>1, <3>2, <3>3
  <2>3. /\ NoFutureRead(queue, generation) /\ NoFutureRead(rs, generation)
        /\ Sound(side, ReadRows(store, queue, replies, generation), reopenable, recentlyReopened)
        /\ \/ ReadOwed(loadPosted, queue, replies)
           \/ Covered(side, ReadRows(store, queue, replies, generation), reopenable)
    BY <2>2 DEF CacheInv, CacheFacts
  <2> HIDE DEF reply, rs, side, reads
  <2>4. ASSUME reply.op = "readAll", OnJournalLoaded(reply.rows)
        PROVE  CacheInv'
    <3>1. UNCHANGED <<queue, loadPosted, generation, reopenable, recentlyReopened>>
      BY <2>4 DEF OnJournalLoaded, reopenVars
    <3>2. ~CurrentRead(reply, generation) /\ reply.op # "clear"
      BY <2>4 DEF CurrentRead
    <3>3. CacheFacts(store, queue, rs, generation, loadPosted, reopenable, recentlyReopened)
      BY <2>2, <2>3, <3>2 DEF CacheFacts, side, reads
    <3> QED
      BY <2>1, <3>1, <3>3 DEF CacheInv
  <2>5. ASSUME reply.op = "readTabStates", OnReopenableLoaded(reply.gen, reply.rows)
        PROVE  CacheInv'
    <3>1. UNCHANGED <<queue, loadPosted, generation, recentlyReopened>>
      BY <2>5 DEF OnReopenableLoaded, loadVars
    <3>2. CASE IsStale(reply.gen)
      <4>1. ~CurrentRead(reply, generation) /\ reply.op # "clear" /\ reopenable' = reopenable
        BY <2>5, <3>2 DEF CurrentRead, IsStale, OnReopenableLoaded
      <4>2. CacheFacts(store, queue, rs, generation, loadPosted, reopenable, recentlyReopened)
        BY <2>2, <2>3, <4>1 DEF CacheFacts, side, reads
      <4> QED
        BY <2>1, <3>1, <4>1, <4>2 DEF CacheInv
    <3>3. CASE ~IsStale(reply.gen)
      <4> DEFINE rows == reply.rows
                 cache == [u \in DOMAIN reopenable \cup (Closed(rows) \ recentlyReopened)
                             |-> IF u \in DOMAIN reopenable THEN reopenable[u] ELSE rows[u].url]
      <4>1. CurrentRead(reply, generation) /\ reply.op # "clear"
        BY <2>5, <3>3 DEF CurrentRead, IsStale
      <4>2. reopenable' = cache
        BY <2>5, <3>3 DEF OnReopenableLoaded, Closed
      <4>3. /\ Sound(side, reads \cup {rows}, reopenable, recentlyReopened)
            /\ ReadOwed(loadPosted, queue, rs) \/ Covered(side, reads \cup {rows}, reopenable)
        BY <2>2, <2>3, <4>1
      <4>4. /\ Sound(side, reads, cache, recentlyReopened)
            /\ Covered(side, reads \cup {rows}, reopenable) => Covered(side, reads, cache)
        <5>1. /\ DOMAIN cache = DOMAIN reopenable \cup (Closed(rows) \ recentlyReopened)
              /\ \A u \in DOMAIN reopenable : cache[u] = reopenable[u]
              /\ \A u \in (Closed(rows) \ recentlyReopened) \ DOMAIN reopenable :
                   cache[u] = rows[u].url
          OBVIOUS
        <5> HIDE DEF cache, rows
        <5> QED
          BY <4>3, <5>1, LoadingKeeps
      <4> HIDE DEF cache, rows
      <4>5. CacheFacts(store, queue, rs, generation, loadPosted, cache, recentlyReopened)
        BY <2>3, <4>3, <4>4 DEF CacheFacts, side, reads
      <4> QED
        BY <2>1, <3>1, <4>2, <4>5 DEF CacheInv
    <3> QED
      BY <3>2, <3>3
  <2>6. ASSUME reply.op = "clear", OnBrowsingDataCleared
        PROVE  CacheInv'
    <3>1. /\ queue' = queue \o <<GetAllTabStates(generation)>>
          /\ UNCHANGED <<loadPosted, generation, reopenable, recentlyReopened>>
      BY <2>6 DEF OnBrowsingDataCleared, Post, loadVars, reopenVars
    <3>2. ~CurrentRead(reply, generation)
      BY <2>6 DEF CurrentRead
    <3>3. Sound(side, reads, reopenable, recentlyReopened)
      BY <2>2, <2>3, <3>2
    <3>4. CacheFacts(store, queue \o <<GetAllTabStates(generation)>>, rs, generation, loadPosted,
                     reopenable, recentlyReopened)
      BY <1>0, <2>3, <3>3, PostRead DEF side, reads
    <3> QED
      BY <2>1, <3>1, <3>4 DEF CacheInv
  <2> QED
    BY <1>4, <2>4, <2>5, <2>6 DEF DeliverReply, reply
<1>5. CASE Tick
  BY <1>5, CacheUnchanged DEF Tick, reopenVars, loadVars, storeVars
<1>6. CASE Restart
  <2>1. /\ queue' = <<>> /\ replies' = <<>> /\ loadPosted' = TRUE
        /\ reopenable' = EmptyFunction /\ recentlyReopened' = {}
    BY <1>6 DEF Restart
  <2> QED
    BY <2>1, FreshCache DEF CacheInv
<1> QED
  BY <1>1, <1>2, <1>3, <1>4, <1>5, <1>6 DEF SystemStep

(* A fresh profile has nothing to remember. *)
LEMMA InitCache == Init => CacheInv
BY FreshCache DEF Init, CacheInv

(* Every step keeps it. *)
LEMMA NextCache == ~StoreMayFail /\ CInv /\ CacheInv /\ [Next]_vars => CacheInv'
<1> SUFFICES ASSUME ~StoreMayFail, CInv, CacheInv, [Next]_vars PROVE CacheInv'
  OBVIOUS
<1>1. CASE UNCHANGED vars
  BY <1>1, CacheUnchanged DEF vars, reopenVars, loadVars, storeVars
<1> QED
  BY <1>1, UserStepKeepsCache, SystemStepKeepsCache DEF Next

(* It says what the property says. *)
LEMMA CacheInvIsEnough == CInv /\ CacheInv => CacheAgreesWithSidecar
<1> SUFFICES ASSUME CInv, CacheInv PROVE CacheAgreesWithSidecar
  OBVIOUS
<1> DEFINE side == DrainedStore.sidecar
           rows == ClosedRows(DrainedStore)
<1>1. DrainedStore = Drained(store, queue)
  BY DEF DrainedStore, Drained
<1>2. DOMAIN rows = Closed(side) /\ \A u \in Closed(side) : rows[u] = side[u]
  BY DEF ClosedRows, RestrictValues, Restrict, Closed
<1> HIDE DEF rows, side
<1>3. ReopenableBacked
  BY <1>1, <1>2 DEF ReopenableBacked, CacheInv, CacheFacts, Sound, Backed, rows, side
<1>4. ASSUME ~SidecarReadPending PROVE Closed(side) \subseteq DOMAIN reopenable
  <2>1. DOMAIN queue = 1..Len(queue) /\ DOMAIN replies = 1..Len(replies)
    <3>1. PICK S : queue \in Seq(S)
      BY DEF CInv, CallsOK, IsSeq
    <3>2. PICK T : replies \in Seq(T)
      BY DEF CInv, RepliesOK, IsSeq
    <3> QED
      BY <3>1, <3>2
  <2>2. ~ReadOwed(loadPosted, queue, replies)
    BY <1>4, <2>1 DEF SidecarReadPending, ReadOwed
  <2>3. ReadRows(store, queue, replies, generation) = {}
    BY <1>4, <2>1 DEF SidecarReadPending, ReadRows, CurrentRead
  <2> QED
    BY <1>1, <2>2, <2>3 DEF CacheInv, CacheFacts, Covered, side
<1> QED
  BY <1>2, <1>3, <1>4 DEF CacheAgreesWithSidecar, NoClosedTabForgotten, rows

(* While the store's statements succeed, the closed-tab cache of the coordinator *)
(* (reopenable_) never names a tab, or an address, that the sidecar will not     *)
(* hold once the posted calls have run; and unless a read of the sidecar is      *)
(* still to come it names every closed tab the sidecar will hold. This is so     *)
(* whatever closes, reopens, loads and clears cross each other on the way.       *)
THEOREM CacheFollowsSidecar ==
    ASSUME ~StoreMayFail
    PROVE  Spec => []CacheAgreesWithSidecar
<1>1. Init => CInv /\ CacheInv
  BY InitCInv, InitCache
<1>2. CInv /\ CacheInv /\ [Next]_vars => CInv' /\ CacheInv'
  BY NextCInv, NextCache
<1>3. CInv /\ CacheInv => CacheAgreesWithSidecar
  BY CacheInvIsEnough
<1> QED
  BY <1>1, <1>2, <1>3, PTL DEF Spec
-----------------------------------------------------------------------------
(***************************************************************************)
(* The order of the session and the order of the journal. What Back walks  *)
(* depends on the log only through which tab was visited later (Newer);    *)
(* filters, coalescing and the merge at the load keep that relation.       *)
(***************************************************************************)
(* The last visit to u is not before a visit to v: what the order of a log is *)
(* about. *)
Newer(s, u, v) == \E i \in 1..Len(s) : s[i] = u /\ \A j \in 1..Len(s) : s[j] = v => j <= i
(* u was visited at all. *)
Visited(s, u) == \E i \in 1..Len(s) : s[i] = u

(* A set of positions that is not empty has a greatest one. *)
LEMMA GreatestPosition ==
    ASSUME NEW n \in Nat, NEW P \in SUBSET (1..n), P # {}
    PROVE  \E m \in P : \A k \in P : k <= m
<1>1. /\ IsFiniteSet(P) /\ Cardinality(P) \in Nat
      /\ \A i \in P : Rank(P, i) \in 1..Cardinality(P)
      /\ \A i, j \in P : i < j => Rank(P, i) < Rank(P, j)
  BY RankGrows
<1>2. Cardinality(P) \in 1..Cardinality(P)
  BY <1>1, FS_EmptySet
<1>3. PICK m \in P : Rank(P, m) = Cardinality(P)
  BY <1>2, EveryRankIsTaken
<1>4. \A i \in P : i \in Nat
  OBVIOUS
<1>5. \A k \in P : k <= m
  BY <1>1, <1>3, <1>4
<1> QED
  BY <1>3, <1>5

(* A tab that was visited has a last visit. *)
LEMMA LastVisit ==
    ASSUME NEW s, Len(s) \in Nat, NEW i \in 1..Len(s)
    PROVE  \E m \in 1..Len(s) : /\ s[m] = s[i] /\ i <= m
                                /\ \A j \in 1..Len(s) : s[j] = s[i] => j <= m
<1> DEFINE P == {j \in 1..Len(s) : s[j] = s[i]}
<1>1. P \in SUBSET (1..Len(s)) /\ i \in P
  OBVIOUS
<1>2. PICK m \in P : \A k \in P : k <= m
  <2> HIDE DEF P
  <2> QED
    BY <1>1, GreatestPosition
<1> QED
  BY <1>1, <1>2

(* Of two visited tabs one is newer, and not the other too. *)
LEMMA OneIsNewer ==
    ASSUME NEW s, Len(s) \in Nat, NEW u, NEW v
    PROVE  /\ Visited(s, u) /\ Visited(s, v) => Newer(s, u, v) \/ Newer(s, v, u)
           /\ Newer(s, u, v) /\ Newer(s, v, u) => u = v
           /\ Visited(s, u) => Newer(s, u, u)
<1>1. ASSUME Visited(s, u), Visited(s, v) PROVE Newer(s, u, v) \/ Newer(s, v, u)
  <2>1. PICK i \in 1..Len(s) : s[i] = u /\ \A j \in 1..Len(s) : s[j] = u => j <= i
    BY <1>1, LastVisit DEF Visited
  <2>2. PICK k \in 1..Len(s) : s[k] = v /\ \A j \in 1..Len(s) : s[j] = v => j <= k
    BY <1>1, LastVisit DEF Visited
  <2>3. CASE k <= i
    <3>1. \A j \in 1..Len(s) : s[j] = v => j <= i
      BY <2>2, <2>3
    <3> QED
      BY <2>1, <3>1 DEF Newer
  <2>4. CASE ~(k <= i)
    <3>1. \A j \in 1..Len(s) : s[j] = u => j <= k
      BY <2>1, <2>4
    <3> QED
      BY <2>2, <3>1 DEF Newer
  <2> QED
    BY <2>3, <2>4
<1>2. ASSUME Newer(s, u, v), Newer(s, v, u) PROVE u = v
  <2>1. PICK i \in 1..Len(s) : s[i] = u /\ \A j \in 1..Len(s) : s[j] = v => j <= i
    BY <1>2 DEF Newer
  <2>2. PICK k \in 1..Len(s) : s[k] = v /\ \A j \in 1..Len(s) : s[j] = u => j <= k
    BY <1>2 DEF Newer
  <2>3. i <= k /\ k <= i
    BY <2>1, <2>2
  <2>4. i = k
    BY <2>3
  <2> QED
    BY <2>1, <2>2, <2>4
<1>3. ASSUME Visited(s, u) PROVE Newer(s, u, u)
  BY <1>3, LastVisit DEF Visited, Newer
<1> QED
  BY <1>1, <1>2, <1>3

(* Another visit. *)
LEMMA NewerAppended ==
    ASSUME NEW S, NEW s \in Seq(S), NEW x \in S, NEW u, NEW v
    PROVE  /\ Newer(Append(s, x), u, v) <=> u = x \/ (v # x /\ Newer(s, u, v))
           /\ Visited(Append(s, x), u) <=> u = x \/ Visited(s, u)
<1> DEFINE t == Append(s, x)
           n == Len(s)
<1>1. /\ n \in Nat /\ Len(t) = n + 1 /\ t[n + 1] = x /\ \A i \in 1..n : t[i] = s[i]
  OBVIOUS
<1> HIDE DEF t, n
<1>2. /\ \A i \in 1..(n + 1) : i \in 1..n \/ i = n + 1
      /\ \A i \in 1..n : i \in 1..(n + 1) /\ i <= n + 1 /\ ~(n + 1 <= i)
      /\ n + 1 \in 1..(n + 1) /\ n + 1 <= n + 1
  BY <1>1
<1>3. Visited(t, u) <=> u = x \/ Visited(s, u)
  BY <1>1, <1>2 DEF Visited, n
<1>4. ASSUME u = x PROVE Newer(t, u, v)
  <2>1. \A j \in 1..(n + 1) : j <= n + 1
    BY <1>1
  <2> QED
    BY <1>1, <1>2, <1>4, <2>1 DEF Newer
<1>5. ASSUME v # x, Newer(s, u, v) PROVE Newer(t, u, v)
  <2>1. PICK i \in 1..n : s[i] = u /\ \A j \in 1..n : s[j] = v => j <= i
    BY <1>5 DEF Newer, n
  <2>2. i \in 1..(n + 1) /\ t[i] = u
    BY <1>1, <1>2, <2>1
  <2>3. \A j \in 1..(n + 1) : t[j] = v => j <= i
    BY <1>1, <1>2, <1>5, <2>1
  <2> QED
    BY <1>1, <2>2, <2>3 DEF Newer
<1>6. ASSUME u # x, Newer(t, u, v) PROVE v # x /\ Newer(s, u, v)
  <2>1. PICK i \in 1..(n + 1) : t[i] = u /\ \A j \in 1..(n + 1) : t[j] = v => j <= i
    BY <1>1, <1>6 DEF Newer
  <2>2. i \in 1..n /\ s[i] = u
    BY <1>1, <1>2, <1>6, <2>1
  <2>3. v # x
    BY <1>1, <1>2, <2>1, <2>2
  <2>4. \A j \in 1..n : s[j] = v => j <= i
    BY <1>1, <1>2, <2>1
  <2> QED
    BY <2>2, <2>3, <2>4 DEF Newer, n
<1> QED
  BY <1>3, <1>4, <1>5, <1>6 DEF t

(* One log behind another. *)
LEMMA NewerJoined ==
    ASSUME NEW S, NEW s \in Seq(S), NEW t \in Seq(S), NEW u, NEW v
    PROVE  /\ Newer(s \o t, u, v) <=>
                \/ Newer(t, u, v)
                \/ ~Visited(t, u) /\ ~Visited(t, v) /\ Newer(s, u, v)
<1> DEFINE n == Len(s)
           m == Len(t)
           w == s \o t
<1>1. /\ n \in Nat /\ m \in Nat /\ Len(w) = n + m
      /\ \A i \in 1..n : w[i] = s[i]
      /\ \A i \in 1..m : w[n + i] = t[i]
  OBVIOUS
<1> HIDE DEF n, m, w
<1>2. /\ \A i \in 1..(n + m) : i \in 1..n \/ (i - n \in 1..m /\ n + (i - n) = i)
      /\ \A i \in 1..n : i \in 1..(n + m)
      /\ \A i \in 1..m : n + i \in 1..(n + m)
  BY <1>1
<1>3. \A i \in 1..(n + m) : i \in 1..n \/ (i - n \in 1..m /\ w[i] = t[i - n])
  BY <1>1, <1>2
<1>4. ASSUME Newer(t, u, v) PROVE Newer(w, u, v)
  <2>1. PICK i \in 1..m : t[i] = u /\ \A j \in 1..m : t[j] = v => j <= i
    BY <1>4 DEF Newer, m
  <2>2. n + i \in 1..(n + m) /\ w[n + i] = u
    BY <1>1, <1>2, <2>1
  <2>3. ASSUME NEW j \in 1..(n + m), w[j] = v PROVE j <= n + i
    <3>1. CASE j \in 1..n
      BY <1>1, <3>1
    <3>2. CASE j - n \in 1..m /\ w[j] = t[j - n]
      <4>1. j - n <= i
        BY <2>1, <2>3, <3>2
      <4> QED
        BY <1>1, <4>1
    <3> QED
      BY <1>3, <3>1, <3>2
  <2> QED
    BY <1>1, <2>2, <2>3 DEF Newer
<1>5. ASSUME ~Visited(t, u), ~Visited(t, v), Newer(s, u, v) PROVE Newer(w, u, v)
  <2>1. PICK i \in 1..n : s[i] = u /\ \A j \in 1..n : s[j] = v => j <= i
    BY <1>5 DEF Newer, n
  <2>2. i \in 1..(n + m) /\ w[i] = u
    BY <1>1, <1>2, <2>1
  <2>3. \A j \in 1..m : t[j] # v
    BY <1>5 DEF Visited, m
  <2>4. \A j \in 1..(n + m) : w[j] = v => j <= i
    BY <1>1, <1>3, <2>1, <2>3
  <2> QED
    BY <1>1, <2>2, <2>4 DEF Newer
<1>6. ASSUME Newer(w, u, v), ~Newer(t, u, v)
      PROVE  ~Visited(t, u) /\ ~Visited(t, v) /\ Newer(s, u, v)
  <2>1. PICK i \in 1..(n + m) : w[i] = u /\ \A j \in 1..(n + m) : w[j] = v => j <= i
    BY <1>1, <1>6 DEF Newer
  <2>2. i \in 1..n
    <3>1. SUFFICES ASSUME i - n \in 1..m, w[i] = t[i - n] PROVE FALSE
      BY <1>3
    <3>2. ASSUME NEW j \in 1..m, t[j] = v PROVE j <= i - n
      <4>1. n + j \in 1..(n + m) /\ w[n + j] = v
        BY <1>1, <1>2, <3>2
      <4>2. n + j <= i
        BY <2>1, <4>1
      <4> QED
        BY <1>1, <4>2
    <3> QED
      BY <1>6, <2>1, <3>1, <3>2 DEF Newer, m
  <2>3. ~Visited(t, v)
    <3>1. SUFFICES ASSUME NEW j \in 1..m, t[j] = v PROVE FALSE
      BY DEF Visited, m
    <3>2. n + j \in 1..(n + m) /\ w[n + j] = v
      BY <1>1, <1>2, <3>1
    <3>3. n + j <= i
      BY <2>1, <3>2
    <3> QED
      BY <1>1, <2>2, <3>3
  <2>4. ~Visited(t, u)
    BY <1>6, <2>3 DEF Visited, Newer
  <2>5. Newer(s, u, v)
    <3>1. s[i] = u
      BY <1>1, <2>1, <2>2
    <3>2. \A j \in 1..n : s[j] = v => j <= i
      BY <1>1, <1>2, <2>1
    <3> QED
      BY <2>2, <3>1, <3>2 DEF Newer, n
  <2> QED
    BY <2>3, <2>4, <2>5
<1> QED
  BY <1>4, <1>5, <1>6 DEF w

(* Where the elements of a selection come from, and where they go. *)
LEMMA Selected ==
    ASSUME NEW s, NEW n \in Nat, NEW P \in SUBSET (1..n)
    PROVE  /\ Len(ElementsAt(s, P)) = Cardinality(P) /\ Cardinality(P) \in Nat
           /\ \A k \in 1..Cardinality(P) :
                 \E i \in P : Rank(P, i) = k /\ ElementsAt(s, P)[k] = s[i]
           /\ \A i \in P : /\ Rank(P, i) \in 1..Cardinality(P)
                           /\ ElementsAt(s, P)[Rank(P, i)] = s[i]
           /\ \A i, j \in P : i <= j <=> Rank(P, i) <= Rank(P, j)
<1> DEFINE N == Cardinality(P)
           at(k) == CHOOSE i \in P : Rank(P, i) = k
           e == [k \in 1..N |-> s[at(k)]]
<1>1. /\ N \in Nat
      /\ \A i \in P : Rank(P, i) \in 1..N
      /\ \A i, j \in P : i < j => Rank(P, i) < Rank(P, j)
      /\ \A i, j \in P : Rank(P, i) = Rank(P, j) => i = j
  BY RankGrows
<1>2. \A k \in 1..N : at(k) \in P /\ Rank(P, at(k)) = k
  BY EveryRankIsTaken
<1>3. ElementsAt(s, P) = e
  BY DEF ElementsAt
<1>4. Len(e) = N
  <2>1. e \in [1..N -> {s[at(k)] : k \in 1..N}]
    OBVIOUS
  <2> HIDE DEF e, N
  <2> QED
    BY <1>1, <2>1
<1>5. \A k \in 1..N : \E i \in P : Rank(P, i) = k /\ e[k] = s[i]
  BY <1>2
<1>6. ASSUME NEW i \in P PROVE Rank(P, i) \in 1..N /\ e[Rank(P, i)] = s[i]
  <2>1. Rank(P, i) \in 1..N
    BY <1>1
  <2>2. at(Rank(P, i)) = i
    BY <1>1, <1>2, <2>1
  <2> QED
    BY <2>1, <2>2
<1>7. \A i, j \in P : i <= j <=> Rank(P, i) <= Rank(P, j)
  <2>1. \A i \in P : i \in Nat /\ Rank(P, i) \in Nat
    BY <1>1
  <2> QED
    BY <1>1, <2>1
<1> HIDE DEF e, N
<1> QED
  BY <1>1, <1>3, <1>4, <1>5, <1>6, <1>7 DEF N

(* A selection that keeps the last of the visits keeps the order. *)
LEMMA NewerSelected ==
    ASSUME NEW s, Len(s) \in Nat, NEW P \in SUBSET (1..Len(s)), NEW u, NEW v,
           \A i \in 1..Len(s) : s[i] \in {u, v} => \E j \in P : i <= j /\ s[j] = s[i]
    PROVE  Newer(ElementsAt(s, P), u, v) <=> Newer(s, u, v)
<1> DEFINE e == ElementsAt(s, P)
           N == Cardinality(P)
           n == Len(s)
<1>1. /\ Len(e) = N /\ N \in Nat
      /\ \A k \in 1..N : \E i \in P : Rank(P, i) = k /\ e[k] = s[i]
      /\ \A i \in P : Rank(P, i) \in 1..N /\ e[Rank(P, i)] = s[i]
      /\ \A i, j \in P : i <= j <=> Rank(P, i) <= Rank(P, j)
  BY Selected
<1>2. \A i \in P : i \in 1..n /\ i \in Nat
  OBVIOUS
<1>3. \A i \in 1..n : s[i] \in {u, v} => \E j \in P : i <= j /\ s[j] = s[i]
  OBVIOUS
<1> HIDE DEF e, N, n
<1>4. ASSUME Newer(e, u, v) PROVE Newer(s, u, v)
  <2>1. PICK k \in 1..N : e[k] = u /\ \A l \in 1..N : e[l] = v => l <= k
    BY <1>1, <1>4 DEF Newer
  <2>2. PICK i \in P : Rank(P, i) = k /\ s[i] = u
    BY <1>1, <2>1
  <2>3. ASSUME NEW j \in 1..n, s[j] = v PROVE j <= i
    <3>1. PICK j2 \in P : j <= j2 /\ s[j2] = v
      BY <1>3, <2>3
    <3>2. Rank(P, j2) <= Rank(P, i)
      BY <1>1, <2>1, <2>2, <3>1
    <3>3. j2 <= i
      BY <1>1, <3>2
    <3>4. j \in Nat /\ j2 \in Nat /\ i \in Nat
      BY <1>2
    <3> QED
      BY <3>1, <3>3, <3>4
  <2> QED
    BY <1>2, <2>2, <2>3 DEF Newer, n
<1>5. ASSUME Newer(s, u, v) PROVE Newer(e, u, v)
  <2>1. PICK i \in 1..n : s[i] = u /\ \A j \in 1..n : s[j] = v => j <= i
    BY <1>5 DEF Newer, n
  <2>2. PICK i2 \in P : i <= i2 /\ s[i2] = u
    BY <1>3, <2>1
  <2>3. Rank(P, i2) \in 1..N /\ e[Rank(P, i2)] = u
    BY <1>1, <2>2
  <2>4. ASSUME NEW l \in 1..N, e[l] = v PROVE l <= Rank(P, i2)
    <3>1. PICK j \in P : Rank(P, j) = l /\ s[j] = v
      BY <1>1, <2>4
    <3>2. j <= i
      BY <1>2, <2>1, <3>1
    <3>3. j \in Nat /\ i \in Nat /\ i2 \in Nat
      BY <1>2
    <3>4. j <= i2
      BY <2>2, <3>2, <3>3
    <3> QED
      BY <1>1, <3>1, <3>4
  <2> QED
    BY <1>1, <2>3, <2>4 DEF Newer
<1> QED
  BY <1>4, <1>5 DEF e

(* Leaving the legacy rows out, and one of a run of visits in, keeps the order *)
(* of the tabs.                                                                *)
LEMMA IdentifiedKeepsOrder ==
    ASSUME NEW rows \in Seq(Uid \cup {NoUid}), NEW u \in Uid, NEW v \in Uid
    PROVE  Newer(Identified(rows), u, v) <=> Newer(rows, u, v)
<1> DEFINE P == {i \in 1..Len(rows) : rows[i] # NoUid}
<1>1. u # NoUid /\ v # NoUid /\ Len(rows) \in Nat
  BY TabVisitAssumption
<1>2. \A i \in 1..Len(rows) : i <= i
  BY <1>1
<1>3. P \in SUBSET (1..Len(rows))
  OBVIOUS
<1>4. \A i \in 1..Len(rows) : rows[i] \in {u, v} => \E j \in P : i <= j /\ rows[j] = rows[i]
  BY <1>1, <1>2
<1>5. Identified(rows) = ElementsAt(rows, P)
  BY DEF Identified
<1> HIDE DEF P
<1> QED
  BY <1>1, <1>3, <1>4, <1>5, NewerSelected

(* One of a run of visits to a tab is enough. *)
LEMMA CoalescedKeepsOrder ==
    ASSUME NEW log, Len(log) \in Nat, NEW u, NEW v
    PROVE  Newer(Coalesced(log), u, v) <=> Newer(log, u, v)
<1> DEFINE P == {i \in 1..Len(log) : i < Len(log) => log[i + 1] # log[i]}
<1>1. P \in SUBSET (1..Len(log))
  OBVIOUS
<1>2. ASSUME NEW i \in 1..Len(log) PROVE \E j \in P : i <= j /\ log[j] = log[i]
  <2>1. PICK m \in 1..Len(log) : /\ log[m] = log[i] /\ i <= m
                                 /\ \A j \in 1..Len(log) : log[j] = log[i] => j <= m
    BY LastVisit
  <2>2. m < Len(log) => m + 1 \in 1..Len(log) /\ ~(m + 1 <= m)
    OBVIOUS
  <2>3. m \in P
    BY <2>1, <2>2
  <2> QED
    BY <2>1, <2>3
<1>3. Coalesced(log) = ElementsAt(log, P)
  BY DEF Coalesced
<1> HIDE DEF P
<1> QED
  BY <1>1, <1>2, <1>3, NewerSelected

(* So the merged log has the order of the runtime visits, and under them that *)
(* of the rows.                                                               *)
LEMMA MergedOrder ==
    ASSUME NEW rows \in Seq(Uid \cup {NoUid}), NEW log \in Seq(Uid), NEW u \in Uid, NEW v \in Uid
    PROVE  Newer(MergedLog(rows, log), u, v) <=>
             \/ Newer(log, u, v)
             \/ ~Visited(log, u) /\ ~Visited(log, v) /\ Newer(rows, u, v)
<1> DEFINE known == Identified(rows)
           all == known \o log
<1>1. known \in Seq(Uid)
  <2> DEFINE P == {i \in 1..Len(rows) : rows[i] # NoUid}
  <2>1. known \in Seq({rows[i] : i \in P})
    BY ElementsAtIsASequence DEF Identified
  <2>2. {rows[i] : i \in P} \subseteq Uid
    OBVIOUS
  <2> HIDE DEF known, P
  <2> QED
    BY <2>1, <2>2, SeqMonotonic
<1>2. Newer(known, u, v) <=> Newer(rows, u, v)
  BY IdentifiedKeepsOrder
<1> HIDE DEF known
<1>3. Newer(all, u, v) <=> \/ Newer(log, u, v)
                           \/ ~Visited(log, u) /\ ~Visited(log, v) /\ Newer(known, u, v)
  BY <1>1, NewerJoined
<1>4. Len(all) \in Nat
  BY <1>1
<1> HIDE DEF all
<1>5. Newer(Coalesced(all), u, v) <=> Newer(all, u, v)
  BY <1>4, CoalescedKeepsOrder
<1> QED
  BY <1>2, <1>3, <1>5 DEF MergedLog, known, all

(* The tabs that were visited no later than u. *)
NoNewer(s, u) == {v \in Uid : Visited(s, v) /\ Newer(s, u, v)}
(* The tabs that were visited at all. *)
AllVisited(s) == {v \in Uid : Visited(s, v)}

(* The last visits are of different tabs. *)
LEMMA LastVisitsDiffer ==
    ASSUME NEW s \in Seq(Uid), NEW X \in SUBSET MostRecent(s)
    PROVE  Cardinality({s[j] : j \in X}) = Cardinality(X)
<1> DEFINE f == [j \in X |-> s[j]]
           Y == {s[j] : j \in X}
<1>1. X \in SUBSET (1..Len(s)) /\ Len(s) \in Nat
  BY DEF MostRecent
<1>2. IsFiniteSet(X)
  BY <1>1, RankGrows
<1>3. ASSUME NEW j \in X, NEW k \in X, s[j] = s[k] PROVE j = k
  <2>1. j \in 1..Len(s) /\ k \in 1..Len(s)
    BY <1>1
  <2>2. /\ \A i \in (j + 1)..Len(s) : s[i] # s[j]
        /\ \A i \in (k + 1)..Len(s) : s[i] # s[k]
    BY DEF MostRecent
  <2>3. ~(j \in (k + 1)..Len(s)) /\ ~(k \in (j + 1)..Len(s))
    BY <1>3, <2>2
  <2> QED
    BY <1>1, <2>1, <2>3
<1>4. f \in Bijection(X, Y)
  BY <1>3 DEF Bijection, Injection, Surjection, IsInjective
<1>5. ExistsBijection(X, Y)
  BY <1>4 DEF ExistsBijection
<1> QED
  BY <1>2, <1>5, FS_Bijection

(* The rank of a last visit, and the number of them, from the order alone. *)
LEMMA RankFromOrder ==
    ASSUME NEW s \in Seq(Uid)
    PROVE  /\ Cardinality(MostRecent(s)) = Cardinality(AllVisited(s))
           /\ \A i \in MostRecent(s) : Rank(MostRecent(s), i) = Cardinality(NoNewer(s, s[i]))
           /\ \A u \in AllVisited(s) : \E i \in MostRecent(s) : s[i] = u
           /\ \A i \in MostRecent(s) : s[i] \in AllVisited(s)
<1> DEFINE n == Len(s)
           P == MostRecent(s)
<1>1. n \in Nat /\ P \in SUBSET (1..n) /\ \A i \in 1..n : s[i] \in Uid
  BY DEF MostRecent
<1>2. \A i \in P : \A j \in 1..n : s[j] = s[i] => j <= i
  <2> SUFFICES ASSUME NEW i \in P, NEW j \in 1..n, s[j] = s[i] PROVE j <= i
    OBVIOUS
  <2>1. \A k \in (i + 1)..n : s[k] # s[i]
    BY DEF MostRecent
  <2>2. i \in 1..n
    BY <1>1
  <2>3. ~(j \in (i + 1)..n)
    BY <2>1
  <2> QED
    BY <1>1, <2>2, <2>3
<1>3. \A i \in 1..n : (\A j \in 1..n : s[j] = s[i] => j <= i) => i \in P
  <2> SUFFICES ASSUME NEW i \in 1..n, \A j \in 1..n : s[j] = s[i] => j <= i PROVE i \in P
    OBVIOUS
  <2>1. \A k \in (i + 1)..n : k \in 1..n /\ ~(k <= i)
    BY <1>1
  <2> QED
    BY <2>1 DEF MostRecent
<1> HIDE DEF P
<1>4. \A u \in AllVisited(s) : \E i \in P : s[i] = u
  <2> SUFFICES ASSUME NEW u \in AllVisited(s) PROVE \E i \in P : s[i] = u
    OBVIOUS
  <2>1. PICK i \in 1..n : s[i] = u
    BY DEF AllVisited, Visited
  <2>2. PICK m \in 1..n : s[m] = s[i] /\ \A j \in 1..n : s[j] = s[i] => j <= m
    BY <1>1, LastVisit
  <2>3. m \in P
    BY <1>3, <2>2
  <2> QED
    BY <2>1, <2>2, <2>3
<1>5. \A i \in P : s[i] \in AllVisited(s)
  BY <1>1 DEF AllVisited, Visited
<1>6. AllVisited(s) = {s[j] : j \in P}
  BY <1>4, <1>5
<1>7. Cardinality(P) = Cardinality(AllVisited(s))
  BY <1>6, LastVisitsDiffer DEF P
<1>8. ASSUME NEW i \in P PROVE Rank(P, i) = Cardinality(NoNewer(s, s[i]))
  <2> DEFINE X == {j \in P : j <= i}
  <2>0. i \in 1..n
    BY <1>1
  <2>1. ASSUME NEW j \in X PROVE s[j] \in NoNewer(s, s[i])
    <3>0. j \in P /\ j <= i /\ j \in 1..n
      BY <1>1
    <3>1. \A k \in 1..n : s[k] = s[j] => k <= i
      <4> SUFFICES ASSUME NEW k \in 1..n, s[k] = s[j] PROVE k <= i
        OBVIOUS
      <4>1. k <= j
        BY <1>2, <3>0
      <4> QED
        BY <1>1, <2>0, <3>0, <4>1
    <3>2. Newer(s, s[i], s[j])
      BY <2>0, <3>1 DEF Newer
    <3>3. s[j] \in Uid /\ Visited(s, s[j])
      BY <1>1, <3>0 DEF Visited
    <3> QED
      BY <3>2, <3>3 DEF NoNewer
  <2>2. ASSUME NEW v \in NoNewer(s, s[i]) PROVE \E j \in X : s[j] = v
    <3>1. PICK j \in P : s[j] = v
      BY <1>4 DEF NoNewer, AllVisited
    <3>2. PICK k \in 1..n : s[k] = s[i] /\ \A l \in 1..n : s[l] = v => l <= k
      BY DEF NoNewer, Newer
    <3>3. j \in 1..n
      BY <1>1
    <3>4. j <= k /\ k <= i
      BY <1>2, <3>1, <3>2, <3>3
    <3>5. j <= i
      BY <1>1, <2>0, <3>3, <3>4
    <3> QED
      BY <3>1, <3>5
  <2>3. NoNewer(s, s[i]) = {s[j] : j \in X}
    BY <2>1, <2>2
  <2>4. X \in SUBSET MostRecent(s)
    BY DEF P
  <2>5. Rank(P, i) = Cardinality(X)
    BY DEF Rank
  <2> HIDE DEF X
  <2> QED
    BY <2>3, <2>4, <2>5, LastVisitsDiffer
<1> QED
  BY <1>4, <1>5, <1>7, <1>8 DEF P

(* Two logs of the same order are walked in the same way. *)
LEMMA SameOrder ==
    ASSUME NEW s \in Seq(Uid), NEW t \in Seq(Uid),
           \A u, v \in Uid : Newer(s, u, v) <=> Newer(t, u, v)
    PROVE  DeriveMruOrder(s) = DeriveMruOrder(t)
<1> DEFINE P == MostRecent(s)
           Q == MostRecent(t)
           e == ElementsAt(s, P)
           f == ElementsAt(t, Q)
           N == Cardinality(P)
<1>0. Len(s) \in Nat /\ Len(t) \in Nat
  OBVIOUS
<1>1. \A u \in Uid : Visited(s, u) <=> Visited(t, u)
  <2>1. \A u : /\ Visited(s, u) <=> Newer(s, u, u)
               /\ Visited(t, u) <=> Newer(t, u, u)
    <3> TAKE u
    <3>1. (Visited(s, u) => Newer(s, u, u)) /\ (Visited(t, u) => Newer(t, u, u))
      BY <1>0, OneIsNewer
    <3>2. (Newer(s, u, u) => Visited(s, u)) /\ (Newer(t, u, u) => Visited(t, u))
      BY DEF Visited, Newer
    <3> QED
      BY <3>1, <3>2
  <2> QED
    BY <2>1
<1>2. AllVisited(s) = AllVisited(t) /\ \A u \in Uid : NoNewer(s, u) = NoNewer(t, u)
  BY <1>1 DEF AllVisited, NoNewer
<1>3. AllVisited(s) \subseteq Uid
  BY DEF AllVisited
<1>4. P \in SUBSET (1..Len(s)) /\ Q \in SUBSET (1..Len(t))
  BY DEF MostRecent
<1>5. /\ N = Cardinality(AllVisited(s))
      /\ \A i \in P : Rank(P, i) = Cardinality(NoNewer(s, s[i]))
      /\ \A u \in AllVisited(s) : \E i \in P : s[i] = u
  BY RankFromOrder
<1>6. /\ Cardinality(Q) = Cardinality(AllVisited(t))
      /\ \A i \in Q : Rank(Q, i) = Cardinality(NoNewer(t, t[i]))
      /\ \A i \in Q : t[i] \in AllVisited(t)
  BY RankFromOrder
<1> HIDE DEF P, Q
<1>7. /\ N \in Nat
      /\ \A k \in 1..N : \E i \in P : Rank(P, i) = k /\ e[k] = s[i]
      /\ \A i, j \in P : i <= j <=> Rank(P, i) <= Rank(P, j)
  BY <1>0, <1>4, Selected
<1>8. \A k \in 1..Cardinality(Q) : \E i \in Q : Rank(Q, i) = k /\ f[k] = t[i]
  BY <1>0, <1>4, Selected
<1>9. Cardinality(Q) = N
  BY <1>2, <1>5, <1>6
<1>10. ASSUME NEW k \in 1..N PROVE e[k] = f[k]
  <2>1. PICK i \in P : Rank(P, i) = k /\ e[k] = s[i]
    BY <1>7
  <2>2. PICK j \in Q : Rank(Q, j) = k /\ f[k] = t[j]
    BY <1>8, <1>9
  <2>3. t[j] \in AllVisited(s) /\ Cardinality(NoNewer(s, t[j])) = k
    BY <1>2, <1>3, <1>6, <2>2
  <2>4. PICK i2 \in P : s[i2] = t[j]
    BY <1>5, <2>3
  <2>5. Rank(P, i2) = k
    BY <1>5, <2>3, <2>4
  <2>6. i2 = i
    <3>1. i <= i2 /\ i2 <= i
      BY <1>7, <2>1, <2>5
    <3> QED
      BY <1>4, <3>1
  <2> QED
    BY <2>1, <2>2, <2>4, <2>6
<1>11. /\ e = [k \in 1..N |-> e[k]] /\ f = [k \in 1..N |-> f[k]]
  BY <1>9 DEF ElementsAt
<1> HIDE DEF e, f, N
<1>12. e = f
  BY <1>10, <1>11
<1> QED
  BY <1>12 DEF DeriveMruOrder, e, f, P, Q

-----------------------------------------------------------------------------
(* The order of the log and of the journal. *)

(* What a call does to the visits. *)
LEMMA VisitsAfter ==
    ASSUME NEW st, StoreOK(st), NEW c, CallOK(c)
    PROVE  /\ c.op \in {"upsert", "readAll", "readTabStates"} =>
                 RunCall(st, c).visits = st.visits
           /\ c.op = "append" /\ Len(RunCall(st, c).visits) < MaxVisits =>
                 /\ Len(st.visits) < MaxVisits
                 /\ ReadAll(RunCall(st, c)) = Append(ReadAll(st), c.uid)
<1>0. st.visits \in Seq(Visit) /\ Len(st.visits) \in Nat
  BY DEF StoreOK
<1>1. ASSUME c.op \in {"readAll", "readTabStates"} PROVE RunCall(st, c).visits = st.visits
  BY <1>1 DEF RunCall
<1>2. ASSUME c.op = "upsert" PROVE RunCall(st, c).visits = st.visits
  <2>1. \A v : [st EXCEPT !.sidecar = v].visits = st.visits
    BY DEF StoreOK
  <2> QED
    BY <1>2, <2>1 DEF RunCall, UpsertTabState
<1>3. ASSUME c.op = "append", Len(RunCall(st, c).visits) < MaxVisits
      PROVE  /\ Len(st.visits) < MaxVisits
             /\ ReadAll(RunCall(st, c)) = Append(ReadAll(st), c.uid)
  <2> DEFINE new == [uid |-> c.uid, at |-> c.at]
             all == Append(st.visits, new)
             drop == IF Len(all) > MaxVisits THEN Len(all) - MaxVisits ELSE 0
             kept == SubSeq(all, drop + 1, Len(all))
             n == Len(st.visits)
  <2>1. c.uid \in Uid /\ c.at \in Nat
    BY <1>3 DEF CallOK
  <2>2. new \in Visit /\ new.uid = c.uid
    BY <2>1 DEF Visit
  <2> HIDE DEF new
  <2>3. /\ all \in Seq(Visit) /\ Len(all) = n + 1 /\ n \in Nat
        /\ \A i \in 1..n : all[i] = st.visits[i]
        /\ all[n + 1] = new
    BY <1>0, <2>2
  <2>4. RunCall(st, c) = [st EXCEPT !.visits = kept]
    BY <1>3 DEF RunCall, AppendVisit, new
  <2>5. RunCall(st, c).visits = kept
    <3>1. \A v : [st EXCEPT !.visits = v].visits = v
      BY DEF StoreOK
    <3> QED
      BY <2>4, <3>1
  <2> HIDE DEF all, n
  <2>6. drop \in 0..(n + 1) /\ drop + 1 \in 1..(Len(all) + 1)
    BY <2>3, MaxVisitsAssumption
  <2>7. Len(kept) = (n + 1) - drop
    <3> HIDE DEF drop
    <3>1. kept \in Seq(Visit) /\ Len(kept) = IF drop + 1 <= Len(all) THEN Len(all) - (drop + 1) + 1 ELSE 0
      <4>1. \A i \in (drop + 1)..Len(all) : all[i] \in Visit
        BY <2>3, <2>6
      <4>2. drop + 1 \in Int /\ Len(all) \in Int
        BY <2>3, <2>6
      <4> QED
        BY <4>1, <4>2, SubSeqProperties
    <3> QED
      BY <2>3, <2>6, <3>1
  <2>8. drop = 0 /\ n < MaxVisits
    <3>1. Len(kept) < MaxVisits
      BY <1>3, <2>5
    <3> HIDE DEF kept
    <3> QED
      BY <2>3, <2>7, <3>1, MaxVisitsAssumption
  <2>9. kept = all
    <3> HIDE DEF drop
    <3> QED
      BY <2>3, <2>8
  <2> HIDE DEF kept, drop
  <2>10. ReadAll(RunCall(st, c)) = [i \in DOMAIN all |-> all[i].uid]
    BY <2>5, <2>9 DEF ReadAll
  <2>11. ReadAll(st) = [i \in 1..n |-> st.visits[i].uid]
    BY <1>0 DEF ReadAll, n
  <2> DEFINE r == [i \in 1..n |-> st.visits[i].uid]
             a == [i \in 1..(n + 1) |-> all[i].uid]
  <2>12. r \in Seq(Uid \cup {NoUid}) /\ Len(r) = n
    <3>1. \A i \in 1..n : st.visits[i] \in Visit
      BY <1>0 DEF n
    <3>2. r \in [1..n -> Uid \cup {NoUid}]
      BY <3>1 DEF Visit
    <3> HIDE DEF r
    <3> QED
      BY <2>3, <3>2
  <2>13. a = Append(r, c.uid)
    <3>0. \A i \in 1..(n + 1) : i \in 1..n \/ i = n + 1
      BY <2>3
    <3>1. /\ \A i \in 1..n : a[i] = r[i]
          /\ a[n + 1] = c.uid
      BY <2>2, <2>3
    <3>2. a \in Seq(Uid \cup {NoUid}) /\ Len(a) = n + 1
      <4>1. \A i \in 1..(n + 1) : all[i] \in Visit
        BY <2>3
      <4>2. a \in [1..(n + 1) -> Uid \cup {NoUid}]
        BY <4>1 DEF Visit
      <4> HIDE DEF a
      <4> QED
        BY <2>3, <4>2
    <3> HIDE DEF a, r
    <3>3. Append(r, c.uid) \in Seq(Uid \cup {NoUid}) /\ Len(Append(r, c.uid)) = n + 1
      BY <2>1, <2>12
    <3>4. \A i \in 1..(n + 1) : Append(r, c.uid)[i] = a[i]
      BY <2>1, <2>12, <3>0, <3>1
    <3> QED
      BY <3>2, <3>3, <3>4, SeqEqual
  <2>14. [i \in DOMAIN all |-> all[i].uid] = a
    BY <2>3
  <2> QED
    BY <2>8, <2>10, <2>11, <2>13, <2>14 DEF n
<1> QED
  BY <1>1, <1>2, <1>3

(* A visit that is settled is the newest, whether or not it is coalesced. *)
LEMMA SettledOrder ==
    ASSUME NEW log \in Seq(Uid), NEW x \in Uid, NEW u, NEW v
    PROVE  /\ Newer(Settled(log, x), u, v) <=> u = x \/ (v # x /\ Newer(log, u, v))
           /\ Visited(Settled(log, x), u) <=> u = x \/ Visited(log, u)
<1>1. x # NoUid
  BY TabVisitAssumption
<1>2. CASE log # <<>> /\ Last(log) = x
  <2> DEFINE n == Len(log)
  <2>1. Settled(log, x) = log
    BY <1>1, <1>2 DEF Settled
  <2>2. n \in 1..n /\ log[n] = x
    BY <1>2 DEF Last
  <2> HIDE DEF n
  <2>3. \A j \in 1..n : j <= n /\ (n <= j => j = n)
    BY <2>2
  <2>4. u = x => Newer(log, u, v) /\ Visited(log, u)
    BY <2>2, <2>3 DEF Newer, Visited, n
  <2>5. u # x /\ Newer(log, u, v) => v # x
    BY <2>2, <2>3 DEF Newer, n
  <2> QED
    BY <2>1, <2>4, <2>5
<1>3. CASE ~(log # <<>> /\ Last(log) = x)
  <2>1. Settled(log, x) = Append(log, x)
    BY <1>1, <1>3 DEF Settled
  <2> QED
    BY <2>1, NewerAppended
<1> QED
  BY <1>2, <1>3

(* Every read of the journal under way finds rows, or has found rows, of X. *)
ReadsFind(s, q, rs, X) ==
    /\ \A i \in 1..Len(q) : q[i].op = "readAll" => ReadAll(StoresAlong(s, q)[i]) \in X
    /\ \A i \in 1..Len(rs) : rs[i].op = "readAll" => rs[i].rows \in X

(* A call that is posted, itself a read of the journal or not. *)
LEMMA PostedFinds ==
    ASSUME NEW s, NEW q, IsSeq(q), NEW rs, NEW X, NEW c, ReadsFind(s, q, rs, X),
           c.op = "readAll" => ReadAll(Drained(s, q)) \in X
    PROVE  ReadsFind(s, q \o <<c>>, rs, X)
<1> DEFINE n == Len(q)
           p == q \o <<c>>
           a == StoresAlong(s, q)
           b == StoresAlong(s, p)
<1>1. /\ n \in Nat /\ Len(p) = n + 1 /\ \A i \in 1..n : p[i] = q[i]
      /\ p[n + 1] = c /\ \A i \in 0..n : b[i] = a[i]
      /\ b[n + 1] = RunCall(Drained(s, q), c)
  BY PostRuns
<1>2. c.op = "readAll" => b[n + 1] = Drained(s, q)
  BY <1>1 DEF RunCall
<1>3. \A i \in 1..n : q[i].op = "readAll" => ReadAll(a[i]) \in X
  BY DEF ReadsFind
<1> HIDE DEF n, p, a, b
<1>4. ASSUME NEW i \in 1..(n + 1), p[i].op = "readAll" PROVE ReadAll(b[i]) \in X
  <2>1. CASE i \in 1..n
    <3>1. i \in 0..n
      BY <1>1, <2>1
    <3> QED
      BY <1>1, <1>3, <1>4, <2>1, <3>1
  <2>2. CASE i = n + 1
    BY <1>1, <1>2, <1>4, <2>2
  <2> QED
    BY <1>1, <2>1, <2>2
<1>5. ReadsFind(s, p, rs, X)
  BY <1>1, <1>4 DEF ReadsFind, b
<1> QED
  BY <1>5 DEF p

(* The oldest call runs: a read becomes a reply with the rows it found. *)
LEMMA RunFinds ==
    ASSUME NEW s, NEW q, IsSeq(q), q # <<>>, NEW rs, IsSeq(rs), NEW X, ReadsFind(s, q, rs, X)
    PROVE  ReadsFind(RunCall(s, Head(q)), Tail(q), rs \o ReplyTo(RunCall(s, Head(q)), Head(q)), X)
<1> DEFINE n == Len(q)
           m == Len(rs)
           t == Tail(q)
           c == Head(q)
           r == RunCall(s, c)
           ans == ReplyTo(r, c)
           rs2 == rs \o ans
           a == StoresAlong(s, q)
           b == StoresAlong(r, t)
<1>1. /\ n \in Nat \ {0} /\ Len(t) = n - 1 /\ c = q[1]
      /\ \A i \in 1..(n - 1) : t[i] = q[i + 1]
      /\ a[1] = r /\ \A i \in 0..(n - 1) : b[i] = a[i + 1]
  BY StepRuns
<1>2. /\ \A i \in 1..n : q[i].op = "readAll" => ReadAll(a[i]) \in X
      /\ \A i \in 1..m : rs[i].op = "readAll" => rs[i].rows \in X
  BY DEF ReadsFind
<1>3. m \in Nat
  BY ConcatSeq
<1>4. \A i \in 1..Len(rs2) : rs2[i].op = "readAll" => rs2[i].rows \in X
  <2>1. CASE c.op \in {"readAll", "readTabStates", "clear"}
    <3> DEFINE x == ans[1]
    <3>1. /\ ans = <<x>> /\ x.op = c.op
          /\ c.op = "readAll" => x.rows = ReadAll(r)
      BY <2>1 DEF ReplyTo
    <3> HIDE DEF ans, x
    <3>2. /\ Len(rs2) = m + 1 /\ rs2[m + 1] = x /\ \A i \in 1..m : rs2[i] = rs[i]
      <4>1. rs2 = rs \o <<x>>
        BY <3>1
      <4> HIDE DEF rs2
      <4> QED
        BY <4>1, PostRuns
    <3> HIDE DEF n, m, t, c, r, rs2, a, b
    <3>3. x.op = "readAll" => x.rows \in X
      <4>1. 1 \in 1..n
        BY <1>1
      <4> QED
        BY <1>1, <1>2, <3>1, <4>1
    <3>4. \A i \in 1..(m + 1) : i \in 1..m \/ i = m + 1
      BY <1>3
    <3> QED
      BY <1>2, <3>2, <3>3, <3>4
  <2>2. CASE c.op \notin {"readAll", "readTabStates", "clear"}
    <3>1. ans = <<>>
      BY <2>2 DEF ReplyTo
    <3>2. PICK S : rs \in Seq(S)
      BY DEF IsSeq
    <3> HIDE DEF ans
    <3>3. rs2 = rs
      BY <3>1, <3>2
    <3> HIDE DEF rs2
    <3> QED
      BY <1>2, <3>3
  <2> QED
    BY <2>1, <2>2
<1> HIDE DEF n, t, c, r, ans, rs2, a, b
<1>5. ASSUME NEW i \in 1..(n - 1), t[i].op = "readAll" PROVE ReadAll(b[i]) \in X
  <2>1. i + 1 \in 1..n /\ i \in 0..(n - 1)
    BY <1>1
  <2> QED
    BY <1>1, <1>2, <1>5, <2>1
<1>6. ReadsFind(r, t, rs2, X)
  BY <1>1, <1>4, <1>5 DEF ReadsFind, b
<1> QED
  BY <1>6 DEF r, t, rs2, ans, c

(* A reply is delivered: the others find what they found. *)
LEMMA DeliveredFinds ==
    ASSUME NEW s, NEW q, NEW rs, IsSeq(rs), rs # <<>>, NEW X, ReadsFind(s, q, rs, X)
    PROVE  /\ ReadsFind(s, q, Tail(rs), X)
           /\ Head(rs).op = "readAll" => Head(rs).rows \in X
<1>1. PICK S : rs \in Seq(S)
  BY DEF IsSeq
<1>2. /\ Len(rs) \in Nat \ {0} /\ Len(Tail(rs)) = Len(rs) - 1 /\ Head(rs) = rs[1]
      /\ \A i \in 1..(Len(rs) - 1) : Tail(rs)[i] = rs[i + 1]
  BY <1>1
<1>3. 1 \in 1..Len(rs) /\ \A i \in 1..(Len(rs) - 1) : i + 1 \in 1..Len(rs)
  BY <1>2
<1> QED
  BY <1>2, <1>3 DEF ReadsFind

(* Every page of the sidecar, now and as the calls run, is recordable. *)
PagesOK(s, q) ==
    \A i \in 0..Len(q) : \A u \in DOMAIN StoresAlong(s, q)[i].sidecar :
        StoresAlong(s, q)[i].sidecar[u].url \in Url

(* A call that writes a recordable page, or none, is posted. *)
LEMMA PostedPages ==
    ASSUME NEW s, StoreOK(s), NEW q, CallsOK(q), NEW c, CallOK(c), c.op # "clear",
           c.op = "upsert" => c.row.url \in Url, PagesOK(s, q)
    PROVE  PagesOK(s, q \o <<c>>)
<1> DEFINE n == Len(q)
           p == q \o <<c>>
           a == StoresAlong(s, q)
           b == StoresAlong(s, p)
           d == Drained(s, q)
<1>1. /\ n \in Nat /\ Len(p) = n + 1 /\ \A i \in 0..n : b[i] = a[i]
      /\ b[n + 1] = RunCall(d, c)
  BY PostRuns DEF CallsOK
<1>2. StoreOK(d)
  BY RunsOK
<1>3. \A i \in 0..n : \A u \in DOMAIN a[i].sidecar : a[i].sidecar[u].url \in Url
  BY DEF PagesOK
<1>4. \A u \in DOMAIN d.sidecar : d.sidecar[u].url \in Url
  <2>1. n \in 0..n /\ d = a[n]
    BY <1>1 DEF Drained
  <2> HIDE DEF d, a, n
  <2> QED
    BY <1>3, <2>1
<1> HIDE DEF n, p, a, b, d
<1>5. \A u \in DOMAIN b[n + 1].sidecar : b[n + 1].sidecar[u].url \in Url
  <2>1. c.op \in {"append", "upsert", "readAll", "readTabStates"}
    BY DEF CallOK
  <2>2. CASE c.op = "upsert"
    <3>1. b[n + 1].sidecar = Put(d.sidecar, c.uid, c.row)
      BY <1>1, <1>2, <2>2, SidecarAfter
    <3> QED
      BY <1>4, <2>2, <3>1 DEF Put
  <2>3. CASE c.op \in {"append", "readAll", "readTabStates"}
    <3>1. b[n + 1].sidecar = d.sidecar
      BY <1>1, <1>2, <2>3, SidecarAfter
    <3> QED
      BY <1>4, <3>1
  <2> QED
    BY <2>1, <2>2, <2>3
<1>6. \A i \in 0..(n + 1) : i \in 0..n \/ i = n + 1
  BY <1>1
<1>7. \A i \in 0..(n + 1) : \A u \in DOMAIN b[i].sidecar : b[i].sidecar[u].url \in Url
  BY <1>1, <1>3, <1>5, <1>6
<1>8. PagesOK(s, p)
  BY <1>1, <1>7 DEF PagesOK, b
<1> QED
  BY <1>8 DEF p

(* The oldest call runs. *)
LEMMA RunPages ==
    ASSUME NEW s, NEW q, IsSeq(q), q # <<>>, PagesOK(s, q)
    PROVE  PagesOK(RunCall(s, Head(q)), Tail(q))
<1>1. /\ Len(q) \in Nat \ {0} /\ Len(Tail(q)) = Len(q) - 1
      /\ \A i \in 0..(Len(q) - 1) :
            StoresAlong(RunCall(s, Head(q)), Tail(q))[i] = StoresAlong(s, q)[i + 1]
  BY StepRuns
<1>2. \A i \in 0..(Len(q) - 1) : i + 1 \in 0..Len(q)
  BY <1>1
<1> QED
  BY <1>1, <1>2 DEF PagesOK

(* A restart leaves the store and drops the posted calls. *)
LEMMA RestartPages ==
    ASSUME NEW s, NEW q, IsSeq(q), PagesOK(s, q)
    PROVE  PagesOK(s, <<>>)
<1>1. Len(q) \in Nat /\ Len(<<>>) = 0 /\ Len(<<>>) \in Nat
  <2>1. PICK S : q \in Seq(S)
    BY DEF IsSeq
  <2> QED
    BY <2>1
<1>2. StoresAlong(s, q)[0] = s /\ StoresAlong(s, <<>>)[0] = s
  BY <1>1, StoresAlongRuns
<1>3. 0 \in 0..Len(q) /\ \A i \in 0..0 : i = 0
  BY <1>1
<1> QED
  BY <1>1, <1>2, <1>3 DEF PagesOK

(* The rows in which the tabs that the log does not know come in the order d. *)
SameBelow(d, log) ==
    {rows \in Seq(Uid \cup {NoUid}) :
        \A u, v \in Uid : ~Visited(log, u) /\ ~Visited(log, v) =>
            (Newer(rows, u, v) <=> Newer(d, u, v))}

(* What the journal will hold has the order of the log; so do the reads under  *)
(* way, as far as the log leaves it open; and once the journal is loaded the   *)
(* log has the order of the journal. A journal at its cap has dropped visits.  *)
OrderFacts(s, q, rs, log, loaded) ==
    LET d == ReadAll(Drained(s, q))
    IN  Len(Drained(s, q).visits) < MaxVisits =>
            /\ \A u, v \in Uid : Newer(log, u, v) => Newer(d, u, v)
            /\ ReadsFind(s, q, rs, SameBelow(d, log))
            /\ loaded => \A u, v \in Uid : Newer(d, u, v) => Newer(log, u, v)

(* The rows of a store are uids or legacy rows. *)
LEMMA RowsOK ==
    ASSUME NEW st, StoreOK(st)
    PROVE  ReadAll(st) \in Seq(Uid \cup {NoUid})
<1>1. /\ st.visits \in Seq(Visit) /\ DOMAIN st.visits = 1..Len(st.visits)
      /\ Len(st.visits) \in Nat
  BY DEF StoreOK
<1>2. \A i \in DOMAIN st.visits : st.visits[i] \in Visit
  BY <1>1
<1>3. \A i \in DOMAIN st.visits : st.visits[i].uid \in Uid \cup {NoUid}
  BY <1>2 DEF Visit
<1>4. ReadAll(st) \in [1..Len(st.visits) -> Uid \cup {NoUid}]
  BY <1>1, <1>3 DEF ReadAll
<1> QED
  BY <1>1, <1>4

(* A call that leaves the visits alone is posted. *)
LEMMA OrderPosted ==
    ASSUME NEW s, StoreOK(s), NEW q, CallsOK(q), NEW rs, NEW log, NEW loaded, NEW c, CallOK(c),
           c.op \in {"upsert", "readAll", "readTabStates"}, OrderFacts(s, q, rs, log, loaded)
    PROVE  OrderFacts(s, q \o <<c>>, rs, log, loaded)
<1> DEFINE p == q \o <<c>>
           d == Drained(s, q)
           e == Drained(s, p)
<1>1. IsSeq(q) /\ StoreOK(d)
  BY RunsOK DEF CallsOK
<1>2. e = RunCall(d, c)
  BY <1>1, PostRuns
<1> HIDE DEF d, e
<1>3. e.visits = d.visits
  BY <1>1, <1>2, VisitsAfter
<1>4. ReadAll(e) = ReadAll(d)
  BY <1>3 DEF ReadAll
<1>5. ReadAll(d) \in SameBelow(ReadAll(d), log)
  BY <1>1, RowsOK DEF SameBelow
<1>6. SUFFICES ASSUME Len(d.visits) < MaxVisits
               PROVE  ReadsFind(s, p, rs, SameBelow(ReadAll(d), log))
  BY <1>3, <1>4 DEF OrderFacts, d, e
<1>7. ReadsFind(s, q, rs, SameBelow(ReadAll(d), log))
  BY <1>6 DEF OrderFacts, d
<1> QED
  BY <1>1, <1>5, <1>7, PostedFinds DEF d

(* A visit is settled and posted. *)
LEMMA OrderVisited ==
    ASSUME NEW s, StoreOK(s), NEW q, CallsOK(q), NEW rs, NEW log \in Seq(Uid), NEW loaded,
           NEW c, CallOK(c), c.op = "append", OrderFacts(s, q, rs, log, loaded)
    PROVE  OrderFacts(s, q \o <<c>>, rs, Settled(log, c.uid), loaded)
<1> DEFINE p == q \o <<c>>
           d == Drained(s, q)
           e == Drained(s, p)
           rd == ReadAll(d)
           re == ReadAll(e)
           x == c.uid
           log2 == Settled(log, x)
<1>1. IsSeq(q) /\ StoreOK(d) /\ x \in Uid
  BY RunsOK DEF CallsOK, CallOK
<1>2. e = RunCall(d, c)
  BY <1>1, PostRuns
<1> HIDE DEF d, e, x
<1>3. SUFFICES ASSUME Len(e.visits) < MaxVisits
               PROVE  /\ \A u, v \in Uid : Newer(log2, u, v) => Newer(re, u, v)
                      /\ ReadsFind(s, p, rs, SameBelow(re, log2))
                      /\ loaded => \A u, v \in Uid : Newer(re, u, v) => Newer(log2, u, v)
  BY DEF OrderFacts, e, x
<1>4. Len(d.visits) < MaxVisits /\ re = Append(rd, x)
  BY <1>1, <1>2, <1>3, VisitsAfter DEF x
<1>5. rd \in Seq(Uid \cup {NoUid})
  BY <1>1, RowsOK
<1> HIDE DEF rd, re, log2
<1>6. \A u, v : Newer(re, u, v) <=> u = x \/ (v # x /\ Newer(rd, u, v))
  BY <1>1, <1>4, <1>5, NewerAppended
<1>7. \A u, v : /\ Newer(log2, u, v) <=> u = x \/ (v # x /\ Newer(log, u, v))
                /\ Visited(log2, u) <=> u = x \/ Visited(log, u)
  BY <1>1, SettledOrder DEF log2
<1>8. /\ \A u, v \in Uid : Newer(log, u, v) => Newer(rd, u, v)
      /\ ReadsFind(s, q, rs, SameBelow(rd, log))
      /\ loaded => \A u, v \in Uid : Newer(rd, u, v) => Newer(log, u, v)
  BY <1>4 DEF OrderFacts, d, rd
<1>9. SameBelow(rd, log) \subseteq SameBelow(re, log2)
  BY <1>6, <1>7 DEF SameBelow
<1>10. ReadsFind(s, q, rs, SameBelow(re, log2))
  BY <1>8, <1>9 DEF ReadsFind
<1>11. ReadsFind(s, p, rs, SameBelow(re, log2))
  BY <1>1, <1>10, PostedFinds
<1> QED
  BY <1>6, <1>7, <1>8, <1>11

(* The store runs the oldest call. *)
LEMMA OrderRun ==
    ASSUME NEW s, NEW q, IsSeq(q), q # <<>>, NEW rs, IsSeq(rs), NEW log, NEW loaded,
           OrderFacts(s, q, rs, log, loaded)
    PROVE  OrderFacts(RunCall(s, Head(q)), Tail(q),
                      rs \o ReplyTo(RunCall(s, Head(q)), Head(q)), log, loaded)
<1> DEFINE r == RunCall(s, Head(q))
           t == Tail(q)
           rs2 == rs \o ReplyTo(RunCall(s, Head(q)), Head(q))
           d == Drained(s, q)
<1>1. Drained(r, t) = d
  BY StepRuns
<1>2. \A X : ReadsFind(s, q, rs, X) => ReadsFind(r, t, rs2, X)
  BY RunFinds
<1> HIDE DEF r, t, rs2, d
<1>3. OrderFacts(r, t, rs2, log, loaded)
  BY <1>1, <1>2 DEF OrderFacts, d
<1> QED
  BY <1>3 DEF r, t, rs2

(* A reply is delivered that is not the journal's. *)
LEMMA OrderDelivered ==
    ASSUME NEW s, NEW q, NEW rs, IsSeq(rs), rs # <<>>, NEW log, NEW loaded,
           OrderFacts(s, q, rs, log, loaded)
    PROVE  OrderFacts(s, q, Tail(rs), log, loaded)
BY DeliveredFinds DEF OrderFacts

(* The journal is loaded. *)
LEMMA OrderLoaded ==
    ASSUME NEW s, StoreOK(s), NEW q, CallsOK(q), NEW rs, IsSeq(rs), rs # <<>>,
           NEW log \in Seq(Uid), NEW loaded, Head(rs).op = "readAll",
           Head(rs).rows \in Seq(Uid \cup {NoUid}), OrderFacts(s, q, rs, log, loaded)
    PROVE  OrderFacts(s, q, Tail(rs), MergedLog(Head(rs).rows, log), TRUE)
<1> DEFINE rows == Head(rs).rows
           d == ReadAll(Drained(s, q))
           t == Tail(rs)
           log2 == MergedLog(rows, log)
<1>1. SUFFICES ASSUME Len(Drained(s, q).visits) < MaxVisits
               PROVE  /\ \A u, v \in Uid : Newer(log2, u, v) => Newer(d, u, v)
                      /\ ReadsFind(s, q, t, SameBelow(d, log2))
                      /\ \A u, v \in Uid : Newer(d, u, v) => Newer(log2, u, v)
  BY DEF OrderFacts
<1>2. /\ \A u, v \in Uid : Newer(log, u, v) => Newer(d, u, v)
      /\ ReadsFind(s, q, rs, SameBelow(d, log))
  BY <1>1 DEF OrderFacts
<1>3. ReadsFind(s, q, t, SameBelow(d, log)) /\ rows \in SameBelow(d, log)
  BY <1>2, DeliveredFinds
<1>4. Len(log) \in Nat /\ Len(d) \in Nat
  BY RunsOK, RowsOK
<1>5. \A u, v \in Uid : Newer(log2, u, v) <=>
          \/ Newer(log, u, v)
          \/ ~Visited(log, u) /\ ~Visited(log, v) /\ Newer(rows, u, v)
  BY MergedOrder
<1> HIDE DEF rows, d, t, log2
<1>6. \A u, v \in Uid : Newer(log2, u, v) <=>
          \/ Newer(log, u, v)
          \/ ~Visited(log, u) /\ ~Visited(log, v) /\ Newer(d, u, v)
  BY <1>3, <1>5 DEF SameBelow
<1>7. ASSUME NEW u \in Uid, NEW v \in Uid, Newer(d, u, v) PROVE Newer(log2, u, v)
  <2>1. CASE ~Visited(log, u) /\ ~Visited(log, v)
    BY <1>6, <1>7, <2>1
  <2>2. CASE Visited(log, u) /\ ~Visited(log, v)
    <3>1. Newer(log, u, v)
      BY <2>2 DEF Visited, Newer
    <3> QED
      BY <1>6, <3>1
  <2>3. CASE ~Visited(log, u) /\ Visited(log, v)
    <3>1. Newer(log, v, u)
      BY <2>3 DEF Visited, Newer
    <3>2. Newer(d, v, u)
      BY <1>2, <3>1
    <3>3. u = v
      BY <1>4, <1>7, <3>2, OneIsNewer
    <3> QED
      BY <2>3, <3>3
  <2>4. CASE Visited(log, u) /\ Visited(log, v)
    <3>1. Newer(log, u, v) \/ Newer(log, v, u)
      BY <1>4, <2>4, OneIsNewer
    <3>2. CASE Newer(log, v, u)
      <4>1. Newer(d, v, u)
        BY <1>2, <3>2
      <4>2. u = v
        BY <1>4, <1>7, <4>1, OneIsNewer
      <4> QED
        BY <1>6, <3>2, <4>2
    <3> QED
      BY <1>6, <3>1, <3>2
  <2> QED
    BY <2>1, <2>2, <2>3, <2>4
<1>8. SameBelow(d, log) \subseteq SameBelow(d, log2)
  <2>1. \A u \in Uid : Visited(log, u) => Visited(log2, u)
    <3> SUFFICES ASSUME NEW u \in Uid, Visited(log, u) PROVE Visited(log2, u)
      OBVIOUS
    <3>1. Newer(log, u, u)
      BY <1>4, OneIsNewer
    <3>2. Newer(log2, u, u)
      BY <1>6, <3>1
    <3> QED
      BY <3>2 DEF Newer, Visited
  <2> QED
    BY <2>1 DEF SameBelow
<1>9. ReadsFind(s, q, t, SameBelow(d, log2))
  BY <1>3, <1>8 DEF ReadsFind
<1> QED
  BY <1>2, <1>6, <1>7, <1>9

(* The start of a process: nothing is under way, nothing is loaded. *)
LEMMA OrderFresh ==
    ASSUME NEW s
    PROVE  OrderFacts(s, <<>>, <<>>, <<>>, FALSE)
<1>1. Len(<<>>) = 0
  OBVIOUS
<1>2. \A u, v : ~Newer(<<>>, u, v)
  BY <1>1 DEF Newer
<1>3. \A X : ReadsFind(s, <<>>, <<>>, X)
  BY <1>1 DEF ReadsFind
<1> QED
  BY <1>2, <1>3 DEF OrderFacts

-----------------------------------------------------------------------------
(* Every page that is visited is recordable, nothing fails and nothing is     *)
(* cleared.                                                                   *)
EverythingIsRecorded ==
    /\ ~StoreMayFail /\ MaxClears = 0
    /\ InsertUrl \subseteq Url /\ "fallback" \notin ReopenOutcomes

(* Every open tab is at a recordable page. *)
TabsAreRecordable == \A uid \in Live : tabs[uid] \in Url

(* The inductive invariant. *)
MruInv ==
    /\ TabsAreRecordable
    /\ PagesOK(store, queue)
    /\ OrderFacts(store, queue, replies, settledLog, journalLoaded)

(* A closed tab is at the page the sidecar has for it. *)
LEMMA CachedPages ==
    ASSUME CInv, CacheInv, MruInv
    PROVE  \A uid \in DOMAIN reopenable : reopenable[uid] \in Url
<1> DEFINE side == Drained(store, queue).sidecar
<1>1. Len(queue) \in 0..Len(queue)
  <2>1. PICK S : queue \in Seq(S)
    BY DEF CInv, CallsOK, IsSeq
  <2> QED
    BY <2>1
<1>2. \A u \in DOMAIN side : side[u].url \in Url
  BY <1>1 DEF MruInv, PagesOK, Drained
<1>3. Backed(side, reopenable)
  BY DEF CacheInv, CacheFacts, Sound
<1> HIDE DEF side
<1> QED
  BY <1>2, <1>3 DEF Backed, Closed

(* A handler that leaves the log, the queues and the journal alone. *)
LEMMA OrderUnchanged ==
    ASSUME MruInv, TabsAreRecordable',
           UNCHANGED <<settledLog, journalLoaded, store, queue, replies>>
    PROVE  MruInv'
BY DEF MruInv

(* A visit is settled and posted. *)
LEMMA VisitKeepsOrder ==
    ASSUME CInv, NEW q, CallsOK(q), NEW uid \in Uid, NEW gen \in Nat,
           PagesOK(store, q), OrderFacts(store, q, replies, settledLog, journalLoaded)
    PROVE  /\ PagesOK(store, q \o <<RecordVisit(uid, gen)>>)
           /\ OrderFacts(store, q \o <<RecordVisit(uid, gen)>>, replies, Settled(settledLog, uid),
                         journalLoaded)
<1> DEFINE c == RecordVisit(uid, gen)
<1>1. now \in Nat /\ StoreOK(store) /\ settledLog \in Seq(Uid)
  BY DEF CInv, ClockOK, LogOK
<1>2. CallOK(c) /\ c.op = "append" /\ c.uid = uid
  BY <1>1 DEF CallOK, RecordVisit
<1> HIDE DEF c
<1>3. PagesOK(store, q \o <<c>>)
  BY <1>1, <1>2, PostedPages
<1>4. OrderFacts(store, q \o <<c>>, replies, Settled(settledLog, c.uid), journalLoaded)
  BY <1>1, <1>2, OrderVisited
<1> QED
  BY <1>2, <1>3, <1>4 DEF c

(* A row of the sidecar is posted. *)
LEMMA RowKeepsOrder ==
    ASSUME CInv, MruInv, NEW uid \in Uid, NEW closed \in BOOLEAN, NEW url \in Url
    PROVE  LET q == queue \o <<SetTabState(uid, closed, url)>>
           IN  /\ PagesOK(store, q)
               /\ OrderFacts(store, q, replies, settledLog, journalLoaded)
<1> DEFINE c == SetTabState(uid, closed, url)
<1>1. StoreOK(store) /\ CallsOK(queue)
  BY DEF CInv
<1>2. CallOK(c) /\ c.op = "upsert" /\ c.row.url \in Url
  BY DEF CallOK, SetTabState, Row, TabUrl
<1> HIDE DEF c
<1>3. PagesOK(store, queue \o <<c>>)
  BY <1>1, <1>2, PostedPages DEF MruInv
<1>4. OrderFacts(store, queue \o <<c>>, replies, settledLog, journalLoaded)
  BY <1>1, <1>2, OrderPosted DEF MruInv
<1> QED
  BY <1>3, <1>4 DEF c

(* Bringing a tab to the front; the URL it settles at is recordable. *)
LEMMA LandKeepsOrder ==
    ASSUME CInv, CacheInv, MruInv, EverythingIsRecorded, NEW uid, NEW how \in ReopenOutcomes,
           Land(uid, how)
    PROVE  LET q == queue \o RebindCalls(uid, how)
           IN  /\ CallsOK(q) /\ PagesOK(store, q)
               /\ OrderFacts(store, q, replies, settledLog, journalLoaded)
               /\ TabsAreRecordable'
               /\ uid \in Live \/ Reopens(uid, how) => uid \in Uid /\ SettledUrl(uid, how) \in Url
<1>0. /\ CallsOK(queue) /\ CallsOK(RebindCalls(uid, how))
      /\ uid \in Live \/ Reopens(uid, how) => uid \in Uid
  BY LandKeeps DEF CInv
<1>1. CallsOK(queue \o RebindCalls(uid, how))
  BY <1>0, BothOK
<1>2. \A u \in DOMAIN reopenable : reopenable[u] \in Url
  BY CachedPages
<1>3. \A u \in Live : tabs[u] \in Url
  BY DEF MruInv, TabsAreRecordable
<1>4. CASE Reopens(uid, how)
  <2>1. uid \in DOMAIN reopenable /\ reopenable[uid] \in Url /\ uid \notin Live /\ how = "exact"
    BY <1>2, <1>4, TabVisitAssumption DEF Reopens, EverythingIsRecorded
  <2>2. tabs' = Put(tabs, uid, reopenable[uid])
    BY <1>4, <2>1 DEF Land
  <2>3. TabsAreRecordable'
    BY <1>3, <2>1, <2>2 DEF TabsAreRecordable, Live, Put
  <2>4. SettledUrl(uid, how) \in Url
    BY <1>4, <2>1 DEF SettledUrl
  <2>5. RebindCalls(uid, how) = <<SetTabState(uid, FALSE, reopenable[uid])>>
    BY <1>4 DEF RebindCalls
  <2>6. /\ PagesOK(store, queue \o <<SetTabState(uid, FALSE, reopenable[uid])>>)
        /\ OrderFacts(store, queue \o <<SetTabState(uid, FALSE, reopenable[uid])>>, replies,
                      settledLog, journalLoaded)
    BY <1>0, <1>4, <2>1, RowKeepsOrder
  <2> QED
    BY <1>0, <1>1, <2>3, <2>4, <2>5, <2>6
<1>5. CASE ~Reopens(uid, how)
  <2>1. queue \o RebindCalls(uid, how) = queue
    <3>1. RebindCalls(uid, how) = <<>>
      BY <1>5 DEF RebindCalls
    <3>2. PICK S : queue \in Seq(S)
      BY <1>0 DEF CallsOK, IsSeq
    <3> QED
      BY <3>1, <3>2
  <2>2. tabs' = tabs
    BY <1>5 DEF Land
  <2>3. TabsAreRecordable'
    BY <1>3, <2>2 DEF TabsAreRecordable, Live
  <2>4. uid \in Live => SettledUrl(uid, how) \in Url
    BY <1>3, <1>5 DEF SettledUrl
  <2> QED
    BY <1>0, <1>5, <2>1, <2>3, <2>4 DEF MruInv
<1> QED
  BY <1>4, <1>5

(* The end of a gesture. *)
LEMMA SettleKeepsOrder ==
    ASSUME CInv, CacheInv, MruInv, EverythingIsRecorded, NEW how \in ReopenOutcomes, Settle(how)
    PROVE  MruInv'
<1>0. store' = store /\ replies' = replies /\ journalLoaded' = journalLoaded
  BY DEF Settle, loadVars
<1>1. CASE HasCurrent(controller) /\ Current(controller) # anchor
  <2> DEFINE uid == Current(controller)
             found == uid \in Live \/ Reopens(uid, how)
             visit == IF found /\ SettledUrl(uid, how) \in Url
                      THEN <<RecordVisit(uid, gestureGeneration)>> ELSE <<>>
             rebind == RebindCalls(uid, how)
             q == queue \o rebind
  <2>1. /\ Land(uid, how) /\ queue' = queue \o (rebind \o visit)
        /\ settledLog' = IF found THEN Settled(settledLog, uid) ELSE settledLog
    BY <1>1 DEF Settle, Post
  <2>2. /\ CallsOK(q) /\ PagesOK(store, q)
        /\ OrderFacts(store, q, replies, settledLog, journalLoaded)
        /\ TabsAreRecordable'
        /\ found => uid \in Uid /\ SettledUrl(uid, how) \in Url
    BY <2>1, LandKeepsOrder
  <2>3. CallsOK(queue) /\ CallsOK(rebind)
    BY <2>1, LandKeeps DEF CInv
  <2>4. gestureGeneration \in Nat
    BY DEF CInv, GestureOK
  <2> HIDE DEF rebind, uid, found
  <2>5. CASE found
    <3> DEFINE v == RecordVisit(uid, gestureGeneration)
    <3>1. visit = <<v>>
      BY <2>2, <2>5
    <3>2. queue' = q \o <<v>>
      <4>1. PICK S : queue \in Seq(S)
        BY <2>3 DEF CallsOK, IsSeq
      <4>2. PICK T : rebind \in Seq(T)
        BY <2>3 DEF CallsOK, IsSeq
      <4> HIDE DEF v, visit
      <4>3. /\ queue \in Seq(S \cup T \cup {v}) /\ rebind \in Seq(S \cup T \cup {v})
            /\ <<v>> \in Seq(S \cup T \cup {v})
        BY <4>1, <4>2
      <4> QED
        BY <2>1, <3>1, <4>3, ConcatAssociative
    <3>3. /\ PagesOK(store, q \o <<v>>)
          /\ OrderFacts(store, q \o <<v>>, replies, Settled(settledLog, uid), journalLoaded)
      <4> HIDE DEF q
      <4> QED
        BY <2>2, <2>4, <2>5, VisitKeepsOrder
    <3>4. settledLog' = Settled(settledLog, uid)
      BY <2>1, <2>5
    <3> QED
      BY <1>0, <2>2, <3>2, <3>3, <3>4 DEF MruInv
  <2>6. CASE ~found
    <3>1. rebind \o visit = rebind
      <4>1. visit = <<>>
        BY <2>6
      <4>2. PICK T : rebind \in Seq(T)
        BY <2>3 DEF CallsOK, IsSeq
      <4> HIDE DEF visit
      <4> QED
        BY <4>1, <4>2
    <3>2. settledLog' = settledLog /\ queue' = q
      BY <2>1, <2>6, <3>1
    <3> QED
      BY <1>0, <2>2, <3>2 DEF MruInv
  <2> QED
    BY <2>5, <2>6
<1>2. CASE ~(HasCurrent(controller) /\ Current(controller) # anchor)
  <2>1. UNCHANGED <<tabs, settledLog, queue>>
    BY <1>2 DEF Settle
  <2>2. TabsAreRecordable'
    BY <2>1 DEF MruInv, TabsAreRecordable, Live
  <2> QED
    BY <1>0, <2>1, <2>2, OrderUnchanged
<1> QED
  BY <1>1, <1>2

(* What the user does. *)
LEMMA UserStepKeepsOrder ==
    ASSUME CInv, CacheInv, MruInv, EverythingIsRecorded, UserStep
    PROVE  MruInv'
<1>0. /\ StoreOK(store) /\ CallsOK(queue) /\ generation \in Nat
      /\ \A uid \in Live : tabs[uid] \in Url
  BY DEF CInv, CacheOK, MruInv, TabsAreRecordable
<1>1. ASSUME NEW uid \in Uid, NEW url \in InsertUrl, NEW fg \in BOOLEAN,
             InsertTab(uid, url, fg)
      PROVE  MruInv'
  <2>1. TabsAreRecordable'
    BY <1>0, <1>1 DEF InsertTab, TabsAreRecordable, Live, Put, EverythingIsRecorded
  <2> QED
    BY <1>1, <2>1, OrderUnchanged DEF InsertTab, loadVars, storeVars
<1>2. ASSUME NEW uid \in Uid, SelectTab(uid)
      PROVE  MruInv'
  <2>1. /\ UNCHANGED <<tabs, store, replies, journalLoaded>>
        /\ tabs[uid] \in Url
    BY <1>0, <1>2 DEF SelectTab, loadVars
  <2>2. TabsAreRecordable'
    BY <1>0, <2>1 DEF TabsAreRecordable, Live
  <2>3. CASE BridgeCommits
    <3>1. /\ queue' = queue \o <<RecordVisit(uid, generation)>>
          /\ settledLog' = Settled(settledLog, uid)
      BY <1>2, <2>1, <2>3 DEF SelectTab, Post
    <3>2. /\ PagesOK(store, queue \o <<RecordVisit(uid, generation)>>)
          /\ OrderFacts(store, queue \o <<RecordVisit(uid, generation)>>, replies,
                        Settled(settledLog, uid), journalLoaded)
      BY <1>0, VisitKeepsOrder DEF MruInv
    <3> QED
      BY <2>1, <2>2, <3>1, <3>2 DEF MruInv
  <2>4. CASE ~BridgeCommits
    <3>1. UNCHANGED <<settledLog, queue>>
      BY <1>2, <2>4 DEF SelectTab
    <3> QED
      BY <2>1, <2>2, <3>1, OrderUnchanged
  <2> QED
    BY <2>3, <2>4
<1>3. ASSUME NEW uid \in Uid, NEW successor \in Uid \cup {NoUid}, CloseTab(uid, successor)
      PROVE  MruInv'
  <2>1. /\ uid \in Live /\ tabs[uid] \in Url
        /\ tabs' = Restrict(tabs, Live \ {uid})
        /\ queue' = queue \o <<SetTabState(uid, TRUE, tabs[uid])>>
        /\ UNCHANGED <<store, replies, settledLog, journalLoaded>>
    BY <1>0, <1>3 DEF CloseTab, Post, loadVars
  <2>2. TabsAreRecordable'
    BY <1>0, <2>1 DEF TabsAreRecordable, Live, Restrict
  <2>3. /\ PagesOK(store, queue \o <<SetTabState(uid, TRUE, tabs[uid])>>)
        /\ OrderFacts(store, queue \o <<SetTabState(uid, TRUE, tabs[uid])>>, replies,
                      settledLog, journalLoaded)
    BY <2>1, RowKeepsOrder
  <2> QED
    BY <2>1, <2>2, <2>3 DEF MruInv
<1>4. ASSUME NEW uid \in Uid, NEW url \in Url, Navigate(uid, url)
      PROVE  MruInv'
  <2>1. TabsAreRecordable'
    BY <1>0, <1>4 DEF Navigate, TabsAreRecordable, Live
  <2> QED
    BY <1>4, <2>1, OrderUnchanged DEF Navigate, loadVars, storeVars
<1>5. ASSUME UNCHANGED <<tabs, settledLog, loadVars, storeVars>>
      PROVE  MruInv'
  <2>1. TabsAreRecordable'
    BY <1>0, <1>5 DEF TabsAreRecordable, Live
  <2> QED
    BY <1>5, <2>1, OrderUnchanged DEF loadVars, storeVars
<1>6. CASE SetReopenClosed \/ CancelGesture
  BY <1>5, <1>6 DEF SetReopenClosed, CancelGesture, browserVars
<1>7. ASSUME NEW c, NEW how \in ReopenOutcomes, Gesture(c, how)
      PROVE  MruInv'
  <2>1. /\ Land(Current(c), how) /\ queue' = queue \o RebindCalls(Current(c), how)
        /\ UNCHANGED <<store, replies, settledLog, journalLoaded>>
    BY <1>7 DEF Gesture, Post, loadVars
  <2>2. /\ PagesOK(store, queue \o RebindCalls(Current(c), how))
        /\ OrderFacts(store, queue \o RebindCalls(Current(c), how), replies, settledLog,
                      journalLoaded)
        /\ TabsAreRecordable'
    BY <2>1, LandKeepsOrder
  <2> QED
    BY <2>1, <2>2 DEF MruInv
<1>8. ASSUME NEW how \in ReopenOutcomes, StepBack(how) \/ StepForward(how)
      PROVE  MruInv'
  BY <1>7, <1>8 DEF StepBack, StepForward
<1>9. ASSUME NEW how \in ReopenOutcomes, ReleaseChord(how)
      PROVE  MruInv'
  BY <1>9, SettleKeepsOrder DEF ReleaseChord
<1>10. \A begin, end : ~ClearBrowsingData(begin, end)
  BY <1>0 DEF ClearBrowsingData, EverythingIsRecorded
<1> QED
  BY <1>1, <1>2, <1>3, <1>4, <1>6, <1>8, <1>9, <1>10 DEF UserStep

(* What the store sequence, the timer and the process do. *)
LEMMA SystemStepKeepsOrder ==
    ASSUME CInv, CacheInv, MruInv, EverythingIsRecorded, SystemStep
    PROVE  MruInv'
<1>0. /\ StoreOK(store) /\ CallsOK(queue) /\ RepliesOK(replies) /\ generation \in Nat
      /\ settledLog \in Seq(Uid) /\ IsSeq(queue) /\ IsSeq(replies)
      /\ \A uid \in Live : tabs[uid] \in Url
  BY DEF CInv, CacheOK, LogOK, CallsOK, RepliesOK, MruInv, TabsAreRecordable
<1>1. ASSUME tabs' = tabs PROVE TabsAreRecordable'
  BY <1>0, <1>1 DEF TabsAreRecordable, Live
<1>2. ASSUME NEW how \in ReopenOutcomes, DebounceFires(how)
      PROVE  MruInv'
  BY <1>2, SettleKeepsOrder DEF DebounceFires
<1>3. CASE LoadPersistedJournal
  <2> DEFINE x == GetVisits
             y == GetAllTabStates(generation)
             q == queue \o <<x>>
  <2>1. /\ queue' = queue \o <<x, y>>
        /\ UNCHANGED <<tabs, store, replies, settledLog, journalLoaded>>
    BY <1>3 DEF LoadPersistedJournal, Post, browserVars
  <2>2. /\ CallOK(x) /\ x.op = "readAll"
        /\ CallOK(y) /\ y.op = "readTabStates"
    BY <1>0 DEF CallOK, GetVisits, GetAllTabStates
  <2> HIDE DEF x, y
  <2>3. PagesOK(store, q) /\ OrderFacts(store, q, replies, settledLog, journalLoaded)
    BY <1>0, <2>2, PostedPages, OrderPosted DEF MruInv
  <2>4. CallsOK(q)
    BY <1>0, <2>2, OneOK, BothOK
  <2>5. queue' = q \o <<y>>
    <3>1. PICK S : queue \in Seq(S)
      BY <1>0 DEF IsSeq
    <3>2. <<x, y>> = <<x>> \o <<y>>
      BY TwoInARow
    <3>3. /\ queue \in Seq(S \cup {x, y}) /\ <<x>> \in Seq(S \cup {x, y})
          /\ <<y>> \in Seq(S \cup {x, y})
      BY <3>1, SeqMonotonic
    <3> QED
      BY <2>1, <3>2, <3>3, ConcatAssociative
  <2> HIDE DEF q
  <2>6. /\ PagesOK(store, q \o <<y>>)
        /\ OrderFacts(store, q \o <<y>>, replies, settledLog, journalLoaded)
    BY <1>0, <2>2, <2>3, <2>4, PostedPages, OrderPosted
  <2> QED
    BY <1>1, <2>1, <2>5, <2>6 DEF MruInv
<1>4. CASE StoreStep
  <2> DEFINE r == RunCall(store, Head(queue))
             rs == replies \o ReplyTo(r, Head(queue))
  <2>1. /\ queue # <<>> /\ store' = r /\ queue' = Tail(queue) /\ replies' = rs
        /\ UNCHANGED <<tabs, settledLog, journalLoaded>>
    BY <1>4 DEF StoreStep, loadVars, browserVars, EverythingIsRecorded
  <2>2. PagesOK(r, Tail(queue))
    BY <1>0, <2>1, RunPages DEF MruInv
  <2>3. OrderFacts(r, Tail(queue), rs, settledLog, journalLoaded)
    BY <1>0, <2>1, OrderRun DEF MruInv
  <2> HIDE DEF r, rs
  <2> QED
    BY <1>1, <2>1, <2>2, <2>3 DEF MruInv
<1>5. CASE DeliverReply
  <2>1. /\ replies # <<>> /\ replies' = Tail(replies) /\ UNCHANGED <<tabs, store>>
        /\ ReplyOK(Head(replies))
    BY <1>0, <1>5, HeadAndTailOK DEF DeliverReply, browserVars
  <2>2. OrderFacts(store, queue, Tail(replies), settledLog, journalLoaded)
    BY <1>0, <2>1, OrderDelivered DEF MruInv
  <2>3. ASSUME Head(replies).op = "readAll", OnJournalLoaded(Head(replies).rows)
        PROVE  MruInv'
    <3>1. /\ settledLog' = MergedLog(Head(replies).rows, settledLog)
          /\ journalLoaded' = TRUE /\ queue' = queue
      BY <2>3 DEF OnJournalLoaded
    <3>2. Head(replies).rows \in Seq(Uid \cup {NoUid})
      BY <2>1, <2>3 DEF ReplyOK
    <3>3. OrderFacts(store, queue, Tail(replies), MergedLog(Head(replies).rows, settledLog), TRUE)
      BY <1>0, <2>1, <2>3, <3>2, OrderLoaded DEF MruInv
    <3> QED
      BY <1>1, <2>1, <3>1, <3>3 DEF MruInv
  <2>4. ASSUME OnReopenableLoaded(Head(replies).gen, Head(replies).rows)
        PROVE  MruInv'
    <3>1. UNCHANGED <<settledLog, journalLoaded, queue>>
      BY <2>4 DEF OnReopenableLoaded, loadVars
    <3> QED
      BY <1>1, <2>1, <2>2, <3>1 DEF MruInv
  <2>5. ASSUME OnBrowsingDataCleared
        PROVE  MruInv'
    <3> DEFINE c == GetAllTabStates(generation)
    <3>1. queue' = queue \o <<c>> /\ UNCHANGED <<settledLog, journalLoaded>>
      BY <2>5 DEF OnBrowsingDataCleared, Post, loadVars
    <3>2. CallOK(c) /\ c.op = "readTabStates"
      BY <1>0 DEF CallOK, GetAllTabStates
    <3> HIDE DEF c
    <3>3. /\ PagesOK(store, queue \o <<c>>)
          /\ OrderFacts(store, queue \o <<c>>, Tail(replies), settledLog, journalLoaded)
      BY <1>0, <2>2, <3>2, PostedPages, OrderPosted DEF MruInv
    <3> QED
      BY <1>1, <2>1, <3>1, <3>3 DEF MruInv
  <2> QED
    BY <1>5, <2>3, <2>4, <2>5 DEF DeliverReply
<1>6. CASE Tick
  BY <1>1, <1>6, OrderUnchanged DEF Tick, loadVars, storeVars
<1>7. CASE Restart
  <2>1. /\ queue' = <<>> /\ replies' = <<>> /\ store' = store /\ tabs' = EmptyFunction
        /\ settledLog' = <<>> /\ journalLoaded' = FALSE
    BY <1>7 DEF Restart, EverythingIsRecorded
  <2>2. TabsAreRecordable'
    <3>1. DOMAIN <<>> = {}
      OBVIOUS
    <3> QED
      BY <2>1, <3>1 DEF TabsAreRecordable, Live, EmptyFunction
  <2>3. PagesOK(store, <<>>)
    BY <1>0, RestartPages DEF MruInv
  <2> QED
    BY <2>1, <2>2, <2>3, OrderFresh DEF MruInv
<1> QED
  BY <1>2, <1>3, <1>4, <1>5, <1>6, <1>7 DEF SystemStep

(* A fresh profile has nothing but, perhaps, a legacy row. *)
LEMMA InitOrder == Init => MruInv
<1> SUFFICES ASSUME Init PROVE MruInv
  OBVIOUS
<1>1. /\ tabs = <<>> /\ queue = <<>> /\ replies = <<>> /\ settledLog = <<>>
      /\ journalLoaded = FALSE /\ store.sidecar = <<>>
  <2>1. EmptyStore.sidecar = <<>> /\ \A v : [EmptyStore EXCEPT !.visits = v].sidecar = <<>>
    BY DEF EmptyStore
  <2> QED
    BY <2>1 DEF Init, EmptyFunction
<1>2. DOMAIN <<>> = {} /\ Len(<<>>) = 0 /\ Len(<<>>) \in Nat
  OBVIOUS
<1>3. TabsAreRecordable
  BY <1>1, <1>2 DEF TabsAreRecordable, Live
<1>4. PagesOK(store, <<>>)
  <2>1. StoresAlong(store, <<>>)[0] = store
    BY <1>2, StoresAlongRuns
  <2>2. \A i \in 0..0 : i = 0
    OBVIOUS
  <2> QED
    BY <1>1, <1>2, <2>1, <2>2 DEF PagesOK
<1> QED
  BY <1>1, <1>3, <1>4, OrderFresh DEF MruInv

(* Every step keeps it. *)
LEMMA NextOrder ==
    EverythingIsRecorded /\ CInv /\ CacheInv /\ MruInv /\ [Next]_vars => MruInv'
<1> SUFFICES ASSUME EverythingIsRecorded, CInv, CacheInv, MruInv, [Next]_vars PROVE MruInv'
  OBVIOUS
<1>1. CASE UNCHANGED vars
  <2>1. UNCHANGED <<tabs, settledLog, journalLoaded, store, queue, replies>>
    BY <1>1 DEF vars, browserVars, loadVars, storeVars
  <2>2. TabsAreRecordable'
    BY <2>1 DEF TabsAreRecordable, Live, MruInv
  <2> QED
    BY <2>1, <2>2, OrderUnchanged
<1> QED
  BY <1>1, UserStepKeepsOrder, SystemStepKeepsOrder DEF Next

(* It says what the property says. *)
LEMMA MruInvIsEnough == CInv /\ MruInv => MruSurvivesRestart
<1> SUFFICES ASSUME CInv, MruInv, journalLoaded, Len(DrainedStore.visits) < MaxVisits
             PROVE  DeriveMruOrder(settledLog) = DeriveMruOrder(Identified(ReadAll(DrainedStore)))
  BY DEF MruSurvivesRestart
<1> DEFINE d == ReadAll(DrainedStore)
           known == Identified(d)
<1>1. DrainedStore = Drained(store, queue)
  BY DEF DrainedStore, Drained
<1>2. d \in Seq(Uid \cup {NoUid}) /\ settledLog \in Seq(Uid)
  BY <1>1, RunsOK, RowsOK DEF CInv, LogOK
<1>3. \A u, v \in Uid : Newer(settledLog, u, v) <=> Newer(d, u, v)
  BY <1>1 DEF MruInv, OrderFacts
<1> HIDE DEF d
<1>4. \A u, v \in Uid : Newer(known, u, v) <=> Newer(d, u, v)
  BY <1>2, IdentifiedKeepsOrder
<1>5. known \in Seq(Uid)
  <2> DEFINE P == {i \in 1..Len(d) : d[i] # NoUid}
  <2>1. known \in Seq({d[i] : i \in P})
    BY <1>2, ElementsAtIsASequence DEF Identified
  <2>2. {d[i] : i \in P} \subseteq Uid
    BY <1>2
  <2> HIDE DEF known, P
  <2> QED
    BY <2>1, <2>2, SeqMonotonic
<1> HIDE DEF known
<1>6. DeriveMruOrder(settledLog) = DeriveMruOrder(known)
  BY <1>2, <1>3, <1>4, <1>5, SameOrder
<1> QED
  BY <1>6 DEF known, d

(* Where every visited page is recordable, nothing fails and nothing is       *)
(* cleared: once the journal is loaded, and until it reaches its cap, the     *)
(* order that Back walks is the order a process started on the journal would  *)
(* derive, whatever visits, closes and reopens crossed the load, for any      *)
(* number of tabs, posted calls and restarts.                                 *)
THEOREM MruOrderSurvives ==
    ASSUME EverythingIsRecorded
    PROVE  Spec => []MruSurvivesRestart
<1>0. ~StoreMayFail
  BY DEF EverythingIsRecorded
<1>1. Init => CInv /\ CacheInv /\ MruInv
  BY InitCInv, InitCache, InitOrder
<1>2. CInv /\ CacheInv /\ MruInv /\ [Next]_vars => CInv' /\ CacheInv' /\ MruInv'
  BY <1>0, NextCInv, NextCache, NextOrder
<1>3. CInv /\ CacheInv /\ MruInv => MruSurvivesRestart
  BY MruInvIsEnough
<1> QED
  BY <1>1, <1>2, <1>3, PTL DEF Spec
=============================================================================
