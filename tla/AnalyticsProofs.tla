--------------------------- MODULE AnalyticsProofs ---------------------------
(***************************************************************************)
(* Proofs about AnalyticsFacade for every batch limit and every bound.     *)
(***************************************************************************)
EXTENDS Analytics, SequenceTheorems, TLAPS

\* Everything queued was tracked under the consent in force: an opt-out leaves
\* nothing behind for the next opt-in.
OfThisConsent == \A i \in 1..Len(queue) : queue[i].epoch = epoch

QuietWhenKilled == killed => queue = <<>>

\* The inductive invariant.  AFlushForEveryEvent is inductive because a flush
\* that starts takes at least one event; what a batch holds follows from what
\* the queue held when the batch was cut.
Inv ==
  /\ TypeOK
  /\ AFlushForEveryEvent
  /\ OfThisConsent
  /\ QuietWhenKilled

\* What the loop of flushOnce does to a queue: it cuts a prefix that is sent
\* under consent, and leaves a shorter queue, or it returns.
LEMMA LoopCuts ==
  ASSUME NEW q \in Seq(Event), FlushLoop(q),
         \A i \in 1..Len(q) : q[i].epoch = epoch
  PROVE  /\ inflight' \in Seq(Event) /\ queue' \in Seq(Event)
         /\ Len(q) \in Nat /\ Len(queue') \in Nat
         /\ Len(queue') <= Len(q)
         /\ q # <<>> /\ IsEnabled => Len(queue') < Len(q)
         /\ q = <<>> => queue' = <<>>
         /\ \A i \in 1..Len(queue') : queue'[i].epoch = epoch
         /\ inflight' # <<>> => IsEnabled
         /\ \A i \in 1..Len(inflight') : inflight'[i].epoch = epoch
<1>1. Len(q) \in Nat
  BY LenProperties
<1>2. CASE q # <<>> /\ IsEnabled
  <2> DEFINE n == TakeLen(q)
  <2>1. n \in 1..Len(q)
    <3>1. Len(q) # 0
      BY <1>2, EmptySeq
    <3> QED BY <1>1, <3>1, AnalyticsAssumption DEF TakeLen
  <2>2. inflight' = SubSeq(q, 1, n) /\ queue' = SubSeq(q, n + 1, Len(q))
    BY <1>2 DEF FlushLoop
  <2> HIDE DEF n
  <2>3. /\ inflight' \in Seq(Event) /\ Len(inflight') = n
        /\ \A i \in 1..n : inflight'[i] = q[i]
    BY <1>1, <2>1, <2>2, SubSeqProperties
  <2>4. /\ queue' \in Seq(Event) /\ Len(queue') = Len(q) - n
        /\ \A i \in 1..Len(q) - n : queue'[i] = q[n + i]
    BY <1>1, <2>1, <2>2, SubSeqProperties
  <2>5. \A i \in 1..Len(inflight') : inflight'[i].epoch = epoch
    BY <1>1, <2>1, <2>3
  <2>6. ASSUME NEW i \in 1..Len(queue') PROVE queue'[i].epoch = epoch
    <3>1. n + i \in 1..Len(q) /\ queue'[i] = q[n + i]
      BY <1>1, <2>1, <2>4
    <3> QED BY <3>1
  <2> QED BY <1>1, <1>2, <2>1, <2>3, <2>4, <2>5, <2>6
<1>3. CASE ~(q # <<>> /\ IsEnabled)
  <2>1. inflight' = <<>> /\ queue' = q
    BY <1>3 DEF FlushLoop
  <2>2. inflight' \in Seq(Event) /\ Len(inflight') = 0
    BY <2>1, EmptySeq
  <2> QED BY <1>1, <1>3, <2>1, <2>2
<1> QED BY <1>2, <1>3

LEMMA EmptyQueue ==
  <<>> \in Seq(Event) /\ Len(<<>>) = 0 /\ \A i \in 1..Len(<<>>) : FALSE
BY EmptySeq

-----------------------------------------------------------------------------
LEMMA InitInv == Init => Inv
<1> SUFFICES ASSUME Init PROVE Inv
  OBVIOUS
<1>1. TypeOK
  BY EmptyQueue DEF Init, TypeOK
<1>2. AFlushForEveryEvent
  BY EmptyQueue DEF Init, AFlushForEveryEvent
<1>3. OfThisConsent /\ QuietWhenKilled
  BY EmptyQueue DEF Init, OfThisConsent, QuietWhenKilled
<1> QED BY <1>1, <1>2, <1>3 DEF Inv

LEMMA TrackInv ==
  ASSUME Inv, Track
  PROVE  Inv'
<1> DEFINE e == [id |-> accepted + 1, epoch |-> epoch]
<1>1. /\ consent /\ ~killed /\ host
      /\ accepted' = accepted + 1 /\ queue' = Append(queue, e) /\ chain' = chain + 1
      /\ UNCHANGED <<consent, killed, host, inflight, epoch>>
  BY DEF Track, Tracks, IsEnabled, ChainFlush
<1>2. /\ queue \in Seq(Event) /\ Len(queue) \in Nat /\ chain \in Nat
      /\ accepted \in Nat /\ epoch \in Nat
  BY LenProperties DEF Inv, TypeOK
<1>3. e \in Event /\ e.epoch = epoch
  BY <1>2 DEF Event
<1> HIDE DEF e
<1>4. /\ queue' \in Seq(Event) /\ Len(queue') = Len(queue) + 1
      /\ \A i \in 1..Len(queue) : queue'[i] = queue[i]
      /\ queue'[Len(queue) + 1] = e
  BY <1>1, <1>2, <1>3, AppendProperties
<1>5. TypeOK'
  BY <1>1, <1>2, <1>4 DEF Inv, TypeOK
<1>6. AFlushForEveryEvent'
  BY <1>1, <1>2, <1>4 DEF Inv, AFlushForEveryEvent
<1>7. OfThisConsent'
  <2> SUFFICES ASSUME NEW i \in 1..Len(queue) + 1 PROVE queue'[i].epoch = epoch
    BY <1>1, <1>4 DEF OfThisConsent
  <2>1. CASE i = Len(queue) + 1
    BY <1>3, <1>4, <2>1
  <2>2. CASE i \in 1..Len(queue)
    BY <1>4, <2>2 DEF Inv, OfThisConsent
  <2> QED BY <1>2, <2>1, <2>2
<1>8. QuietWhenKilled'
  BY <1>1 DEF QuietWhenKilled
<1> QED BY <1>5, <1>6, <1>7, <1>8 DEF Inv

\* Opting out, killing the facade and a fatal answer leave nothing queued.
LEMMA EmptyInv ==
  ASSUME Inv, OptOut \/ Disable \/ BatchFailsForGood
  PROVE  Inv'
<1>1. /\ queue' = <<>> /\ chain' = chain /\ host' = host /\ accepted' = accepted
      /\ inflight' \in {inflight, <<>>} /\ epoch' \in {epoch, epoch + 1}
      /\ consent' \in {consent, FALSE} /\ killed' \in {killed, TRUE}
  BY DEF OptOut, Disable, BatchFailsForGood, Clear
<1>2. TypeOK'
  <2>1. epoch' \in Nat
    BY <1>1 DEF Inv, TypeOK
  <2>2. consent' \in BOOLEAN /\ killed' \in BOOLEAN
    BY DEF Inv, TypeOK, OptOut, Disable, BatchFailsForGood
  <2>3. inflight' \in Seq(Event) /\ queue' \in Seq(Event)
    BY <1>1, EmptyQueue DEF Inv, TypeOK
  <2> QED BY <1>1, <2>1, <2>2, <2>3 DEF Inv, TypeOK
<1>3. AFlushForEveryEvent'
  BY <1>1, EmptyQueue DEF Inv, TypeOK, AFlushForEveryEvent
<1>4. OfThisConsent' /\ QuietWhenKilled'
  BY <1>1, EmptyQueue DEF OfThisConsent, QuietWhenKilled
<1> QED BY <1>2, <1>3, <1>4 DEF Inv

LEMMA StartFlushInv ==
  ASSUME Inv, StartFlush
  PROVE  Inv'
<1>1. /\ chain > 0 /\ chain' = chain - 1
      /\ UNCHANGED <<consent, killed, host, accepted, epoch>>
  BY DEF StartFlush
<1>2. /\ queue \in Seq(Event) /\ chain \in Nat /\ Len(queue) \in Nat
      /\ inflight \in Seq(Event)
  BY LenProperties DEF Inv, TypeOK
<1>3. CASE ~IsEnabled /\ queue' = <<>> /\ UNCHANGED inflight
  BY <1>1, <1>2, <1>3, EmptyQueue
     DEF Inv, TypeOK, AFlushForEveryEvent, OfThisConsent, QuietWhenKilled
<1>4. CASE ~host /\ UNCHANGED <<queue, inflight>>
  BY <1>1, <1>2, <1>4
     DEF Inv, TypeOK, AFlushForEveryEvent, OfThisConsent, QuietWhenKilled
<1>5. CASE IsEnabled /\ FlushLoop(queue)
  <2>1. /\ inflight' \in Seq(Event) /\ queue' \in Seq(Event)
        /\ Len(queue') \in Nat
        /\ queue # <<>> => Len(queue') < Len(queue)
        /\ queue = <<>> => queue' = <<>>
        /\ \A i \in 1..Len(queue') : queue'[i].epoch = epoch
    BY <1>2, <1>5, LoopCuts DEF Inv, OfThisConsent
  <2>2. TypeOK'
    BY <1>1, <1>2, <2>1 DEF Inv, TypeOK
  <2>3. AFlushForEveryEvent'
    BY <1>1, <1>2, <2>1, EmptyQueue DEF Inv, AFlushForEveryEvent
  <2>4. OfThisConsent' /\ QuietWhenKilled'
    BY <1>1, <2>1 DEF Inv, OfThisConsent, QuietWhenKilled
  <2> QED BY <2>2, <2>3, <2>4 DEF Inv
<1> QED BY <1>3, <1>4, <1>5 DEF StartFlush

LEMMA BatchSentInv ==
  ASSUME Inv, BatchSent
  PROVE  Inv'
<1>1. FlushLoop(queue) /\ UNCHANGED <<consent, killed, host, chain, accepted, epoch>>
  BY DEF BatchSent
<1>2. queue \in Seq(Event) /\ chain \in Nat /\ Len(queue) \in Nat
  BY LenProperties DEF Inv, TypeOK
<1>3. /\ inflight' \in Seq(Event) /\ queue' \in Seq(Event)
      /\ Len(queue') \in Nat /\ Len(queue') <= Len(queue)
      /\ queue = <<>> => queue' = <<>>
      /\ \A i \in 1..Len(queue') : queue'[i].epoch = epoch
  BY <1>1, <1>2, LoopCuts DEF Inv, OfThisConsent
<1>4. TypeOK'
  BY <1>1, <1>3 DEF Inv, TypeOK
<1>5. AFlushForEveryEvent'
  BY <1>1, <1>2, <1>3 DEF Inv, AFlushForEveryEvent
<1>6. OfThisConsent' /\ QuietWhenKilled'
  BY <1>1, <1>3 DEF Inv, OfThisConsent, QuietWhenKilled
<1> QED BY <1>4, <1>5, <1>6 DEF Inv

LEMMA NextInv == Inv /\ [Next]_vars => Inv'
<1> SUFFICES ASSUME Inv, [Next]_vars PROVE Inv'
  OBVIOUS
<1> USE DEF Inv, TypeOK, AFlushForEveryEvent, OfThisConsent, QuietWhenKilled
<1>0. Len(queue) \in Nat
  BY LenProperties
<1>1. CASE OptIn
  BY <1>0, <1>1 DEF OptIn
<1>2. CASE Flush
  BY <1>0, <1>2 DEF Flush
<1>3. CASE HostCloses
  BY <1>0, <1>3 DEF HostCloses
<1>4. CASE BatchFails
  BY <1>0, <1>4, EmptyQueue DEF BatchFails
<1>5. CASE UNCHANGED vars
  BY <1>0, <1>5 DEF vars
<1> QED BY <1>1, <1>2, <1>3, <1>4, <1>5, TrackInv, EmptyInv, StartFlushInv,
           BatchSentInv DEF Next

\* Inv holds in every reachable state of the facade.
THEOREM Invariance == SafeSpec => []Inv
BY InitInv, NextInv, PTL DEF SafeSpec

-----------------------------------------------------------------------------
\* AnalyticsFacade's fields keep their types.
THEOREM TypeCorrect == SafeSpec => []TypeOK
<1>1. Inv => TypeOK
  BY DEF Inv
<1> QED BY <1>1, Invariance, PTL

\* As many flushes are chained as events are queued, although a failed flush
\* arms no timer: AnalyticsFacade strands nothing.
THEOREM NothingStranded == SafeSpec => []AFlushForEveryEvent
<1>1. Inv => AFlushForEveryEvent
  BY DEF Inv
<1> QED BY <1>1, Invariance, PTL

\* No batch handed to the transport holds an event of a withdrawn consent.
THEOREM ConsentHolds == SafeSpec => SentUnderItsConsent
<1> DEFINE Covered == inflight' # inflight =>
                        \A i \in 1..Len(inflight') :
                          consent' /\ ~killed' /\ inflight'[i].epoch = epoch'
<1>1. ASSUME Inv, [Next]_vars PROVE Covered
  <2>1. CASE \/ OptIn \/ OptOut \/ Disable \/ Track \/ Flush \/ HostCloses
             \/ UNCHANGED vars
    BY <2>1 DEF OptIn, OptOut, Disable, Track, Flush, HostCloses, vars
  <2>2. CASE BatchFails \/ BatchFailsForGood
    BY <2>2, EmptyQueue DEF BatchFails, BatchFailsForGood
  <2>3. CASE StartFlush \/ BatchSent
    <3>1. /\ UNCHANGED <<consent, killed, epoch>>
          /\ inflight' = inflight \/ FlushLoop(queue)
      BY <2>3 DEF StartFlush, BatchSent
    <3>2. queue \in Seq(Event) /\ \A i \in 1..Len(queue) : queue[i].epoch = epoch
      BY <1>1 DEF Inv, TypeOK, OfThisConsent
    <3>3. ASSUME FlushLoop(queue)
          PROVE  /\ inflight' # <<>> => IsEnabled
                 /\ \A i \in 1..Len(inflight') : inflight'[i].epoch = epoch
      BY <3>2, <3>3, LoopCuts
    <3>4. CASE inflight' # <<>>
      BY <3>1, <3>3, <3>4 DEF IsEnabled
    <3>5. CASE inflight' = <<>>
      BY <3>5, EmptyQueue
    <3> QED BY <3>4, <3>5
  <2> QED BY <1>1, <2>1, <2>2, <2>3 DEF Next
<1> QED BY <1>1, Invariance, PTL DEF SafeSpec, SentUnderItsConsent

\* A facade that policy or a refusal has killed stays silent.
THEOREM KilledIsFinal == SafeSpec => KilledForGood
<1> DEFINE Silent == killed => killed' /\ accepted' = accepted /\ queue' = <<>>
<1>1. ASSUME Inv, [Next]_vars PROVE Silent
  <2> SUFFICES ASSUME killed PROVE killed' /\ accepted' = accepted /\ queue' = <<>>
    OBVIOUS
  <2>1. queue = <<>> /\ ~IsEnabled
    BY <1>1 DEF Inv, QuietWhenKilled, IsEnabled
  <2>2. CASE OptIn \/ OptOut \/ Disable \/ Flush \/ HostCloses \/ UNCHANGED vars
    BY <2>1, <2>2 DEF OptIn, OptOut, Disable, Flush, HostCloses, Clear, vars
  <2>3. CASE Track
    BY <2>1, <2>3 DEF Track, Tracks
  <2>4. CASE StartFlush \/ BatchSent \/ BatchFails \/ BatchFailsForGood
    BY <2>1, <2>4 DEF StartFlush, BatchSent, BatchFails, BatchFailsForGood, FlushLoop
  <2> QED BY <1>1, <2>2, <2>3, <2>4 DEF Next
<1> QED BY <1>1, Invariance, PTL DEF SafeSpec, KilledForGood

-----------------------------------------------------------------------------
(***************************************************************************)
(* The facade implements EventSink: pending is the batch that is awaited   *)
(* and what is queued behind it, as long as some flush can still take it.  *)
(***************************************************************************)
\* A facade that would refuse an event has none queued: opting out and being
\* killed both clear the queue, and nothing is queued until consent is back.
QuietWhenShut == ~IsEnabled => queue = <<>>

\* The events of s in the order in which they were accepted.
Numbered(s) ==
  /\ \A i \in 1..Len(s) : s[i].id \in 1..accepted
  /\ \A i, j \in 1..Len(s) : i < j => s[i].id < s[j].id

\* Events leave oldest first: the batch is older than what is queued.
OldestFirst ==
  /\ Numbered(inflight)
  /\ Numbered(queue)
  /\ \A i \in 1..Len(inflight), j \in 1..Len(queue) : inflight[i].id < queue[j].id

\* What the refinement needs besides Inv.
Ordered == QuietWhenShut /\ OldestFirst

\* No event in an empty batch or queue.
LEMMA IdsOfNothing == Ids(<<>>) = {} /\ Numbered(<<>>)
BY EmptyQueue DEF Ids, Numbered

\* The loop of flushOnce cuts a queue in two and keeps its order; when it
\* returns it has touched nothing.
LEMMA LoopKeepsOrder ==
  ASSUME NEW q \in Seq(Event), Numbered(q), FlushLoop(q), accepted' = accepted
  PROVE  /\ q # <<>> /\ IsEnabled =>
              /\ inflight' # <<>>
              /\ OldestFirst'
              /\ Ids(inflight') \union Ids(queue') = Ids(q)
         /\ ~(q # <<>> /\ IsEnabled) => inflight' = <<>> /\ queue' = q
<1>1. Len(q) \in Nat
  BY LenProperties
<1>2. CASE q # <<>> /\ IsEnabled
  <2> DEFINE n == TakeLen(q)
  <2>1. n \in 1..Len(q)
    <3>1. Len(q) # 0
      BY <1>2, EmptySeq
    <3> QED BY <1>1, <3>1, AnalyticsAssumption DEF TakeLen
  <2>2. inflight' = SubSeq(q, 1, n) /\ queue' = SubSeq(q, n + 1, Len(q))
    BY <1>2 DEF FlushLoop
  <2> HIDE DEF n
  <2>3. /\ Len(inflight') = n
        /\ \A i \in 1..n : inflight'[i] = q[i]
    BY <1>1, <2>1, <2>2, SubSeqProperties
  <2>4. /\ Len(queue') = Len(q) - n
        /\ \A i \in 1..Len(q) - n : queue'[i] = q[n + i]
    BY <1>1, <2>1, <2>2, SubSeqProperties
  <2>5. /\ \A i \in 1..Len(q) : q[i].id \in 1..accepted
        /\ \A i, j \in 1..Len(q) : i < j => q[i].id < q[j].id
    BY DEF Numbered
  <2>6. inflight' # <<>>
    BY <1>1, <2>1, <2>3, EmptySeq
  <2>7. Numbered(inflight)'
    <3>1. \A i \in 1..n : i \in 1..Len(q)
      BY <1>1, <2>1
    <3>2. \A i, j \in 1..n : i < j => inflight'[i].id < inflight'[j].id
      BY <2>3, <2>5, <3>1
    <3> QED BY <2>3, <2>5, <3>1, <3>2 DEF Numbered
  <2>8. \A i \in 1..Len(q) - n : n + i \in 1..Len(q)
    BY <1>1, <2>1
  <2>9. Numbered(queue)'
    <3>1. \A i \in 1..Len(q) - n : queue'[i].id \in 1..accepted
      BY <2>4, <2>5, <2>8
    <3>2. ASSUME NEW i \in 1..Len(q) - n, NEW j \in 1..Len(q) - n, i < j
          PROVE  queue'[i].id < queue'[j].id
      <4>1. n + i < n + j /\ n + i \in 1..Len(q) /\ n + j \in 1..Len(q)
        BY <1>1, <2>1, <3>2
      <4> QED BY <2>4, <2>5, <4>1
    <3> QED BY <2>4, <3>1, <3>2 DEF Numbered
  <2>10. ASSUME NEW i \in 1..Len(inflight'), NEW j \in 1..Len(queue')
         PROVE  inflight'[i].id < queue'[j].id
    <3>1. /\ i \in 1..Len(q) /\ n + j \in 1..Len(q) /\ i < n + j
          /\ inflight'[i] = q[i] /\ queue'[j] = q[n + j]
      BY <1>1, <2>1, <2>3, <2>4, <2>8
    <3> QED BY <2>5, <3>1
  <2>11. Ids(inflight') \union Ids(queue') = Ids(q)
    <3>1. \A x \in Ids(inflight') : x \in Ids(q)
      BY <1>1, <2>1, <2>3 DEF Ids
    <3>2. \A x \in Ids(queue') : x \in Ids(q)
      <4> SUFFICES ASSUME NEW j \in 1..Len(q) - n PROVE queue'[j].id \in Ids(q)
        BY <2>4 DEF Ids
      <4>1. n + j \in 1..Len(q) /\ queue'[j] = q[n + j]
        BY <2>4, <2>8
      <4> QED BY <4>1 DEF Ids
    <3>3. ASSUME NEW k \in 1..Len(q)
          PROVE  q[k].id \in Ids(inflight') \union Ids(queue')
      <4>1. CASE k <= n
        <5>1. k \in 1..Len(inflight') /\ inflight'[k] = q[k]
          BY <2>1, <2>3, <4>1
        <5> QED BY <5>1 DEF Ids
      <4>2. CASE k > n
        <5>1. k - n \in 1..Len(q) - n /\ n + (k - n) = k
          BY <1>1, <2>1, <4>2
        <5>2. k - n \in 1..Len(queue') /\ queue'[k - n] = q[k]
          BY <2>4, <5>1
        <5> QED BY <5>2 DEF Ids
      <4> QED BY <1>1, <2>1, <4>1, <4>2
    <3>4. \A x \in Ids(q) : x \in Ids(inflight') \union Ids(queue')
      BY <3>3 DEF Ids
    <3> QED BY <3>1, <3>2, <3>4
  <2> QED BY <1>2, <2>6, <2>7, <2>9, <2>10, <2>11 DEF OldestFirst
<1>3. CASE ~(q # <<>> /\ IsEnabled)
  BY <1>3 DEF FlushLoop
<1> QED BY <1>2, <1>3

-----------------------------------------------------------------------------
LEMMA InitOrdered == Init => Ordered
BY EmptyQueue, IdsOfNothing DEF Init, Ordered, QuietWhenShut, OldestFirst

\* A newer event goes behind the older ones.
LEMMA TrackOrdered ==
  ASSUME Inv, Ordered, Track
  PROVE  Ordered'
<1> DEFINE e == [id |-> accepted + 1, epoch |-> epoch]
<1>1. /\ consent /\ ~killed
      /\ accepted' = accepted + 1 /\ queue' = Append(queue, e)
      /\ UNCHANGED <<consent, killed, inflight>>
  BY DEF Track, Tracks, IsEnabled
<1>2. /\ queue \in Seq(Event) /\ Len(queue) \in Nat /\ Len(inflight) \in Nat
      /\ accepted \in Nat /\ epoch \in Nat
  BY LenProperties DEF Inv, TypeOK
<1>3. e \in Event /\ e.id = accepted + 1
  BY <1>2 DEF Event
<1> HIDE DEF e
<1>4. /\ Len(queue') = Len(queue) + 1
      /\ \A i \in 1..Len(queue) : queue'[i] = queue[i]
      /\ queue'[Len(queue) + 1] = e
  BY <1>1, <1>2, <1>3, AppendProperties
<1>5. /\ \A i \in 1..Len(queue) : queue[i].id \in 1..accepted
      /\ \A i, j \in 1..Len(queue) : i < j => queue[i].id < queue[j].id
      /\ \A i \in 1..Len(inflight) : inflight[i].id \in 1..accepted
      /\ \A i, j \in 1..Len(inflight) : i < j => inflight[i].id < inflight[j].id
      /\ \A i \in 1..Len(inflight), j \in 1..Len(queue) : inflight[i].id < queue[j].id
  BY DEF Ordered, OldestFirst, Numbered
<1>6. \A i \in 1..Len(queue') : i \in 1..Len(queue) \/ i = Len(queue) + 1
  BY <1>2, <1>4
<1>7. \A x \in 1..accepted : x < accepted + 1 /\ x \in 1..accepted + 1
  BY <1>2
<1>8. \A i \in 1..Len(queue') : queue'[i].id \in 1..accepted + 1
  BY <1>2, <1>3, <1>4, <1>5, <1>6, <1>7
<1>9. ASSUME NEW i \in 1..Len(queue'), NEW j \in 1..Len(queue'), i < j
      PROVE  queue'[i].id < queue'[j].id
  <2>1. i \in 1..Len(queue)
    BY <1>2, <1>4, <1>9
  <2>2. CASE j \in 1..Len(queue)
    BY <1>4, <1>5, <1>9, <2>1, <2>2
  <2>3. CASE j = Len(queue) + 1
    BY <1>3, <1>4, <1>5, <1>7, <2>1, <2>3
  <2> QED BY <1>6, <2>2, <2>3
<1>10. ASSUME NEW i \in 1..Len(inflight), NEW j \in 1..Len(queue')
       PROVE  inflight[i].id < queue'[j].id
  <2>1. CASE j \in 1..Len(queue)
    BY <1>4, <1>5, <2>1
  <2>2. CASE j = Len(queue) + 1
    BY <1>3, <1>4, <1>5, <1>7, <2>2
  <2> QED BY <1>6, <2>1, <2>2
<1>11. Numbered(inflight)' /\ Numbered(queue)'
  BY <1>1, <1>5, <1>7, <1>8, <1>9 DEF Numbered
<1> QED BY <1>1, <1>10, <1>11 DEF Ordered, OldestFirst, QuietWhenShut, IsEnabled

\* Clearing the queue, and losing a batch, leave the rest in order.
LEMMA DropOrdered ==
  ASSUME Ordered, accepted' = accepted,
         inflight' = inflight \/ inflight' = <<>>,
         queue' = queue \/ queue' = <<>>,
         QuietWhenShut'
  PROVE  Ordered'
<1>1. Numbered(inflight)' /\ Numbered(queue)'
  BY EmptyQueue DEF Ordered, OldestFirst, Numbered
<1> QED BY <1>1, EmptyQueue DEF Ordered, OldestFirst

LEMMA LoopOrdered ==
  ASSUME Inv, Ordered, FlushLoop(queue), accepted' = accepted,
         consent' = consent, killed' = killed
  PROVE  Ordered'
<1>1. queue \in Seq(Event) /\ Numbered(queue)
  BY DEF Inv, TypeOK, Ordered, OldestFirst
<1>2. CASE queue # <<>> /\ IsEnabled
  <2>1. OldestFirst'
    BY <1>1, <1>2, LoopKeepsOrder
  <2> QED BY <1>2, <2>1 DEF Ordered, QuietWhenShut, IsEnabled
<1>3. CASE ~(queue # <<>> /\ IsEnabled)
  <2>1. inflight' = <<>> /\ queue' = queue
    BY <1>1, <1>3, LoopKeepsOrder
  <2> QED BY <2>1, DropOrdered DEF Ordered, QuietWhenShut, IsEnabled
<1> QED BY <1>2, <1>3

LEMMA NextOrdered == Inv /\ Ordered /\ [Next]_vars => Ordered'
<1> SUFFICES ASSUME Inv, Ordered, [Next]_vars PROVE Ordered'
  OBVIOUS
<1>1. CASE \/ OptIn \/ OptOut \/ Disable \/ Flush \/ HostCloses
           \/ BatchFails \/ BatchFailsForGood \/ UNCHANGED vars
  <2>1. /\ accepted' = accepted
        /\ inflight' = inflight \/ inflight' = <<>>
        /\ queue' = queue \/ queue' = <<>>
    BY <1>1 DEF OptIn, OptOut, Disable, Flush, HostCloses, BatchFails,
                BatchFailsForGood, Clear, vars
  <2>2. QuietWhenShut'
    BY <1>1 DEF OptIn, OptOut, Disable, Flush, HostCloses, BatchFails,
                BatchFailsForGood, Clear, vars, Ordered, QuietWhenShut, IsEnabled,
                Inv, QuietWhenKilled
  <2> QED BY <2>1, <2>2, DropOrdered
<1>2. CASE StartFlush
  <2>1. accepted' = accepted /\ consent' = consent /\ killed' = killed
    BY <1>2 DEF StartFlush
  <2>2. CASE FlushLoop(queue)
    BY <2>1, <2>2, LoopOrdered
  <2>3. CASE /\ inflight' = inflight
             /\ (~IsEnabled /\ queue' = <<>>) \/ queue' = queue
    BY <2>1, <2>3, DropOrdered DEF Ordered, QuietWhenShut, IsEnabled
  <2> QED BY <1>2, <2>2, <2>3 DEF StartFlush
<1>3. CASE BatchSent
  BY <1>3, LoopOrdered DEF BatchSent
<1> QED BY <1>1, <1>2, <1>3, TrackOrdered DEF Next

\* Events stay in the order in which track, page and identify accepted them,
\* and a facade that is shut has nothing queued.
THEOREM Order == SafeSpec => [](Inv /\ Ordered)
BY InitInv, NextInv, InitOrdered, NextOrdered, PTL DEF SafeSpec

-----------------------------------------------------------------------------
\* The last event of a batch or queue is its newest.
LEMMA NewestLast ==
  ASSUME NEW s \in Seq(Event), Numbered(s), s # <<>>
  PROVE  /\ s[Len(s)].id \in Ids(s)
         /\ \A x \in Ids(s) : x <= s[Len(s)].id
<1>1. Len(s) \in Nat /\ Len(s) # 0
  BY EmptySeq, LenProperties
<1>2. Len(s) \in 1..Len(s)
  BY <1>1
<1>3. s[Len(s)].id \in Nat
  <2>1. s[Len(s)] \in Event
    BY <1>2, ElementOfSeq
  <2> QED BY <2>1 DEF Event
<1>4. ASSUME NEW i \in 1..Len(s) PROVE s[i].id <= s[Len(s)].id
  <2>1. CASE i = Len(s)
    BY <1>3, <2>1
  <2>2. CASE i < Len(s)
    <3>1. s[i].id < s[Len(s)].id /\ s[i].id \in Nat
      BY <1>2, <2>2, ElementOfSeq DEF Numbered, Event
    <3> QED BY <1>3, <3>1
  <2> QED BY <1>1, <2>1, <2>2
<1> QED BY <1>2, <1>4 DEF Ids

\* The batch before the queue, in terms of the numbers of their events.
LEMMA BatchBeforeQueue ==
  ASSUME Inv, Ordered
  PROVE  /\ accepted \in Nat
         /\ \A x \in Ids(inflight) : x \in 1..accepted
         /\ \A x \in Ids(queue) : x \in 1..accepted
         /\ \A x \in Ids(inflight) : \A y \in Ids(queue) : x < y
BY DEF Inv, TypeOK, Ordered, OldestFirst, Numbered, Ids

\* A newest event among what is pending, when anything is.
LEMMA NewestPending ==
  ASSUME Inv, Ordered, Outstanding # {}
  PROVE  \E k \in Outstanding : \A x \in Outstanding : x <= k
<1>1. /\ inflight \in Seq(Event) /\ Numbered(inflight)
      /\ queue \in Seq(Event) /\ Numbered(queue)
  BY DEF Inv, TypeOK, Ordered, OldestFirst
<1>2. CASE (host \/ Flushing) /\ queue # <<>>
  <2> DEFINE k == queue[Len(queue)].id
  <2>1. k \in Ids(queue) /\ \A x \in Ids(queue) : x <= k
    BY <1>1, <1>2, NewestLast
  <2> HIDE DEF k
  <2>2. \A x \in Ids(inflight) : x <= k
    BY <2>1, BatchBeforeQueue
  <2> QED BY <1>2, <2>1, <2>2 DEF Outstanding
<1>3. CASE ~((host \/ Flushing) /\ queue # <<>>)
  <2>1. Outstanding = Ids(inflight)
    BY <1>3, IdsOfNothing DEF Outstanding
  <2>2. inflight # <<>>
    BY <2>1, IdsOfNothing
  <2> QED BY <1>1, <2>1, <2>2, NewestLast
<1> QED BY <1>2, <1>3

\* When the queue is closed: everything pending stays, or only the batch that
\* is awaited, or nothing.
LEMMA ClosesAt ==
  ASSUME Inv, Ordered,
         \/ Outstanding' = Outstanding
         \/ Outstanding' = Ids(inflight)
         \/ Outstanding' = {}
  PROVE  \E k \in Outstanding \union {0} : Outstanding' = {x \in Outstanding : x <= k}
<1>1. \A x \in Outstanding : x \in 1..accepted
  BY BatchBeforeQueue DEF Outstanding
<1>2. accepted \in Nat
  BY BatchBeforeQueue
<1>3. CASE Outstanding' = {}
  <2>1. \A x \in Outstanding : ~(x <= 0)
    BY <1>1, <1>2
  <2>2. Outstanding' = {x \in Outstanding : x <= 0}
    BY <1>3, <2>1
  <2> QED BY <2>2
<1>4. CASE Outstanding' = Outstanding /\ Outstanding # {}
  <2>1. PICK k \in Outstanding : \A x \in Outstanding : x <= k
    BY <1>4, NewestPending
  <2>2. Outstanding' = {x \in Outstanding : x <= k}
    BY <1>4, <2>1
  <2> QED BY <2>2
<1>5. CASE Outstanding' = Ids(inflight) /\ inflight # <<>>
  <2> DEFINE k == inflight[Len(inflight)].id
  <2>1. k \in Ids(inflight) /\ \A x \in Ids(inflight) : x <= k
    BY <1>5, NewestLast DEF Inv, TypeOK, Ordered, OldestFirst
  <2> HIDE DEF k
  <2>2. \A y \in Ids(queue) : ~(y <= k)
    BY <2>1, BatchBeforeQueue
  <2>3. \A x \in Outstanding : x \in Ids(inflight) <=> x <= k
    BY <2>1, <2>2 DEF Outstanding
  <2>4. Outstanding' = {x \in Outstanding : x <= k}
    BY <1>5, <2>3 DEF Outstanding
  <2>5. k \in Outstanding
    BY <2>1 DEF Outstanding
  <2> QED BY <2>4, <2>5
<1> QED BY <1>3, <1>4, <1>5, IdsOfNothing

\* When the await of a batch ends: the batch leaves, or everything does.
LEMMA LeavesUpTo ==
  ASSUME Inv, Ordered, Flushing,
         \/ Outstanding' = Ids(queue)
         \/ Outstanding' = {}
  PROVE  /\ Outstanding # {}
         /\ \E k \in Outstanding : Outstanding' = {x \in Outstanding : x > k}
<1> DEFINE k == inflight[Len(inflight)].id
<1>1. k \in Ids(inflight) /\ \A x \in Ids(inflight) : x <= k
  BY NewestLast DEF Inv, TypeOK, Ordered, OldestFirst, Flushing
<1> HIDE DEF k
<1>2. /\ \A x \in Outstanding : x \in Nat
      /\ \A y \in Ids(queue) : y > k
      /\ k \in Nat
  BY <1>1, BatchBeforeQueue DEF Outstanding
<1>3. Outstanding = Ids(inflight) \union Ids(queue) /\ k \in Outstanding
  BY <1>1 DEF Outstanding, Flushing
<1>4. CASE Outstanding' = Ids(queue)
  <2>1. \A x \in Outstanding : x \in Ids(queue) <=> x > k
    BY <1>1, <1>2, <1>3
  <2>2. Outstanding' = {x \in Outstanding : x > k}
    BY <1>3, <1>4, <2>1
  <2> QED BY <1>3, <2>2
<1>5. CASE Outstanding' = {}
  <2>1. PICK m \in Outstanding : \A x \in Outstanding : x <= m
    BY <1>3, NewestPending
  <2>2. \A x \in Outstanding : ~(x > m)
    BY <1>2, <2>1
  <2>3. Outstanding' = {x \in Outstanding : x > m}
    BY <1>5, <2>2
  <2> QED BY <1>3, <2>3
<1> QED BY <1>4, <1>5

-----------------------------------------------------------------------------
LEMMA InitRefines == Init => Sink!Init
BY IdsOfNothing DEF Init, Sink!Init, Outstanding, IsEnabled, Flushing

LEMMA TrackRefines ==
  ASSUME Inv, Ordered, Track
  PROVE  Sink!Accept
<1> DEFINE e == [id |-> accepted + 1, epoch |-> epoch]
<1>1. /\ IsEnabled /\ host /\ accepted' = accepted + 1 /\ queue' = Append(queue, e)
      /\ UNCHANGED <<consent, killed, host, inflight>>
  BY DEF Track, Tracks
<1>2. /\ queue \in Seq(Event) /\ Len(queue) \in Nat
      /\ accepted \in Nat /\ epoch \in Nat
  BY LenProperties DEF Inv, TypeOK
<1>3. e \in Event /\ e.id = accepted + 1
  BY <1>2 DEF Event
<1> HIDE DEF e
<1>4. /\ Len(queue') = Len(queue) + 1
      /\ \A i \in 1..Len(queue) : queue'[i] = queue[i]
      /\ queue'[Len(queue) + 1] = e
  BY <1>1, <1>2, <1>3, AppendProperties
<1>5. Ids(queue') = Ids(queue) \union {accepted + 1}
  <2>1. \A i \in 1..Len(queue') : i \in 1..Len(queue) \/ i = Len(queue) + 1
    BY <1>2, <1>4
  <2>2. \A x \in Ids(queue') : x \in Ids(queue) \union {accepted + 1}
    BY <1>3, <1>4, <2>1 DEF Ids
  <2>3. accepted + 1 \in Ids(queue')
    <3>1. Len(queue) + 1 \in 1..Len(queue') /\ queue'[Len(queue) + 1].id = accepted + 1
      BY <1>2, <1>3, <1>4
    <3> QED BY <3>1 DEF Ids
  <2>4. ASSUME NEW i \in 1..Len(queue) PROVE queue[i].id \in Ids(queue')
    <3>1. i \in 1..Len(queue') /\ queue'[i] = queue[i]
      BY <1>2, <1>4
    <3> QED BY <3>1 DEF Ids
  <2>5. \A x \in Ids(queue) : x \in Ids(queue')
    BY <2>4 DEF Ids
  <2> QED BY <2>2, <2>3, <2>5
<1>6. Outstanding' = Outstanding \union {accepted'}
  BY <1>1, <1>5 DEF Outstanding
<1> QED BY <1>1, <1>6 DEF Sink!Accept, IsEnabled

\* Consent comes back: an event would be accepted again, unless the facade is
\* dead or its host closed.
LEMMA OptInRefines ==
  ASSUME Inv, Ordered, OptIn
  PROVE  Sink!Reopen \/ UNCHANGED Sink!sinkVars
<1>1. /\ ~consent /\ consent'
      /\ UNCHANGED <<killed, host, queue, inflight, accepted>>
  BY DEF OptIn, Inv, TypeOK
<1>2. Outstanding' = Outstanding
  BY <1>1 DEF Outstanding, Flushing
<1>3. ~(IsEnabled /\ host)
  BY <1>1 DEF IsEnabled
<1>4. CASE ~killed /\ host
  <2>1. (IsEnabled /\ host)' = TRUE
    BY <1>1, <1>4 DEF IsEnabled
  <2> QED BY <1>1, <1>2, <1>3, <2>1 DEF Sink!Reopen
<1>5. CASE ~(~killed /\ host)
  <2>1. (IsEnabled /\ host)' = (IsEnabled /\ host)
    BY <1>1, <1>5 DEF IsEnabled
  <2> QED BY <1>1, <1>2, <2>1 DEF Sink!sinkVars
<1> QED BY <1>4, <1>5

\* Opting out, the kill switch, a fatal answer and the closing host.
LEMMA CloseRefines ==
  ASSUME Inv, Ordered, OptOut \/ Disable \/ BatchFailsForGood \/ HostCloses
  PROVE  Sink!Close
<1>1. (IsEnabled /\ host)' = FALSE /\ accepted' = accepted
  BY DEF OptOut, Disable, BatchFailsForGood, HostCloses, IsEnabled
<1>2. \/ Outstanding' = Outstanding
      \/ Outstanding' = Ids(inflight)
      \/ Outstanding' = {}
  <2>1. CASE OptOut \/ Disable
    BY <2>1, IdsOfNothing DEF OptOut, Disable, Clear, Outstanding, Flushing
  <2>2. CASE BatchFailsForGood
    BY <2>2, IdsOfNothing DEF BatchFailsForGood, Outstanding, Flushing
  <2>3. CASE HostCloses
    BY <2>3, IdsOfNothing DEF HostCloses, Outstanding, Flushing
  <2> QED BY <2>1, <2>2, <2>3
<1>3. \E k \in Outstanding \union {0} : Outstanding' = {x \in Outstanding : x <= k}
  BY <1>2, ClosesAt
<1> QED BY <1>1, <1>3 DEF Sink!Close, Sink!UpTo

\* A flush that starts moves events from the queue to the wire: nothing leaves.
LEMMA StartFlushRefines ==
  ASSUME Inv, Ordered, StartFlush
  PROVE  UNCHANGED Sink!sinkVars
<1>1. /\ inflight = <<>>
      /\ UNCHANGED <<consent, killed, host, accepted>>
  BY DEF StartFlush, Flushing
<1>2. (IsEnabled /\ host)' = (IsEnabled /\ host)
  BY <1>1 DEF IsEnabled
<1>3. CASE ~IsEnabled /\ queue' = <<>> /\ UNCHANGED inflight
  <2>1. queue = <<>>
    BY <1>3 DEF Ordered, QuietWhenShut
  <2> QED BY <1>1, <1>2, <1>3, <2>1 DEF Outstanding, Flushing, Sink!sinkVars
<1>4. CASE UNCHANGED <<queue, inflight>>
  BY <1>1, <1>2, <1>4 DEF Outstanding, Flushing, Sink!sinkVars
<1>5. CASE IsEnabled /\ host /\ FlushLoop(queue)
  <2>1. queue \in Seq(Event) /\ Numbered(queue)
    BY DEF Inv, TypeOK, Ordered, OldestFirst
  <2>2. CASE queue # <<>>
    <3>1. Ids(inflight') \union Ids(queue') = Ids(queue)
      BY <1>1, <1>5, <2>1, <2>2, LoopKeepsOrder
    <3>2. Outstanding' = Outstanding
      BY <1>1, <1>5, <3>1, IdsOfNothing DEF Outstanding
    <3> QED BY <1>1, <1>2, <3>2 DEF Sink!sinkVars
  <2>3. CASE queue = <<>>
    <3>1. inflight' = <<>> /\ queue' = queue
      BY <1>1, <1>5, <2>1, <2>3, LoopKeepsOrder
    <3> QED BY <1>1, <1>2, <3>1 DEF Outstanding, Flushing, Sink!sinkVars
  <2> QED BY <2>2, <2>3
<1> QED BY <1>3, <1>4, <1>5 DEF StartFlush

\* The answer to a batch, or its failure, lets the batch leave; and with it
\* whatever a closed host had queued, when no flush goes on.
LEMMA SettleRefines ==
  ASSUME Inv, Ordered, BatchSent \/ BatchFails
  PROVE  Sink!Leave
<1>1. /\ Flushing
      /\ UNCHANGED <<consent, killed, host, accepted>>
  BY DEF BatchSent, BatchFails
<1>2. (IsEnabled /\ host)' = (IsEnabled /\ host)
  BY <1>1 DEF IsEnabled
<1>3. queue \in Seq(Event) /\ Numbered(queue)
  BY DEF Inv, TypeOK, Ordered, OldestFirst
<1>4. Outstanding' = Ids(queue) \/ Outstanding' = {}
  <2>1. CASE inflight' = <<>> /\ queue' = queue
    BY <2>1, IdsOfNothing DEF Outstanding, Flushing
  <2>2. CASE BatchSent /\ queue # <<>> /\ IsEnabled
    <3>1. FlushLoop(queue)
      BY <2>2 DEF BatchSent
    <3>2. inflight' # <<>> /\ Ids(inflight') \union Ids(queue') = Ids(queue)
      BY <1>1, <1>3, <2>2, <3>1, LoopKeepsOrder
    <3> QED BY <3>2 DEF Outstanding, Flushing
  <2> QED BY <1>1, <1>3, <2>1, <2>2, LoopKeepsOrder DEF BatchSent, BatchFails
<1>5. /\ Outstanding # {}
      /\ \E k \in Outstanding : Outstanding' = {x \in Outstanding : x > k}
  BY <1>1, <1>4, LeavesUpTo
<1> QED BY <1>1, <1>2, <1>5 DEF Sink!Leave, Sink!After

LEMMA NextRefines == Inv /\ Ordered /\ [Next]_vars => [Sink!Next]_Sink!sinkVars
<1> SUFFICES ASSUME Inv, Ordered, [Next]_vars PROVE [Sink!Next]_Sink!sinkVars
  OBVIOUS
<1>1. CASE OptIn
  BY <1>1, OptInRefines DEF Sink!Next
<1>2. CASE OptOut \/ Disable \/ BatchFailsForGood \/ HostCloses
  BY <1>2, CloseRefines DEF Sink!Next
<1>3. CASE Track
  BY <1>3, TrackRefines DEF Sink!Next
<1>4. CASE StartFlush
  BY <1>4, StartFlushRefines
<1>5. CASE BatchSent \/ BatchFails
  BY <1>5, SettleRefines DEF Sink!Next
<1>6. CASE Flush \/ UNCHANGED vars
  BY <1>6 DEF Flush, vars, Outstanding, Flushing, IsEnabled, Sink!sinkVars
<1> QED BY <1>1, <1>2, <1>3, <1>4, <1>5, <1>6 DEF Next

\* AnalyticsFacade is a telemetry sink that consent, the kill switch and the
\* closing host shut: the safety half of ImplementsSink.
THEOREM Refinement == SafeSpec => Sink!SafeSpec
<1> QED BY InitRefines, NextRefines, Order, PTL DEF SafeSpec, Sink!SafeSpec
=============================================================================
