-------------------------- MODULE EventQueueProofs --------------------------
(***************************************************************************)
(* Proofs about EventIngestQueue for every batch limit and every bound.    *)
(***************************************************************************)
EXTENDS EventQueue, SequenceTheorems, TLAPS

\* What the batch operators return: a nonempty prefix of the buffer within the
\* limit, and the rest of it (splice in drain).
LEMMA Splice ==
  ASSUME NEW S, NEW b \in Seq(S), b # <<>>
  PROVE  /\ TakeLen(b) \in 1..Len(b)
         /\ TakeLen(b) <= MaxBatch
         /\ Batch(b) \in Seq(S)
         /\ Len(Batch(b)) = TakeLen(b)
         /\ \A i \in 1..TakeLen(b) : Batch(b)[i] = b[i]
         /\ Rest(b) \in Seq(S)
         /\ Len(Rest(b)) = Len(b) - TakeLen(b)
         /\ \A i \in 1..Len(b) - TakeLen(b) : Rest(b)[i] = b[TakeLen(b) + i]
<1>1. Len(b) \in Nat /\ Len(b) # 0
  BY EmptySeq, LenProperties
<1>2. TakeLen(b) \in 1..Len(b) /\ TakeLen(b) <= MaxBatch
  BY <1>1, EventQueueAssumption DEF TakeLen
<1>3. /\ Batch(b) \in Seq(S)
      /\ Len(Batch(b)) = TakeLen(b)
      /\ \A i \in 1..TakeLen(b) : Batch(b)[i] = b[i]
  BY <1>1, <1>2, SubSeqProperties DEF Batch
<1>4. /\ Rest(b) \in Seq(S)
      /\ Len(Rest(b)) = Len(b) - TakeLen(b)
      /\ \A i \in 1..Len(b) - TakeLen(b) : Rest(b)[i] = b[TakeLen(b) + i]
  BY <1>1, <1>2, SubSeqProperties DEF Rest
<1> QED BY <1>2, <1>3, <1>4

-----------------------------------------------------------------------------
\* What a flush call waits for was accepted before it, and what the resolved
\* flushes waited for lies before everything that is still buffered.
WaitsForThePast ==
  /\ \A i \in 1..Len(chain) : chain[i].upto <= accepted
  /\ drain.upto <= accepted
  /\ flushed <= accepted - Len(buffer)

QuietWhenDisabled == disabled => buffer = <<>>

\* The youngest event handed to send is on the wire while anything is.
WireEndsAtLastSent == Sending => lastSent \in Ids(inflight.events)

\* The inductive invariant.  FlushIsABarrier alone is not inductive: a drain
\* that returns must know that the buffer is empty because it looped until it
\* was (or because disable emptied it), that the batch on the wire is older
\* than the buffer, and that its flush was called with no more than accepted.
Inv ==
  /\ TypeOK
  /\ OncePerEventInOrder
  /\ BatchWithinLimit
  /\ FlushIsABarrier
  /\ NothingStranded
  /\ QuietWhenDisabled
  /\ WaitsForThePast
  /\ WireEndsAtLastSent

LEMMA InitInv == Init => Inv
<1> SUFFICES ASSUME Init PROVE Inv
  OBVIOUS
<1> USE DEF Init
<1>1. Len(<<>>) = 0
  BY EmptySeq
<1>2. TypeOK
  BY EmptySeq, EventQueueAssumption DEF TypeOK, NoDrain, NoBatch
<1>3. OncePerEventInOrder /\ FlushIsABarrier
  BY <1>1 DEF OncePerEventInOrder, FlushIsABarrier, Outstanding, Ids, NoBatch
<1>4. BatchWithinLimit
  BY <1>1, EventQueueAssumption DEF BatchWithinLimit, Draining, Sending, NoBatch
<1>5. NothingStranded /\ QuietWhenDisabled /\ WaitsForThePast /\ WireEndsAtLastSent
  BY <1>1 DEF NothingStranded, QuietWhenDisabled, WaitsForThePast, NoDrain,
              WireEndsAtLastSent, Sending, NoBatch
<1> QED BY <1>2, <1>3, <1>4, <1>5 DEF Inv

\* One turn of drain's loop: it takes a batch or it returns.
LEMMA LoopInv ==
  ASSUME Inv,
         NEW d \in Drain, NEW b \in Seq(Event), NEW off \in BOOLEAN,
         d.upto <= accepted,
         b = buffer \/ b = <<>>, off => b = <<>>,
         DrainLoop(d, b, off),
         timer' \in BOOLEAN, disabled' = off, accepted' = accepted,
         chain' \in Seq(Drain),
         \A i \in 1..Len(chain') : chain'[i].upto <= accepted
  PROVE  Inv'
<1>0. /\ Len(b) \in Nat /\ Len(<<>>) = 0 /\ Len(buffer) \in Nat
      /\ accepted \in Nat /\ lastSent \in Nat /\ flushed \in Nat
      /\ buffer \in Seq(Event)
  BY EmptySeq, LenProperties DEF Inv, TypeOK
<1>1. CASE b # <<>>
  <2>1. b = buffer /\ ~off
    BY <1>1
  <2>2. /\ inflight' = [events |-> Batch(b),
                        keepalive |-> BatchKeepalive(d.keepalive, Batch(b))]
        /\ buffer' = Rest(b)
        /\ lastSent' = b[TakeLen(b)].id
        /\ drain' = d
        /\ flushed' = flushed
    BY <1>1, <2>1 DEF DrainLoop
  <2> DEFINE n == TakeLen(b)
  <2>3. /\ n \in 1..Len(b) /\ n <= MaxBatch
        /\ Batch(b) \in Seq(Event)
        /\ Len(Batch(b)) = n
        /\ \A i \in 1..n : Batch(b)[i] = b[i]
        /\ Rest(b) \in Seq(Event)
        /\ Len(Rest(b)) = Len(b) - n
        /\ \A i \in 1..Len(b) - n : Rest(b)[i] = b[n + i]
    BY <1>1, Splice
  <2> HIDE DEF n
  <2>4. BatchKeepalive(d.keepalive, Batch(b)) \in BOOLEAN
    <3>1. \A i \in 1..n : Batch(b)[i] \in Event
      BY <2>3, ElementOfSeq, Zenon
    <3> QED BY <3>1, <2>3 DEF BatchKeepalive, Event
  <2>5. \A i \in 1..Len(b) : b[i].id = accepted - Len(b) + i
    BY <2>1 DEF Inv, OncePerEventInOrder
  <2>6. /\ n \in Int /\ Len(b) \in Int /\ accepted \in Int
        /\ 1 <= n /\ n <= Len(b)
    BY <1>0, <2>3
  <2>7. b[n].id = accepted - Len(b) + n
    BY <2>3, <2>5
  <2>8. \A i \in 1..n : Batch(b)[i].id = accepted - Len(b) + i
    <3> TAKE i \in 1..n
    <3>1. i \in 1..Len(b)
      BY <2>6
    <3> QED BY <2>3, <2>5, <3>1
  <2>9. \A i \in 1..Len(b) - n : Rest(b)[i].id = accepted - Len(b) + n + i
    <3> TAKE i \in 1..Len(b) - n
    <3>1. n + i \in 1..Len(b)
      BY <2>6
    <3>2. b[n + i].id = accepted - Len(b) + (n + i)
      BY <2>5, <3>1
    <3>3. Rest(b)[i] = b[n + i] /\ i \in Int
      BY <2>3
    <3> QED BY <2>6, <3>2, <3>3
  <2>10. lastSent' = accepted - Len(b) + n /\ lastSent' \in Nat
    <3>1. b[n] \in Event
      BY <2>3, ElementOfSeq
    <3> QED BY <2>2, <2>7, <3>1 DEF n, Event
  <2>11. TypeOK'
    BY <1>0, <2>2, <2>3, <2>4, <2>10 DEF TypeOK
  <2>12. OncePerEventInOrder'
    <3>1. \A i \in 1..Len(Rest(b)) : Rest(b)[i].id = accepted - Len(Rest(b)) + i
      BY <2>3, <2>6, <2>9
    <3>2. lastSent' <= accepted - Len(Rest(b))
      BY <2>3, <2>6, <2>10
    <3>3. \A e \in Ids(Batch(b)) : e <= lastSent'
      BY <2>3, <2>6, <2>8, <2>10 DEF Ids
    <3>4. inflight'.events = Batch(b)
      BY <2>2
    <3> QED BY <2>2, <3>1, <3>2, <3>3, <3>4 DEF OncePerEventInOrder
  <2>13. BatchWithinLimit'
    <3>1. Batch(b) # <<>> /\ d # NoDrain
      BY <1>0, <2>3, <2>6 DEF NoDrain, Drain, Option
    <3> QED BY <2>2, <2>3, <3>1 DEF BatchWithinLimit, Draining, Sending
  <2>14. WaitsForThePast'
    BY <1>0, <2>1, <2>2, <2>3, <2>6 DEF Inv, WaitsForThePast
  <2>15. FlushIsABarrier'
    <3>1. flushed \in Int /\ flushed <= accepted - Len(b)
      BY <1>0, <2>1 DEF Inv, WaitsForThePast
    <3>2. \A e \in Ids(Batch(b)) : e > flushed
      <4>1. \A i \in 1..n : accepted - Len(b) + i > flushed
        BY <2>6, <3>1
      <4> QED BY <2>3, <2>8, <4>1 DEF Ids
    <3>3. \A e \in Ids(Rest(b)) : e > flushed
      <4>1. \A i \in 1..Len(b) - n : accepted - Len(b) + n + i > flushed
        BY <2>6, <3>1
      <4> QED BY <2>3, <2>9, <4>1 DEF Ids
    <3>4. inflight'.events = Batch(b)
      BY <2>2
    <3> QED BY <2>2, <3>2, <3>3, <3>4 DEF FlushIsABarrier, Outstanding
  <2>16. NothingStranded' /\ QuietWhenDisabled'
    BY <2>1, <2>2 DEF NothingStranded, QuietWhenDisabled, Draining, NoDrain,
        Drain, Option
  <2>17. WireEndsAtLastSent'
    <3>1. Batch(b)[n].id = lastSent' /\ n \in 1..Len(Batch(b))
      BY <2>3, <2>6, <2>7, <2>10
    <3>2. inflight'.events = Batch(b)
      BY <2>2
    <3> QED BY <3>1, <3>2 DEF WireEndsAtLastSent, Ids
  <2> QED BY <2>11, <2>12, <2>13, <2>14, <2>15, <2>16, <2>17 DEF Inv
<1>2. CASE b = <<>>
  <2>1. /\ inflight' = NoBatch
        /\ buffer' = <<>>
        /\ drain' = NoDrain
        /\ flushed' = d.upto
        /\ lastSent' = lastSent
    BY <1>2 DEF DrainLoop
  <2>2. TypeOK'
    BY <1>0, <2>1, EmptySeq DEF NoBatch, NoDrain, TypeOK, Drain
  <2>3. OncePerEventInOrder'
    BY <1>0, <2>1 DEF Inv, OncePerEventInOrder, Ids, NoBatch
  <2>4. BatchWithinLimit'
    BY <1>0, <2>1, EventQueueAssumption
    DEF BatchWithinLimit, Draining, Sending, NoBatch
  <2>5. /\ FlushIsABarrier' /\ NothingStranded' /\ QuietWhenDisabled'
        /\ WireEndsAtLastSent'
    BY <1>0, <2>1
    DEF FlushIsABarrier, Outstanding, Ids, NoBatch, NothingStranded,
        QuietWhenDisabled, WireEndsAtLastSent, Sending
  <2>6. WaitsForThePast'
    BY <1>0, <2>1 DEF WaitsForThePast, NoDrain
  <2> QED BY <2>2, <2>3, <2>4, <2>5, <2>6 DEF Inv
<1> QED BY <1>1, <1>2

-----------------------------------------------------------------------------
LEMMA EnqueueInv ==
  ASSUME Inv, NEW keepalive \in BOOLEAN, Enqueue(keepalive)
  PROVE  Inv'
<1> DEFINE e == [id |-> accepted + 1, keepalive |-> keepalive]
           c == [keepalive |-> OptionOf(keepalive), upto |-> accepted + 1]
<1>1. /\ ~disabled /\ accepted' = accepted + 1 /\ buffer' = Append(buffer, e)
      /\ UNCHANGED <<drain, inflight, disabled, lastSent, flushed>>
      /\ \/ timer' = FALSE /\ chain' = Append(chain, c)
         \/ timer' = TRUE /\ chain' = chain
  BY DEF Enqueue, Accepts, ChainDrain, Arm
<1>2. /\ accepted \in Nat /\ lastSent \in Nat /\ flushed \in Nat
      /\ Len(buffer) \in Nat /\ Len(chain) \in Nat
      /\ buffer \in Seq(Event) /\ chain \in Seq(Drain)
  BY LenProperties DEF Inv, TypeOK
<1>3. e \in Event /\ c \in Drain /\ e.id = accepted + 1 /\ c.upto = accepted + 1
  BY <1>2 DEF OptionOf, Option, Event, Drain
<1> HIDE DEF e, c
<1>4. /\ buffer' \in Seq(Event)
      /\ Len(buffer') = Len(buffer) + 1
      /\ \A i \in 1..Len(buffer) : buffer'[i] = buffer[i]
      /\ buffer'[Len(buffer) + 1] = e
  BY <1>1, <1>2, <1>3, AppendProperties
<1>5. /\ Append(chain, c) \in Seq(Drain)
      /\ Append(chain, c) # <<>>
      /\ Len(Append(chain, c)) = Len(chain) + 1
      /\ \A i \in 1..Len(chain) : Append(chain, c)[i] = chain[i]
      /\ Append(chain, c)[Len(chain) + 1] = c
  BY <1>2, <1>3, AppendProperties
<1>6. TypeOK'
  <2>1. chain' \in Seq(Drain) /\ timer' \in BOOLEAN
    BY <1>1, <1>2, <1>5
  <2> QED BY <1>1, <1>2, <1>4, <2>1 DEF Inv, TypeOK
<1>7. OncePerEventInOrder'
  <2>1. \A i \in 1..Len(buffer') : buffer'[i].id = accepted' - Len(buffer') + i
    <3> SUFFICES ASSUME NEW i \in 1..Len(buffer) + 1
                 PROVE  buffer'[i].id = accepted + 1 - (Len(buffer) + 1) + i
      BY <1>1, <1>2, <1>4
    <3>1. CASE i = Len(buffer) + 1
      <4>1. buffer'[i].id = accepted + 1
        BY <1>3, <1>4, <3>1
      <4> QED BY <1>2, <3>1, <4>1
    <3>2. CASE i \in 1..Len(buffer)
      <4>1. buffer[i].id = accepted - Len(buffer) + i
        BY <3>2 DEF Inv, OncePerEventInOrder
      <4>2. buffer'[i] = buffer[i]
        BY <1>4, <3>2
      <4> QED BY <1>2, <4>1, <4>2
    <3> QED BY <1>2, <3>1, <3>2
  <2> QED BY <1>1, <1>2, <1>4, <2>1 DEF Inv, OncePerEventInOrder
<1>8. FlushIsABarrier'
  <2>1. \A x \in Ids(buffer') : x \in Ids(buffer) \/ x = accepted + 1
    <3> SUFFICES ASSUME NEW i \in 1..Len(buffer) + 1
                 PROVE  buffer'[i].id \in Ids(buffer) \/ buffer'[i].id = accepted + 1
      BY <1>4 DEF Ids
    <3>1. CASE i = Len(buffer) + 1
      BY <1>3, <1>4, <3>1
    <3>2. CASE i \in 1..Len(buffer)
      BY <1>4, <3>2 DEF Ids
    <3> QED BY <1>2, <3>1, <3>2
  <2>2. accepted + 1 > flushed
    BY <1>2 DEF Inv, WaitsForThePast
  <2> QED BY <1>1, <2>1, <2>2 DEF Inv, FlushIsABarrier, Outstanding
<1>9. WaitsForThePast'
  <2>1. drain.upto \in Nat
    BY DEF Inv, TypeOK, NoDrain, Drain
  <2>2. \A i \in 1..Len(chain) : chain[i] \in Drain
    BY <1>2, ElementOfSeq
  <2>3. \A i \in 1..Len(chain) : chain[i].upto <= accepted + 1
    BY <1>2, <2>2 DEF Inv, WaitsForThePast, Drain
  <2>4. \A i \in 1..Len(chain') : chain'[i].upto <= accepted + 1
    <3>1. CASE chain' = chain
      BY <2>3, <3>1
    <3>2. CASE chain' = Append(chain, c)
      BY <1>2, <1>3, <1>5, <2>3, <3>2
    <3> QED BY <1>1, <3>1, <3>2
  <2> QED BY <1>1, <1>2, <1>4, <2>1, <2>4 DEF Inv, WaitsForThePast
<1>10. /\ BatchWithinLimit' /\ NothingStranded' /\ QuietWhenDisabled'
       /\ WireEndsAtLastSent'
  BY <1>1, <1>5
  DEF Inv, BatchWithinLimit, Draining, Sending, NothingStranded,
      QuietWhenDisabled, WireEndsAtLastSent
<1> QED BY <1>6, <1>7, <1>8, <1>9, <1>10 DEF Inv

\* A flush call, whatever its caller or the timer passes.
LEMMA ChainInv ==
  ASSUME Inv, NEW option \in Option, ChainDrain(option, accepted),
         UNCHANGED <<buffer, drain, inflight, disabled, accepted, lastSent, flushed>>
  PROVE  Inv'
<1> DEFINE c == [keepalive |-> option, upto |-> accepted]
<1>1. /\ accepted \in Nat /\ Len(chain) \in Nat /\ chain \in Seq(Drain)
      /\ timer' = FALSE /\ chain' = Append(chain, c)
  BY LenProperties DEF Inv, TypeOK, ChainDrain
<1>2. c \in Drain /\ c.upto = accepted
  BY <1>1 DEF Drain
<1> HIDE DEF c
<1>3. /\ chain' \in Seq(Drain)
      /\ chain' # <<>>
      /\ Len(chain') = Len(chain) + 1
      /\ \A i \in 1..Len(chain) : chain'[i] = chain[i]
      /\ chain'[Len(chain) + 1] = c
  BY <1>1, <1>2, AppendProperties
<1>4. TypeOK' /\ OncePerEventInOrder' /\ BatchWithinLimit' /\ FlushIsABarrier'
  BY <1>1, <1>3
  DEF Inv, TypeOK, OncePerEventInOrder, BatchWithinLimit, Draining, Sending,
      FlushIsABarrier, Outstanding
<1>5. NothingStranded' /\ QuietWhenDisabled' /\ WireEndsAtLastSent'
  BY <1>3
  DEF Inv, NothingStranded, QuietWhenDisabled, WireEndsAtLastSent, Sending
<1>6. WaitsForThePast'
  <2>1. \A i \in 1..Len(chain') : chain'[i].upto <= accepted
    BY <1>1, <1>2, <1>3 DEF Inv, WaitsForThePast
  <2> QED BY <2>1 DEF Inv, WaitsForThePast
<1> QED BY <1>4, <1>5, <1>6 DEF Inv

LEMMA DisableInv ==
  ASSUME Inv, Disable
  PROVE  Inv'
<1> USE DEF Disable, Forget
<1>1. /\ Len(<<>>) = 0 /\ <<>> \in Seq(Event) /\ Len(buffer) \in Nat
      /\ accepted \in Nat /\ lastSent \in Nat /\ flushed \in Nat
  BY EmptySeq, LenProperties DEF Inv, TypeOK
<1>2. TypeOK' /\ BatchWithinLimit' /\ NothingStranded' /\ QuietWhenDisabled'
  BY <1>1
  DEF Inv, TypeOK, BatchWithinLimit, Draining, Sending, NothingStranded,
      QuietWhenDisabled
<1>3. /\ OncePerEventInOrder' /\ FlushIsABarrier' /\ WaitsForThePast'
      /\ WireEndsAtLastSent'
  BY <1>1
  DEF Inv, OncePerEventInOrder, FlushIsABarrier, Outstanding, Ids,
      WaitsForThePast, WireEndsAtLastSent, Sending
<1> QED BY <1>2, <1>3 DEF Inv

LEMMA StartDrainInv ==
  ASSUME Inv, StartDrain
  PROVE  Inv'
<1>1. /\ chain \in Seq(Drain) /\ chain # <<>> /\ Len(chain) \in Nat
      /\ buffer \in Seq(Event) /\ timer \in BOOLEAN /\ disabled \in BOOLEAN
  BY LenProperties DEF Inv, TypeOK, StartDrain
<1>2. /\ Head(chain) \in Drain
      /\ Tail(chain) \in Seq(Drain)
      /\ Len(Tail(chain)) = Len(chain) - 1
      /\ \A i \in 1..Len(Tail(chain)) : Tail(chain)[i] = chain[i + 1]
  BY <1>1, HeadTailProperties
<1>3. Len(chain) # 0 /\ Head(chain) = chain[1]
  BY <1>1, EmptySeq
<1>4. Head(chain).upto <= accepted
  BY <1>1, <1>2, <1>3 DEF Inv, WaitsForThePast
<1>5. \A i \in 1..Len(Tail(chain)) : Tail(chain)[i].upto <= accepted
  BY <1>1, <1>2 DEF Inv, WaitsForThePast
<1>6. disabled => buffer = <<>>
  BY DEF Inv, QuietWhenDisabled
<1>7. /\ DrainLoop(Head(chain), buffer, disabled)
      /\ timer' = timer /\ disabled' = disabled /\ accepted' = accepted
      /\ chain' = Tail(chain)
  BY DEF StartDrain
<1> QED BY <1>1, <1>2, <1>4, <1>5, <1>6, <1>7, LoopInv

\* The two ways an awaited send ends.
LEMMA SettleInv ==
  ASSUME Inv, SendSettles \/ SendFailsForGood
  PROVE  Inv'
<1>1. /\ drain \in Drain /\ drain.upto <= accepted
      /\ buffer \in Seq(Event) /\ timer \in BOOLEAN /\ disabled \in BOOLEAN
      /\ chain \in Seq(Drain)
      /\ \A i \in 1..Len(chain) : chain[i].upto <= accepted
  BY DEF Inv, TypeOK, BatchWithinLimit, Draining, WaitsForThePast, SendSettles,
         SendFailsForGood
<1>2. CASE SendSettles
  <2>1. disabled => buffer = <<>>
    BY DEF Inv, QuietWhenDisabled
  <2>2. /\ DrainLoop(drain, buffer, disabled)
        /\ timer' = timer /\ chain' = chain /\ disabled' = disabled
        /\ accepted' = accepted
    BY <1>2 DEF SendSettles
  <2> QED BY <1>1, <2>1, <2>2, LoopInv
<1>3. CASE SendFailsForGood
  <2>1. /\ DrainLoop(drain, <<>>, TRUE)
        /\ timer' = FALSE /\ chain' = chain /\ disabled' = TRUE
        /\ accepted' = accepted
    BY <1>3 DEF SendFailsForGood, Forget
  <2>2. <<>> \in Seq(Event)
    BY EmptySeq
  <2> QED BY <1>1, <2>1, <2>2, LoopInv
<1> QED BY <1>2, <1>3

LEMMA NextInv == Inv /\ [Next]_vars => Inv'
<1> SUFFICES ASSUME Inv, [Next]_vars PROVE Inv'
  OBVIOUS
<1>1. ASSUME NEW keepalive \in BOOLEAN, Enqueue(keepalive) PROVE Inv'
  BY <1>1, EnqueueInv
<1>2. ASSUME NEW option \in Option, Flush(option) PROVE Inv'
  BY <1>2, ChainInv DEF Flush
<1>3. CASE TimerFires
  BY <1>3, ChainInv DEF TimerFires, Option
<1>4. CASE Disable
  BY <1>4, DisableInv
<1>5. CASE StartDrain
  BY <1>5, StartDrainInv
<1>6. CASE SendSettles \/ SendFailsForGood
  BY <1>6, SettleInv
<1>7. CASE UNCHANGED vars
  BY <1>7
  DEF vars, Inv, TypeOK, OncePerEventInOrder, BatchWithinLimit, Draining, Sending,
      FlushIsABarrier, Outstanding, NothingStranded, QuietWhenDisabled,
      WaitsForThePast, WireEndsAtLastSent
<1> QED BY <1>1, <1>2, <1>3, <1>4, <1>5, <1>6, <1>7 DEF Next

\* Every reachable state of the queue satisfies the inductive invariant.
THEOREM Invariance == SafeSpec => []Inv
<1> QED BY InitInv, NextInv, PTL DEF SafeSpec

\* Type correctness.
THEOREM TypeCorrect == SafeSpec => []TypeOK
<1> QED BY Invariance, PTL DEF Inv

\* No event waits for a flush that nobody will make (enqueue, flush, arm and
\* drain together).
THEOREM NeverStranded == SafeSpec => []NothingStranded
<1> QED BY Invariance, PTL DEF Inv

\* Awaiting flush means awaiting every event accepted before it.
THEOREM FlushBarrier == SafeSpec => []FlushIsABarrier
<1> QED BY Invariance, PTL DEF Inv

\* send gets every event at most once, oldest first, in batches of at most
\* MaxBatch.
THEOREM OrderedOnce == SafeSpec => [](OncePerEventInOrder /\ BatchWithinLimit)
<1> QED BY Invariance, PTL DEF Inv

\* disable() is final.
THEOREM DisableIsFinal == SafeSpec => DisabledForGood
<1> DEFINE Quiet == /\ disabled'
                    /\ accepted' = accepted
                    /\ lastSent' = lastSent
                    /\ buffer' = <<>>
<1>1. Inv /\ [Next]_vars => [disabled => Quiet]_vars
  <2> SUFFICES ASSUME Inv, Next, disabled PROVE Quiet
    OBVIOUS
  <2>1. buffer = <<>> /\ ~Accepts
    BY DEF Inv, QuietWhenDisabled, Accepts
  <2>2. ASSUME NEW keepalive \in BOOLEAN, Enqueue(keepalive) PROVE FALSE
    BY <2>1, <2>2 DEF Enqueue
  <2>3. ASSUME NEW option \in Option, Flush(option) PROVE Quiet
    BY <2>1, <2>3 DEF Flush
  <2>4. CASE TimerFires
    BY <2>1, <2>4 DEF TimerFires
  <2>5. CASE Disable
    BY <2>5 DEF Disable, Forget
  <2>6. CASE StartDrain
    BY <2>1, <2>6 DEF StartDrain, DrainLoop
  <2>7. CASE SendSettles \/ SendFailsForGood
    BY <2>1, <2>7 DEF SendSettles, SendFailsForGood, DrainLoop, Forget
  <2> QED BY <2>2, <2>3, <2>4, <2>5, <2>6, <2>7 DEF Next
<1> QED BY <1>1, Invariance, PTL DEF SafeSpec, DisabledForGood

-----------------------------------------------------------------------------
(***************************************************************************)
(* The queue implements EventSink: pending is what is on the wire and what *)
(* is buffered.                                                            *)
(***************************************************************************)
LEMMA IdsOfNothing == Ids(<<>>) = {}
BY EmptySeq DEF Ids

\* A turn of the loop lets exactly the batch on the wire leave, and what the
\* caller of the loop forgot.
LEMMA LoopLeaves ==
  ASSUME Inv, NEW d, NEW b \in Seq(Event), NEW off \in BOOLEAN,
         off => b = <<>>, DrainLoop(d, b, off)
  PROVE  Outstanding' = Ids(b)
<1>1. CASE b # <<>>
  <2> DEFINE n == TakeLen(b)
  <2>1. /\ n \in 1..Len(b)
        /\ Len(Batch(b)) = n
        /\ \A i \in 1..n : Batch(b)[i] = b[i]
        /\ Len(Rest(b)) = Len(b) - n
        /\ \A i \in 1..Len(b) - n : Rest(b)[i] = b[n + i]
        /\ Len(b) \in Nat
    BY <1>1, Splice, LenProperties
  <2> HIDE DEF n
  <2>2. Outstanding' = Ids(Batch(b)) \union Ids(Rest(b))
    <3>1. inflight'.events = Batch(b) /\ buffer' = Rest(b)
      BY <1>1 DEF DrainLoop
    <3> QED BY <3>1 DEF Outstanding
  <2>3. \A x \in Ids(b) : x \in Ids(Batch(b)) \union Ids(Rest(b))
    <3> SUFFICES ASSUME NEW i \in 1..Len(b)
                 PROVE  b[i].id \in Ids(Batch(b)) \union Ids(Rest(b))
      BY DEF Ids
    <3>1. CASE i <= n
      <4>1. i \in 1..n
        BY <2>1, <3>1
      <4> QED BY <2>1, <4>1 DEF Ids
    <3>2. CASE i > n
      <4>1. i - n \in 1..Len(b) - n /\ n + (i - n) = i
        BY <2>1, <3>2
      <4>2. Rest(b)[i - n] = b[i]
        BY <2>1, <4>1
      <4> QED BY <2>1, <4>1, <4>2 DEF Ids
    <3> QED BY <2>1, <3>1, <3>2
  <2>4. \A x \in Ids(Batch(b)) : x \in Ids(b)
    BY <2>1 DEF Ids
  <2>5. \A x \in Ids(Rest(b)) : x \in Ids(b)
    <3> SUFFICES ASSUME NEW i \in 1..Len(b) - n PROVE Rest(b)[i].id \in Ids(b)
      BY <2>1 DEF Ids
    <3>1. n + i \in 1..Len(b) /\ Rest(b)[i] = b[n + i]
      BY <2>1
    <3> QED BY <3>1 DEF Ids
  <2> QED BY <2>2, <2>3, <2>4, <2>5
<1>2. CASE b = <<>>
  <2>1. inflight'.events = <<>> /\ buffer' = <<>>
    BY <1>2 DEF DrainLoop, NoBatch
  <2> QED BY <1>2, <2>1, IdsOfNothing DEF Outstanding
<1> QED BY <1>1, <1>2

\* Whatever is on the wire is older than whatever is buffered.
LEMMA WireBeforeBuffer ==
  ASSUME Inv
  PROVE  /\ lastSent \in Nat
         /\ \A e \in Outstanding : e \in Nat /\ e > 0
         /\ \A e \in Ids(inflight.events) : e <= lastSent
         /\ \A e \in Ids(buffer) : e > lastSent
<1>1. Len(buffer) \in Nat /\ accepted \in Nat /\ lastSent \in Nat /\ flushed \in Nat
  BY LenProperties DEF Inv, TypeOK
<1>2. \A e \in Ids(buffer) : e > lastSent
  <2> SUFFICES ASSUME NEW i \in 1..Len(buffer) PROVE buffer[i].id > lastSent
    BY DEF Ids
  <2>1. buffer[i].id = accepted - Len(buffer) + i /\ lastSent <= accepted - Len(buffer)
    BY DEF Inv, OncePerEventInOrder
  <2> QED BY <1>1, <2>1
<1>3. \A e \in Outstanding : e \in Nat
  <2>1. \A i \in 1..Len(buffer) : buffer[i] \in Event
    BY ElementOfSeq DEF Inv, TypeOK
  <2>2. \A i \in 1..Len(inflight.events) : inflight.events[i] \in Event
    BY ElementOfSeq DEF Inv, TypeOK
  <2> QED BY <2>1, <2>2 DEF Outstanding, Ids, Event
<1>4. \A e \in Outstanding : e > 0
  BY <1>1, <1>3 DEF Inv, FlushIsABarrier
<1> QED BY <1>1, <1>2, <1>3, <1>4 DEF Inv, OncePerEventInOrder

LEMMA InitRefines == Init => Sink!Init
<1> SUFFICES ASSUME Init PROVE Sink!Init
  OBVIOUS
<1>1. Outstanding = {}
  BY IdsOfNothing DEF Init, Outstanding, NoBatch
<1> QED BY <1>1 DEF Init, Sink!Init

LEMMA EnqueueRefines ==
  ASSUME Inv, NEW keepalive \in BOOLEAN, Enqueue(keepalive)
  PROVE  Sink!Accept
<1> DEFINE e == [id |-> accepted + 1, keepalive |-> keepalive]
<1>1. /\ ~disabled /\ accepted' = accepted + 1 /\ buffer' = Append(buffer, e)
      /\ inflight' = inflight /\ disabled' = disabled
  BY DEF Enqueue, Accepts
<1>2. accepted \in Nat /\ Len(buffer) \in Nat /\ buffer \in Seq(Event)
  BY LenProperties DEF Inv, TypeOK
<1>3. e \in Event /\ e.id = accepted + 1
  BY <1>2 DEF Event
<1> HIDE DEF e
<1>4. /\ Len(buffer') = Len(buffer) + 1
      /\ \A i \in 1..Len(buffer) : buffer'[i] = buffer[i]
      /\ buffer'[Len(buffer) + 1] = e
  BY <1>1, <1>2, <1>3, AppendProperties
<1>5. Ids(buffer') = Ids(buffer) \union {accepted + 1}
  <2>1. \A x \in Ids(buffer') : x \in Ids(buffer) \union {accepted + 1}
    <3> SUFFICES ASSUME NEW i \in 1..Len(buffer) + 1
                 PROVE  buffer'[i].id \in Ids(buffer) \union {accepted + 1}
      BY <1>4 DEF Ids
    <3>1. CASE i = Len(buffer) + 1
      BY <1>3, <1>4, <3>1
    <3>2. CASE i \in 1..Len(buffer)
      BY <1>4, <3>2 DEF Ids
    <3> QED BY <1>2, <3>1, <3>2
  <2>2. accepted + 1 \in Ids(buffer')
    <3>1. Len(buffer) + 1 \in 1..Len(buffer') /\ buffer'[Len(buffer) + 1].id = accepted + 1
      BY <1>2, <1>3, <1>4
    <3> QED BY <3>1 DEF Ids
  <2>3. \A x \in Ids(buffer) : x \in Ids(buffer')
    <3> SUFFICES ASSUME NEW i \in 1..Len(buffer) PROVE buffer[i].id \in Ids(buffer')
      BY DEF Ids
    <3>1. i \in 1..Len(buffer') /\ buffer'[i] = buffer[i]
      BY <1>2, <1>4
    <3> QED BY <3>1 DEF Ids
  <2> QED BY <2>1, <2>2, <2>3
<1>6. Outstanding' = Outstanding \union {accepted'}
  BY <1>1, <1>5 DEF Outstanding
<1> QED BY <1>1, <1>6 DEF Sink!Accept

LEMMA DisableRefines ==
  ASSUME Inv, Disable
  PROVE  Sink!Close
<1>1. disabled' = TRUE /\ Outstanding' = Ids(inflight.events) /\ accepted' = accepted
  BY IdsOfNothing DEF Disable, Forget, Outstanding
<1>2. CASE Sending
  <2>1. lastSent \in Outstanding
    BY <1>2 DEF Inv, WireEndsAtLastSent, Outstanding
  <2>2. \A e \in Outstanding : e \in Ids(inflight.events) <=> e <= lastSent
    BY WireBeforeBuffer DEF Outstanding
  <2>3. Ids(inflight.events) = {e \in Outstanding : e <= lastSent}
    BY <2>2 DEF Outstanding
  <2> QED BY <1>1, <2>1, <2>3 DEF Sink!Close, Sink!UpTo
<1>3. CASE ~Sending
  <2>1. Outstanding' = {}
    BY <1>1, <1>3, IdsOfNothing DEF Sending
  <2>2. \A e \in Outstanding : ~(e <= 0)
    BY WireBeforeBuffer
  <2>3. Outstanding' = {e \in Outstanding : e <= 0}
    BY <2>1, <2>2
  <2> QED BY <1>1, <2>3 DEF Sink!Close, Sink!UpTo
<1> QED BY <1>2, <1>3

\* A drain that starts takes events from the buffer to the wire: nothing leaves.
LEMMA StartDrainRefines ==
  ASSUME Inv, StartDrain
  PROVE  UNCHANGED Sink!sinkVars
<1>1. /\ DrainLoop(Head(chain), buffer, disabled)
      /\ disabled' = disabled /\ accepted' = accepted
      /\ ~Draining
  BY DEF StartDrain
<1>2. buffer \in Seq(Event) /\ disabled \in BOOLEAN /\ (disabled => buffer = <<>>)
  BY DEF Inv, TypeOK, QuietWhenDisabled
<1>3. Outstanding' = Ids(buffer)
  BY <1>1, <1>2, LoopLeaves
<1>4. inflight.events = <<>>
  BY <1>1 DEF Inv, BatchWithinLimit, Sending
<1> QED BY <1>1, <1>3, <1>4, IdsOfNothing DEF Outstanding, Sink!sinkVars

LEMMA SettleRefines ==
  ASSUME Inv, SendSettles
  PROVE  Sink!Leave
<1>1. DrainLoop(drain, buffer, disabled) /\ Sending
      /\ disabled' = disabled /\ accepted' = accepted
  BY DEF SendSettles
<1>2. buffer \in Seq(Event) /\ disabled \in BOOLEAN /\ (disabled => buffer = <<>>)
  BY DEF Inv, TypeOK, QuietWhenDisabled
<1>3. Outstanding' = Ids(buffer)
  BY <1>1, <1>2, LoopLeaves
<1>4. lastSent \in Outstanding
  BY <1>1 DEF Inv, WireEndsAtLastSent, Outstanding
<1>5. \A e \in Outstanding : e \in Ids(buffer) <=> e > lastSent
  BY WireBeforeBuffer DEF Outstanding
<1>6. Ids(buffer) = {e \in Outstanding : e > lastSent}
  BY <1>5 DEF Outstanding
<1> QED BY <1>1, <1>3, <1>4, <1>6 DEF Sink!Leave, Sink!After

LEMMA FatalRefines ==
  ASSUME Inv, SendFailsForGood
  PROVE  Sink!Close
<1>1. DrainLoop(drain, <<>>, TRUE) /\ disabled' = TRUE /\ accepted' = accepted
  BY DEF SendFailsForGood, Forget
<1>2. <<>> \in Seq(Event)
  BY EmptySeq
<1>3. Outstanding' = {}
  BY <1>1, <1>2, LoopLeaves, IdsOfNothing
<1>4. \A e \in Outstanding : ~(e <= 0)
  BY WireBeforeBuffer
<1>5. Outstanding' = {e \in Outstanding : e <= 0}
  BY <1>3, <1>4
<1> QED BY <1>1, <1>5 DEF Sink!Close, Sink!UpTo

LEMMA NextRefines == Inv /\ [Next]_vars => [Sink!Next]_Sink!sinkVars
<1> SUFFICES ASSUME Inv, [Next]_vars PROVE [Sink!Next]_Sink!sinkVars
  OBVIOUS
<1>1. ASSUME NEW keepalive \in BOOLEAN, Enqueue(keepalive) PROVE Sink!Next
  BY <1>1, EnqueueRefines DEF Sink!Next
<1>2. ASSUME NEW option \in Option, Flush(option) PROVE UNCHANGED Sink!sinkVars
  BY <1>2 DEF Flush, Outstanding, Sink!sinkVars
<1>3. CASE TimerFires
  BY <1>3 DEF TimerFires, Outstanding, Sink!sinkVars
<1>4. CASE Disable
  BY <1>4, DisableRefines DEF Sink!Next
<1>5. CASE StartDrain
  BY <1>5, StartDrainRefines
<1>6. CASE SendSettles
  BY <1>6, SettleRefines DEF Sink!Next
<1>7. CASE SendFailsForGood
  BY <1>7, FatalRefines DEF Sink!Next
<1>8. CASE UNCHANGED vars
  BY <1>8 DEF vars, Outstanding, Sink!sinkVars
<1> QED BY <1>1, <1>2, <1>3, <1>4, <1>5, <1>6, <1>7, <1>8 DEF Next

\* EventIngestQueue is a telemetry sink: the safety half of ImplementsSink.
THEOREM Refinement == SafeSpec => Sink!SafeSpec
<1> QED BY InitRefines, NextRefines, Invariance, PTL DEF SafeSpec, Sink!SafeSpec
=============================================================================
