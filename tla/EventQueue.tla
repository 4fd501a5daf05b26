----------------------------- MODULE EventQueue -----------------------------
(***************************************************************************)
(* EventIngestQueue of packages/core/src/transport/event_queue.ts: the     *)
(* buffer in front of POST v1/events that the browser and the Node clients *)
(* share.  Callers enqueue and flush at any time; a two-second timer       *)
(* flushes what is left; every flush chains one drain behind the drains    *)
(* before it; a drain sends batch after batch and awaits each of them, so  *)
(* anything may happen between two of its steps.                           *)
(*                                                                         *)
(* Events are numbered in the order they are accepted; of their content    *)
(* only the keepalive flag matters to the queue.                           *)
(***************************************************************************)
EXTENDS Integers, Sequences

CONSTANTS
  MaxBatch,    \* MAX_EVENT_BATCH
  MaxEvents,   \* bound: events accepted in a behaviour
  MaxChain     \* bound: flush calls waiting on the promise chain

ASSUME EventQueueAssumption ==
  /\ MaxBatch \in Nat \ {0}
  /\ MaxEvents \in Nat
  /\ MaxChain \in Nat

VARIABLES
  buffer,      \* events accepted and not yet taken into a batch
  timer,       \* whether the flush timer is armed
  chain,       \* flush calls whose drain has not started
  drain,       \* the drain that is running, or NoDrain
  inflight,    \* the batch whose send is awaited, or NoBatch
  disabled,
  accepted,    \* history: events accepted
  lastSent,    \* history: number of the youngest event handed to send
  flushed      \* history: events accepted before the call of the last flush
               \* whose promise resolved

vars == <<buffer, timer, chain, drain, inflight, disabled, accepted, lastSent,
          flushed>>

-----------------------------------------------------------------------------
Event == [id : Nat, keepalive : BOOLEAN]

\* The keepalive option of a flush: "none" when the caller gave no options.
Option == {"none", "yes", "no"}

OptionOf(keepalive) == IF keepalive THEN "yes" ELSE "no"

\* A flush call remembers how many events it has to wait for.
Drain == [keepalive : Option, upto : Nat]
NoDrain == [keepalive |-> "idle", upto |-> 0]
NoBatch == [events |-> <<>>, keepalive |-> FALSE]

Draining == drain # NoDrain
Sending == inflight.events # <<>>

\* buffer.splice(0, MAX_EVENT_BATCH)
TakeLen(b) == IF Len(b) > MaxBatch THEN MaxBatch ELSE Len(b)
Batch(b) == SubSeq(b, 1, TakeLen(b))
Rest(b) == SubSeq(b, TakeLen(b) + 1, Len(b))

\* opts?.keepalive ?? batch.some((event) => event.keepalive)
BatchKeepalive(option, batch) ==
  \/ option = "yes"
  \/ option = "none" /\ \E i \in 1..Len(batch) : batch[i].keepalive

-----------------------------------------------------------------------------
Init ==
  /\ buffer = <<>>
  /\ timer = FALSE
  /\ chain = <<>>
  /\ drain = NoDrain
  /\ inflight = NoBatch
  /\ disabled = FALSE
  /\ accepted = 0
  /\ lastSent = 0
  /\ flushed = 0

\* flush(): the timer is cleared and a drain is chained.
ChainDrain(option, upto) ==
  /\ timer' = FALSE
  /\ chain' = Append(chain, [keepalive |-> option, upto |-> upto])

\* Mutant: the timer is left to a later event.
NoArm == UNCHANGED timer
Arm == timer' = TRUE

Accepts == ~disabled

Enqueue(keepalive) ==
  /\ Accepts
  /\ accepted < MaxEvents
  /\ accepted' = accepted + 1
  /\ buffer' = Append(buffer, [id |-> accepted', keepalive |-> keepalive])
  /\ IF keepalive \/ Len(buffer') >= MaxBatch
       THEN /\ Len(chain) < MaxChain
            /\ ChainDrain(OptionOf(keepalive), accepted')
       ELSE Arm /\ UNCHANGED chain
  /\ UNCHANGED <<drain, inflight, disabled, lastSent, flushed>>

\* Mutant: a flush of an empty buffer resolves at once.
FlushUnlessEmpty(option) ==
  /\ Len(chain) < MaxChain
  /\ IF buffer = <<>>
       THEN flushed' = accepted /\ UNCHANGED <<timer, chain>>
       ELSE ChainDrain(option, accepted) /\ UNCHANGED flushed
  /\ UNCHANGED <<buffer, drain, inflight, disabled, accepted, lastSent>>

Flush(option) ==
  /\ Len(chain) < MaxChain
  /\ ChainDrain(option, accepted)
  /\ UNCHANGED <<buffer, drain, inflight, disabled, accepted, lastSent, flushed>>

\* The timer's callback: a flush without options.
TimerFires ==
  /\ timer
  /\ ChainDrain("none", accepted)
  /\ UNCHANGED <<buffer, drain, inflight, disabled, accepted, lastSent, flushed>>

\* Mutant: disabling leaves the buffer alone.
Keep(b) == b
Forget(b) == <<>>

\* disable(), the kill switch of the host client.
Disable ==
  /\ disabled' = TRUE
  /\ buffer' = Forget(buffer)
  /\ timer' = FALSE
  /\ UNCHANGED <<chain, drain, inflight, accepted, lastSent, flushed>>

(***************************************************************************)
(* The head of drain's loop, for a drain d that holds buffer b and finds   *)
(* the queue disabled or not: it takes a batch and awaits its send, or it  *)
(* returns and its flush resolves.                                         *)
(***************************************************************************)
DrainLoop(d, b, off) ==
  IF b # <<>> /\ ~off
    THEN /\ inflight' = [events |-> Batch(b),
                         keepalive |-> BatchKeepalive(d.keepalive, Batch(b))]
         /\ buffer' = Rest(b)
         /\ lastSent' = b[TakeLen(b)].id
         /\ drain' = d
         /\ UNCHANGED flushed
    ELSE /\ inflight' = NoBatch
         /\ buffer' = b
         /\ drain' = NoDrain
         /\ flushed' = d.upto
         /\ UNCHANGED lastSent

\* The next drain of the chain starts, once the one before it has returned.
StartDrain ==
  /\ ~Draining
  /\ chain # <<>>
  /\ chain' = Tail(chain)
  /\ DrainLoop(Head(chain), buffer, disabled)
  /\ UNCHANGED <<timer, disabled, accepted>>

\* Mutant: a failed batch goes back in front of the buffer.
RetryOnFailure ==
  /\ Sending
  /\ \E b \in {buffer, inflight.events \o buffer} :
       DrainLoop(drain, b, disabled)
  /\ UNCHANGED <<timer, chain, disabled, accepted>>

\* The awaited send resolved, or failed with an error that onError swallows:
\* either way the batch is gone and the loop goes on.
SendSettles ==
  /\ Sending
  /\ DrainLoop(drain, buffer, disabled)
  /\ UNCHANGED <<timer, chain, disabled, accepted>>

\* The send failed and onError, called by drain, disabled the queue: the host
\* client does so when the server refuses the credential for good.
SendFailsForGood ==
  /\ Sending
  /\ disabled' = TRUE
  /\ timer' = FALSE
  /\ DrainLoop(drain, Forget(buffer), TRUE)
  /\ UNCHANGED <<chain, accepted>>

Next ==
  \/ \E keepalive \in BOOLEAN : Enqueue(keepalive)
  \/ \E option \in Option : Flush(option)
  \/ TimerFires
  \/ Disable
  \/ StartDrain
  \/ SendSettles
  \/ SendFailsForGood

SafeSpec == Init /\ [][Next]_vars

\* Timers fire, microtasks run, and a request settles: the runtime's part.
\* Nothing obliges a caller to enqueue, flush or disable.
Fairness ==
  /\ WF_vars(TimerFires)
  /\ WF_vars(StartDrain)
  /\ WF_vars(SendSettles \/ SendFailsForGood)

Spec == SafeSpec /\ Fairness

-----------------------------------------------------------------------------
TypeOK ==
  /\ buffer \in Seq(Event)
  /\ timer \in BOOLEAN
  /\ chain \in Seq(Drain)
  /\ drain \in Drain \union {NoDrain}
  /\ inflight \in [events : Seq(Event), keepalive : BOOLEAN]
  /\ disabled \in BOOLEAN
  /\ accepted \in Nat
  /\ lastSent \in Nat
  /\ flushed \in Nat

Ids(s) == {s[i].id : i \in 1..Len(s)}
Outstanding == Ids(inflight.events) \union Ids(buffer)

\* No event waits in the buffer without something that will take it: the armed
\* timer, a chained flush, or the drain that is running.  (enqueue either arms
\* or flushes; flush clears the timer; drain loops until the buffer is empty.)
NothingStranded ==
  buffer # <<>> => timer \/ chain # <<>> \/ Draining

\* When the promise of a flush resolves, every event accepted before that flush
\* was called has left the queue, the batch that was on the wire included:
\* client.flush and close rely on it when they await eventQueue.flush.
FlushIsABarrier ==
  \A e \in Outstanding : e > flushed

\* An event reaches send at most once and in the order of enqueue: what waits
\* in the buffer is younger than everything send was given.
OncePerEventInOrder ==
  /\ \A i \in 1..Len(buffer) : buffer[i].id = accepted - Len(buffer) + i
  /\ lastSent <= accepted - Len(buffer)
  /\ \A e \in Ids(inflight.events) : e <= lastSent

\* Requests stay within the batch limit of the ingest API, and a drain never
\* awaits an empty one.
BatchWithinLimit ==
  /\ Len(inflight.events) <= MaxBatch
  /\ Draining <=> Sending

\* disable is final: afterwards no event is accepted or kept and no batch is
\* handed to send, however many flushes and timers were under way.
DisabledForGood ==
  [][disabled => /\ disabled'
                 /\ accepted' = accepted
                 /\ lastSent' = lastSent
                 /\ buffer' = <<>>]_vars

\* The contract the queue implements.
Sink == INSTANCE EventSink WITH
  pending <- Outstanding, count <- accepted, open <- ~disabled
ImplementsSink == Sink!Spec

\* Every accepted event leaves the queue after finitely many steps.
EveryEventLeaves ==
  \A e \in 1..MaxEvents : e \in Outstanding ~> e \notin Outstanding
=============================================================================
