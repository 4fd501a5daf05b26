----------------------------- MODULE Analytics -----------------------------
(***************************************************************************)
(* AnalyticsFacade of packages/core/src/analytics.ts: product analytics    *)
(* behind consent.  track, page and identify queue an event and chain a    *)
(* flush at once; a flush sends batch after batch and awaits each, and     *)
(* gives up at the first error.  The visitor may withdraw and give consent *)
(* again, the project policy may kill the facade, and the host client may  *)
(* close, at any moment of a flush.                                        *)
(*                                                                         *)
(* An event carries the consent under which it was tracked: consent number *)
(* epoch, which ends when the visitor opts out.                            *)
(***************************************************************************)
EXTENDS Integers, Sequences

CONSTANTS
  MaxBatch,    \* MAX_ANALYTICS_BATCH
  MaxEvents,   \* bound: events accepted in a behaviour
  MaxChain,    \* bound: flush calls waiting on the promise chain
  MaxEpoch     \* bound: consents withdrawn in a behaviour

ASSUME AnalyticsAssumption ==
  /\ MaxBatch \in Nat \ {0}
  /\ MaxEvents \in Nat
  /\ MaxChain \in Nat
  /\ MaxEpoch \in Nat

VARIABLES
  consent,
  killed,
  host,        \* whether the host client still has its transport and identity
  queue,
  chain,       \* flush calls that have not started
  inflight,    \* the batch whose ingest is awaited; <<>> when none is
  accepted,    \* history: events accepted
  epoch        \* history: consents withdrawn

vars == <<consent, killed, host, queue, chain, inflight, accepted, epoch>>

Event == [id : Nat, epoch : Nat]

IsEnabled == consent /\ ~killed
Flushing == inflight # <<>>

\* queue.splice(0, MAX_ANALYTICS_BATCH)
TakeLen(q) == IF Len(q) > MaxBatch THEN MaxBatch ELSE Len(q)

Init ==
  /\ consent = FALSE
  /\ killed = FALSE
  /\ host = TRUE
  /\ queue = <<>>
  /\ chain = 0
  /\ inflight = <<>>
  /\ accepted = 0
  /\ epoch = 0

-----------------------------------------------------------------------------
\* Mutant: the queue survives, for the case that consent comes back.
Keep(q) == q
\* this.queue.length = 0
Clear(q) == <<>>

OptIn ==
  /\ ~consent
  /\ consent' = TRUE
  /\ UNCHANGED <<killed, host, queue, chain, inflight, accepted, epoch>>

OptOut ==
  /\ epoch < MaxEpoch
  /\ consent' = FALSE
  /\ queue' = Clear(queue)
  /\ epoch' = epoch + 1
  /\ UNCHANGED <<killed, host, chain, inflight, accepted>>

\* disable(), from the project policy or the host's kill switch.
Disable ==
  /\ killed' = TRUE
  /\ queue' = <<>>
  /\ UNCHANGED <<consent, host, chain, inflight, accepted, epoch>>

\* Mutant: the event waits for the next flush.
NoFlush == UNCHANGED chain
\* void this.flush()
ChainFlush == chain' = chain + 1

\* enqueue's early returns, those on missing identity apart.
Tracks == IsEnabled /\ host

\* enqueue() on behalf of identify, track, page and screen.
Track ==
  /\ Tracks
  /\ accepted < MaxEvents
  /\ chain < MaxChain
  /\ accepted' = accepted + 1
  /\ queue' = Append(queue, [id |-> accepted', epoch |-> epoch])
  /\ ChainFlush
  /\ UNCHANGED <<consent, killed, host, inflight, epoch>>

\* flush() called by the host: on a timer, at page hide, on close.
Flush ==
  /\ chain < MaxChain
  /\ chain' = chain + 1
  /\ UNCHANGED <<consent, killed, host, queue, inflight, accepted, epoch>>

\* close() of the host client drops transport and identity.
HostCloses ==
  /\ host
  /\ host' = FALSE
  /\ UNCHANGED <<consent, killed, queue, chain, inflight, accepted, epoch>>

\* The loop of flushOnce: take a batch and await it, or return.
FlushLoop(q) ==
  IF q # <<>> /\ IsEnabled
    THEN /\ inflight' = SubSeq(q, 1, TakeLen(q))
         /\ queue' = SubSeq(q, TakeLen(q) + 1, Len(q))
    ELSE inflight' = <<>> /\ queue' = q

\* A chained flush starts; it returns at once when the facade is not enabled,
\* clearing the queue, or when the host has closed.
StartFlush ==
  /\ ~Flushing
  /\ chain > 0
  /\ chain' = chain - 1
  /\ \/ ~IsEnabled /\ queue' = <<>> /\ UNCHANGED inflight
     \/ IsEnabled /\ ~host /\ UNCHANGED <<queue, inflight>>
     \/ IsEnabled /\ host /\ FlushLoop(queue)
  /\ UNCHANGED <<consent, killed, host, accepted, epoch>>

\* Mutant: the batch is put back and the flush goes on with it.
BatchRetried ==
  /\ Flushing
  /\ FlushLoop(inflight \o queue)
  /\ UNCHANGED <<consent, killed, host, chain, accepted, epoch>>

BatchSent ==
  /\ Flushing
  /\ FlushLoop(queue)
  /\ UNCHANGED <<consent, killed, host, chain, accepted, epoch>>

\* A passing failure: the batch is lost, the flush returns, and what is queued
\* waits for the next chained flush.
BatchFails ==
  /\ Flushing
  /\ inflight' = <<>>
  /\ UNCHANGED <<consent, killed, host, queue, chain, accepted, epoch>>

\* Missing scope or refused credential: the facade is dead for this page.
BatchFailsForGood ==
  /\ Flushing
  /\ killed' = TRUE
  /\ queue' = <<>>
  /\ inflight' = <<>>
  /\ UNCHANGED <<consent, host, chain, accepted, epoch>>

Settle == BatchSent \/ BatchFails \/ BatchFailsForGood

Next ==
  \/ OptIn \/ OptOut \/ Disable
  \/ Track \/ Flush \/ HostCloses
  \/ StartFlush
  \/ BatchSent \/ BatchFails \/ BatchFailsForGood

\* Promise reactions run and requests settle; nobody is obliged to track.
Fairness == WF_vars(StartFlush) /\ WF_vars(Settle)

SafeSpec == Init /\ [][Next]_vars
Spec == SafeSpec /\ Fairness

-----------------------------------------------------------------------------
TypeOK ==
  /\ consent \in BOOLEAN
  /\ killed \in BOOLEAN
  /\ host \in BOOLEAN
  /\ queue \in Seq(Event)
  /\ chain \in Nat
  /\ inflight \in Seq(Event)
  /\ accepted \in Nat
  /\ epoch \in Nat

\* Although a failed flush returns with events still queued and arms no timer,
\* none of them is stranded: every event chained a flush of its own, and every
\* flush that starts takes at least one, so there are always as many flushes to
\* come as events queued.
AFlushForEveryEvent ==
  host => Len(queue) <= chain

\* A batch that is handed to the transport holds only events of the consent in
\* force at that moment: what was tracked before an opt-out is never sent after
\* it, even when the visitor opts in again while an earlier batch is awaited.
SentUnderItsConsent ==
  [][inflight' # inflight =>
       \A i \in 1..Len(inflight') :
         consent' /\ ~killed' /\ inflight'[i].epoch = epoch']_vars

\* A killed facade stays silent whatever consent does (optIn does not revive it).
KilledForGood ==
  [][killed => killed' /\ accepted' = accepted /\ queue' = <<>>]_vars

Ids(s) == {s[i].id : i \in 1..Len(s)}

\* The contract: a telemetry sink that consent, kill switch and close can shut.
\* Once the host has closed, the queue can still be sent by a flush that runs,
\* and is dropped when that flush ends.
Outstanding ==
  Ids(inflight) \union (IF host \/ Flushing THEN Ids(queue) ELSE {})

Sink == INSTANCE EventSink WITH
  pending <- Outstanding,
  count <- accepted,
  open <- IsEnabled /\ host
ImplementsSink == Sink!Spec
=============================================================================
