# Talaria JS SDK: a verification project

TLA+ models of the parts of this repository whose correctness depends on the
order in which asynchronous things happen: the telemetry queues, consent and
project policy, session replay, tracing in the browser and on the server,
heatmaps, feature flags, failed requests, and the life of the server client.
TLC checks the models on small instances; TLAPS proves the most important
invariants for every instance.  `PROJECT.json` links every definition to the
source lines it stands for.

Paths below are relative to the root of the repository.  "The core package" is
`packages/core/src`, "the browser package" `packages/browser/src`, "the node
package" `packages/node/src`.

## 1. The system

Talaria is an SDK that a site or a server embeds.  It captures errors, spans,
product analytics, heatmaps and session replays and posts them to the ingest API
(`POST v1/events`, `v1/spans`, `v1/analytics`, `v1/replays/...`).  Everything
runs on one JavaScript thread: an operation is atomic up to its next `await`, and
at every `await` anything else may run.  That is the whole concurrency model, and
the models here follow it: an action is one synchronous stretch of code.

### Components

| Component | State it keeps | Operations | Talks to | Hard behaviour | What makes it correct | Module |
|---|---|---|---|---|---|---|
| `EventIngestQueue` (core `transport/event_queue.ts`) | buffer, timer, promise chain, disabled | enqueue, flush, disable; timer callback; drain loop | `send` and `onError` of the client | drains interleave with enqueue; `disable` runs inside an awaited send | nothing is stranded; a flush covers what was queued before it; once and in order; batches within the limit; disable is final | `EventQueue` |
| `AnalyticsFacade` (core `analytics.ts`) | consent, disabled, queue, chain | optIn, optOut, disable, track/page/identify, flush | identity, transport of the client | consent changes while a batch is awaited; a failed flush arms no timer | nothing is sent under a withdrawn consent; no event is left without a flush; a killed facade stays silent | `Analytics` |
| SDK policy and kill switch (browser `client.ts`, core `policy/`) | cached document or tombstone, switches of events, spans, replay, analytics | bootstrapPolicy, applySdkConfig, stopForInactivePolicy, disableIngestAfterPermanentError | localStorage, `GET v1/sdk-config`, the answers to every signal | document, refusals and page loads in any order | no switch of events or analytics that a document or a refusal closed is reopened; a quiet page is silent; errors only without a policy, but for the analytics the site opts in to | `Policy` |
| Browser replay upload (browser `client.ts`, `transport/replays.ts`) | replay id, segment index, bytes, deadlines, timers, started/finished, upload chain, linkable id | capture, flush, upload task, end of clip, limits, hold and grant, kill switch | recorder, buffer, policy, ingest API | every task awaits several requests while the page records, captures, withdraws consent | segments continue the replay and begin with a paint base; budgets; consent; every clip ends; every error is reported and linked to what landed | `ReplayUpload` |
| `SegmentBuffer` and `fit_segment` (browser `replay/`) | ring of rrweb events | push, trim, take, prepend, cut at a gzip limit | upload task | a chunk taken across an `await` and put back | order is kept, the paint base survives | inside `ReplayUpload` |
| Replay recorder (browser `replay/recorder.ts`) | lazily imported rrweb | start, checkout, stop | buffer | loads asynchronously | as above | inside `ReplayUpload` |
| Browser `Tracer`, web vitals (browser `tracing/tracer.ts`, `integrations/`, `client.ts`) | one transaction, its counters and sample, the page load's sample, vitals held back, ended spans, two timers, chain of passes | startPageload, startNavigation, startSpan, recordHttpSpan, recordWebVital, markError, flush, disable, shutdown | transport, capture, history, page hide, close | a pass runs after the transaction it was called for has gone; errors keep what was sampled out | only what belongs to a kept transaction leaves; vitals follow their page load; an open transaction ends; what ended is sent | `Tracing` |
| Node `Tracer` and instrumentation (node `tracer.ts`, `http.ts`, `model_http.ts`, `db/`) | one transaction shared by all requests, span and query counters, query groups, query switch, ended spans, chain | startTransaction, startSpan, resetRequestState, setRecordQuerySpans, withoutQuerySpans, onSpanEnd, flush; request listener, outgoing calls, model calls, query wrappers | transport | concurrent requests share one tracer; limits of 200, 168 and 32; groups outlive spans | the reserve is kept; a query is counted only in a span that was not written yet; no call leaves the query switch off | `NodeTracer` |
| Node client (node `client.ts`, `index.ts`, `outgoing.ts`) | policy file, switches of three signals, patches of http, handlers, close | init, bootstrapPolicy, applySdkConfig, disable, send, flush, close, shutdown | queue, tracer, facade, file system | late answers after refusals and after close; kill and restart | a refused key is silent for the life of the next process, but for the analytics the site opts in to; no late document revives a signal; close ends | `NodeClient` |
| `TalariaFlags` (core `flags/`) | context, evaluations, cache, poll timer, request in flight | setContext, refresh, resolve, onPolicyUpdated, close | policy, storage | answer for an old context | flags end up those of the context; polling does not die out; a call returns | `Flags` |
| Heatmaps (browser `heatmaps/`) | pending clicks, page views, chain of flushes, batches, snapshot under way | startPageView, recordClick, recordScroll, tick, flush, flushOnHide, scheduleSnapshot, disable | consent, policy, page views of the client | a click is attributed two seconds late; consent and navigation come between batches and inside a snapshot | each click once and under its page; a snapshot shows its page; nothing without consent | `Heatmaps` |
| Network hooks and correlation (browser `replay/hooks.ts`, `network_errors.ts`, `client.ts`) | list of recent failures, flag of the capture under way | wrappers of fetch and XMLHttpRequest, onNetwork, onFailedRequest, onNetworkError, captureException | global handlers | a rejection does not name its request | no failure with a message of the browser is reported twice, no exception is suppressed without a failure that pays for it | `Network` |
| Browser client lifecycle (browser `client.ts` init/close) | options, listeners, timers | init, flush, close | all of the above | the awaits of close | each part is shut down | the steps of close are in `Tracing`, `Heatmaps` and `Analytics`; `ReplayUpload` has none |
| Identity (core `identity.ts`) | anonymous id, session, first touch | rotate, identify, reset | storage | storage faults | sessions do not overlap | not modelled |
| Breadcrumbs, scope (core) | two capped rings | add, snapshot | capture | caps | order and caps | not modelled |
| Consent adapters (browser `consent/`) | banner callbacks | install | `applyMeasurement` | third-party code | | external: their signals are inputs |
| `IngestError`, `ServerpodTransport` (core `transport/`) | none | classify an answer | all | | | the classification is the set of failures in the modules |
| React, Next.js, CLI packages | none beyond a call | | the clients | | | not modelled: wrappers and a build tool |

### How the parts meet

`TalariaClient.capture` waits for a flush of the event queue and for the upload
task of an error clip before it enqueues the error, so an error carries the id of
a replay that exists; it also marks the tracer's transaction and ends it.  Every
request may be answered by a refusal; `disableIngestAfterPermanentError` then
changes the switches that every other part reads.  The policy document does the
same from the other side.  Consent reaches `AnalyticsFacade.optIn/optOut`,
`holdReplay/maybeStartReplay` and, through the facade, the heatmap recorder.  A
failed request becomes a span, fails the transaction, and may become an event.
Page hide flushes everything with keepalive.

`PROJECT.json` lists, under `hazards`, each place where such an order can go
wrong, the line where it bites, and the properties that watch it.

## 2. Modules

| Module | Models | Actions and their code |
|---|---|---|
| `EventSink` | the contract of a telemetry queue: accept, leave oldest first, close, reopen | abstract |
| `EventQueue` | `EventIngestQueue` | `Enqueue`, `Flush`, `TimerFires` (arm's callback), `Disable`, `StartDrain` (chain.then), `SendSettles`/`SendFailsForGood` (the awaited send; onError may disable) |
| `Analytics` | `AnalyticsFacade` | `OptIn`, `OptOut`, `Disable`, `Track`, `Flush`, `HostCloses` (close drops the transport), `StartFlush`, `BatchSent`/`BatchFails`/`BatchFailsForGood` (the awaited ingest in flushOnce) |
| `Policy`, `MCPolicy` | policy cache, fetch, application and kill switch of one browser tab over several page loads | `Reload`, `Bootstrap`, `Fetched`, `FetchedUnchanged`, `FetchRefused`, `FetchFails`, `CacheAges`, `Send`, `Answered`, `SiteOptsIn`, `SiteOptsOut` (the public `analytics.optIn()` and `optOut()`), `RefusedOne`, `RefusedForGood` |
| `Flags` | `TalariaFlags` over one storage and several page loads | `SetContext`, `PolicyUpdated`, `TimerFires` (poll), `Call` (resolve), `CallTimesOut`, `Answered`/`Failed` (the awaited evaluate), `Close`, `Reload` |
| `ReplayUpload`, `MCReplayUpload` | replay upload of the browser client with the ingest API's view of each replay | tasks: `StartTask`, `StartResolves/Fails`, `GzipFits/TooLarge`, `UploadResolves/Fails`, `FinishSettles`; page: `RecorderLoads`, `Record`, `FlushCall`, `EventsFlushed`, `CaptureError`, `Report`; time: `DeadlinePasses`, `TimerFires`; outside: `PolicyArrives`, `KillSwitch`, `EventsRefused` (the key may not post events any more), `Withdraw`, `Grant` |
| `Tracing` | the browser tracer with the client's timers, capture, history and close around it | spans: `StartSpan`, `EndSpan`, `Request`, `RequestFails`, `RequestTooLate`, `HoldVital`, `EmitVital`; ends of a transaction: `CaptureError`, `TimerFires`, `Hide`, `Navigate`; sending: `Tick`, `StartPass`, `Accepted`, `FailsForNow`, `FailsForGood`, `Disable`, `StopTicking`; close: `Close`, `CloseFlushes`, `Shutdown`, `Closed` (one per await) |
| `NodeTracer`, `MCNodeTracer` | the server tracer and what feeds it | `RequestBegins/Ends`, `RootSpanEnds`, `OutgoingCall`, `Prepare`, `ModelCall`, `CallEnds`, `QueryBegins/Ends/Fails`, `SetRecordQuerySpans` (of the site), `ScopeBegins/Ends` (withoutQuerySpans before and after its await), `Flush`, `StartPass`, answers, `Disable`, `Capture` |
| `NodeClient` | the server client over the life of a process and its restarts | `Start` (init with `Bootstrap`), `FetchAnswers`, `FetchRefused`, `FetchFails`, `CacheAges`, `Record`, `SiteOptsIn`, `SiteOptsOut`, `Post`, `Accepted`, `Refused` (with `TakenBack`, the marks of the spans), `Close`, `Teardown`, `Closed` (one per await), `Crash` |
| `Heatmaps`, `MCHeatmaps` | classifier, buffer, flushes and snapshots | `Navigate`, `OptIn`, `OptOut`, `Click`, `Scroll`, `ClickAges`, `Tick`, `TickFlushes`, `Hide`, `Flush`, `StartFlush`, `Accepted`, `Lost`, `Refused`, `Disable`, `Settled`, `Captured`, `Upload`, `Close` |
| `Network`, `MCNetwork` | wrappers, promotion and correlation of failed requests | `Sends`, `Responds`, `FetchRejects`, `XhrFails`, `Catches`, `Surfaces` and `Throws` (captureException), `CaptureEnds`, `EntryAges`, `Expires` |
| `EventQueueProofs`, `AnalyticsProofs`, `ReplayUploadProofs`, `FlagsProofs`, `TracingProofs`, `NodeTracerProofs`, `NodeClientProofs` | theorems about the module each is named after | |
| `BrowserProofs` | theorems about `Policy`, `Network` and `Heatmaps`, which share no variable and are proved in one module | |

Conventions.  A batch, a document, a span or an rrweb event is a small record:
only what the properties tell apart is kept.  An event is its sequence number,
plus the keepalive flag (`EventQueue`), the consent it was tracked under
(`Analytics`), or whether it is a paint base (`ReplayUpload`); a span is its
transaction and what it is the span of.  In `ReplayUpload` the fields of
`TalariaClient` that tasks share form one record `client`, and the synchronous
stretches between two awaits are functions from record to record, so that an
action is one continuation of one await.  A variable marked "history" in its
module exists for the properties only.  A definition marked "Mutant" is not part
of the model: it is a plausible mistake in the definition after it, kept to show
that a property notices it.

## 3. What the runs check

Runs that must find no error:

| Run | Question | Bounds, and why they are enough |
|---|---|---|
| `event_queue` | Is every event handed over once and in order, with something always due to take it; does a flush cover what was there; does the queue implement `EventSink`, which a closed queue leaves nothing to; does every event leave? | Batches of 2, 5 events, 2 waiting flushes: a full batch, a batch in flight, a rest and two drains behind each other exist together. |
| `analytics` | Is anything sent under a withdrawn consent or left without a flush; does the facade implement `EventSink`, so that a killed one sends nothing? | Batches of 2, 4 events, 4 flushes, 2 withdrawals: consent can be withdrawn and given again twice within one awaited batch. |
| `policy` | Are the switches of a page one-way for events and analytics; is a page with a quiet tombstone silent; are only errors sent before a policy, but for the analytics the site itself opts in to? | Three page loads, so that what one page caches meets the next and the one after; documents that differ in every field the code reads. |
| `flags` | Does polling go on, is a shut client quiet, does a variation call return, do the flags follow the context that lasts? | Two contexts, two page loads, three policy documents, two context changes and two waiting calls a page: an answer, a poll, a policy change and a context change overlap in every order, and one page's cache meets the next page. |
| `replay` | Are segments posted only while the replay is open, without gap and in order, beginning with a paint base, within the clip budget, whatever is lost, fails for now, meets a limit or is too large; does every clip end, is every error reported, and linked only to what landed? | One error clip or one sampled session, two errors, of which the second arms the timer of a running clip again, one recorded event besides paint bases, chunks of 2 units against a clip of 3, 2 segments a clip and 3 a session: every limit is reached, a batch of two can fail at either segment, and a flush call of the page meets every phase of a capture. |
| `replay_consent` | Is a replay started without consent when it is withdrawn and given again in the middle of a task? | One withdrawal, one clip, one error; lost answers, failures for a while, refusals of replay or of events alone, and permanent ones. `MayStart` of `MCReplayUpload`, a constraint, stops where replay is off for good, so that no start can follow. |
| `tracing` | Does only what belongs to a kept transaction leave; are vitals recorded with their page load, up to the limit of spans; does an open transaction have its timer; is what ended in a kept transaction sent? | The page load and one navigation, one request, one span and one vital, a limit of 2 spans a transaction: the limit is met, a span outlives its transaction, one answer is lost, and close and a policy come in at every step. |
| `node_tracer` | Is the reserve for other spans kept; is a query counted only in a span that was not written yet; does no call of `withoutQuerySpans` leave the query switch off? | Two concurrent requests, one call, two queries; 3 spans of which 1 may be a query and 2 are reserved; 2 calls of `withoutQuerySpans` that overlap in any order, with the site's `setRecordQuerySpans` between them. `Apart` of `MCNodeTracer`, a constraint, looks past the states in which such a call is open while an outgoing call is under way or the tracer is off: the switch meets requests, queries and passes, and they meet calls and disable. |
| `node_client` | Is a process that starts under a remembered refusal silent, but for the analytics the site opts in to; does no late document revive a signal; is a signal that is off empty; does close end? | 3 records a process and 2 passes of the tracer behind which close may wait, any number of restarts, all documents and all causes of a refusal: each signal can have a post under way while close waits, or one of them a second record behind it. |
| `heatmaps` | Is a click sent once and under its page, does a snapshot show its page, is nothing posted without consent? | Two pages, two page views, three clicks of which two fit a page view and one a batch: a page view is repeated over batches, and its last click is dropped. |
| `network` | Is a failure with a message of the browser reported twice, or an exception suppressed that no failure pays for? | Two requests to one URL of the page, one to another origin that `networkErrorOrigins` lists, one that is ignored, and an error that only sounds like a failed fetch: entries merge, expire and are taken by others; every message of a rejection, known to the correlation or not, and rejections that come more than once. |

One run must find a disagreement between the code and its documentation:

| Run | What it shows |
|---|---|
| `node_loses_spans` | `resetRequestState` chains a pass and empties the list of ended spans in the same turn, so the span of the request that was just answered is thrown away before the pass can take it. |

Deadlock checking is off where a behaviour that has used up its bounds stops.

### Bounds

Every bound is a constant named `Max...` and commented "bound" where it is
declared.  They limit how often the environment acts (events accepted, errors
captured, flush calls waiting, consents withdrawn, page loads), never how the
code answers.  `MaxBatch`, `ClipSegments`, `SessionSegments`, `ClipBytes`,
`ChunkLen`, `Limit`, `AutoFlush`, `MaxSpans`, `MaxSql`, `Reserved`, `MaxClicks`,
`BatchViews`, `BatchClicks` and `KeepaliveSize` are constants of the code (50, 200,
168, 32, ...) made small.  `MaxChained` bounds the passes that wait in a promise
chain: a call made while so many wait adds none, which changes nothing for a pass
that takes everything there is.

The faults are divided between the two runs of `ReplayUpload`, which together
would take too long: `replay` has those after which the client goes on, so that
events stay on and every error is really reported; `replay_consent` has lost
answers, permanent refusals and those of one signal.  The theorems about segments, clips
and links hold for every set of faults.

`replay` is checked with `MaxHolds = 0`: with a withdrawal, the properties about
segments fail for the reasons given under "Behaviour worth knowing" below.  The
theorems about them hold for every `MaxHolds`, in the states before the first
withdrawal (`page.holds = 0`).

### Fairness

Only what the runtime owes is fair: a promise reaction whose promise is settled runs,
a timer that is set fires, and where it is said a request settles.  That is an
assumption about the network, not about the code: only `GET sdk-config` has a timeout
(core `sdk_policy.ts:144`), the posts of `serverpod.ts:84-163` have none, so one that
hangs holds up whatever awaits it.  Nothing the site or the visitor does is fair:
nobody has to record, flush, hide, consent or reload.  Fairness of "settles" is on the
disjunction of success and failure, so a behaviour in which every request fails is a
fair one. `EventQueue` and `Analytics` assume that a send settles.  `ReplayUpload`
does not: `RequestsSettle` stands on the left of `EveryClipEnds` and
`EveryErrorReported`, which say that as long as no request hangs nothing else holds a
clip or an error up.  `Policy`, `NodeTracer`, `Heatmaps` and `Network` state no
liveness property and have no fairness.  `Tracing` is fair to its timers, its
interval, the next pass of the chain and the answer to a request; answers are lost at
most `MaxFailures` times, after which a request that is answered is accepted or
refused for good. `NodeClient` is fair to the posts that close waits for, to the
answers of posts and to the two continuations of close, and to nothing else: the
process may be killed at any moment, and that ends a close as well.  `Flags` has no
fairness of requests at all, because nothing aborts one that hangs; that the flags
follow the context is stated under the assumption that requests keep being answered
(`SF_vars(Answered)` on the left of the implication).

## 4. What is proved

The theorems hold for every value of the constants, bounds included.  The
assumptions are those named `...Assumption` in the modules: limits are positive
naturals, policy documents have the fields the code reads, the limit of queries
and the reserve fit into the limit of spans.

`EventQueueProofs`.  The inductive invariant `Inv` is the conjunction of the
checked invariants with four facts: batches are within the limit, a disabled queue
is empty, flushes wait for events already accepted, and the last number handed to
send is on the wire while anything is.  They are needed because the barrier is
established by a drain that returns, which only knows that the buffer is empty, or
that it was emptied by disable.  From `Inv`: `TypeCorrect`, `NeverStranded`,
`FlushBarrier`, `OrderedOnce`, `DisableIsFinal`, and `Refinement`: every step of
the queue is a step of `EventSink` or a stutter (the safety half of
`ImplementsSink`).

`AnalyticsProofs`.  `AFlushForEveryEvent` (as many flushes to come as events
queued) is inductive because a flush that starts takes at least one event.  That
a batch belongs to the consent in force needs the invariant that everything
queued does, which `optOut` maintains by clearing the queue: `ConsentHolds`.
`KilledIsFinal` needs that a killed facade has an empty queue.  `Refinement` is
the safety half of `ImplementsSink`: every step of the facade is a step of
`EventSink`, which consent, the kill switch and the closing host shut, or a
stutter.  It rests on `Order`: what is on the wire and in the queue is in the
order in which it was accepted, so that what leaves is the oldest, and a facade
that is shut has nothing queued, so that the sink that closes drops exactly that.

`ReplayUploadProofs`.  A task of the upload chain is a composition of functions
from client to client, and the proof is built like it: `IInv` holds between the
steps (`Good`), a stretch of a task takes a client that is `Ready` to one that is
`Settled`, by a lemma of its own, and an action composes the lemmas of the
stretches it runs.  `Good` has three parts.

* Order, withdrawn or not: the packed segments, the chunk that gzip works on and
  the buffer are increasing, follow each other in this order, and hold only
  events newer than the last event that any replay of the server has
  acknowledged.  From it `NoEventIsPostedTwice`, with no condition.
* Belief, until the first withdrawal: a replay the client has started is started
  on the server; one it has not started is not finished there; its index never
  exceeds the segments that landed; and if the server has finished a replay whose
  answer was lost, uploading is off.  The converse inclusions fail, because
  answers are lost, which is why the invariant is stated with inequalities.
* Packing, until the first withdrawal: the packed segments are numbered from the
  index on, the first one of a replay begins with a paint base, and with what
  landed they stay within the segments and bytes of a clip.

From these `PostsWhileOpen`, `SegmentsContinue`, `SegmentZeroIsPainted`,
`ClipStaysWithinBudget` and `LinksHaveLanded`, each under `page.holds = 0`.  The
condition is the code's, not the proof's: `holdReplay` during a task between two
awaits (`client.ts:1072`) breaks what is said of segments, and the model shows it.
`StartsWithConsent` has no condition.  The bytes of the packed segments, and the
events of segments put back one after the other, are recursive functions; what
the lemmas say of them is proved by induction over the naturals, in the form that
a set of naturals with 0 and every successor is all of them (`Induction`, from
`NatLessThanWellFounded` and `WFMin`).

`BrowserProofs`, the policy.  `PolicyInv` adds to the types that nothing is in flight
before the bootstrap, that a page which found a quiet tombstone has every switch
closed, and that until a document is applied only the switch of events is open, and
that of analytics where the site opened it on this page.  From it `PolicyTypeCorrect`,
`ErrorsOnly`, `QuietForItsLife`, `StoppedForGood`, `RefusalIsLocal`.

`BrowserProofs`, the network failures.  `Paid` counts: the exceptions that were
suppressed and the entries that still can suppress one are together no more than
the failures remembered that pay for one.  An entry is added with its failure,
taken with its exception, and merged or expired without one.  `OneEvent` cannot
follow the entry of a failure, because a rejection takes any entry of its kind.
It needs, until entries are tangled (they merge, expire early, or are taken by a
request that has none, by a rejection that comes again or by an error that only
sounds like one), that there are at least as many entries of a kind as rejections
of it still to come whose message is the browser's, and that where network errors
are promoted every entry such a rejection can find suppresses.

`BrowserProofs`, the heatmap.  `HeatmapsInv` has three parts.  `BufferInv`: a
click is held in one place, with the classifier, in a closed page view or in the
open one; the open page view is of the page seen last, which is the page shown
while there is consent; so clicks that are still pending belong to it.  `SentInv`:
the batches of a flush have no click in common, with each other, with what is
held or, but for the one in flight, with what was posted; every post is under a
page view of its page; every batch keeps the limits.  `ShotsInv`: a snapshot that
was captured, and not withdrawn, shows the page of its page view while that is
open.  The step of a flush rests on `ChunkKeeps`, which says of
`chunkHeatmapPageViews`, by induction over page views and over the clicks of
each: every post of a batch comes from the page views, no two batches share a
click, and no batch exceeds the number of page views and clicks.  From the
invariant `EachClickSentOnce`, `ClicksStayOnTheirPage`, `SnapshotsShowTheirPage`;
`QuietWhenInactive` needs none.

`FlagsProofs`.  `PollGoesOn` is inductive together with "no timer when shut": the
callback that cleared the timer either finds a request in flight and sets the
timer at once, or awaits its own request, whose settling ends in schedulePoll.

`TracingProofs`.  `TimerIsSet` is inductive as it stands.  `VitalsGoWithTheDocument`
needs that the page load is transaction 1 and transactions are counted upwards, so
that an error releases vitals only while the page load is current; and, of the
limit, that the vitals an error releases get the places that are left, in some
order, so that one which is not recorded found the transaction full.
`OnlyKeptIsSent` needs four invariants about places a span can be: a sampled
transaction is kept; the list holds spans of the current transaction, vitals, and
application spans that ended late; live spans are children of this or an earlier
transaction; and the wire holds what the list had when it was kept.

`NodeTracerProofs`.  `RoomIsKept` needs that no more queries are counted than
spans and than their limit; its one interesting step is a query that is admitted
when just the reserve is left.  `AbsorbedIsCounted` says that a count never goes
into a span after it was written for a request which the server then accepts; it
needs that what is counted in the spans in flight was written with them, which
holds because a span that is marked absorbs no more.
`ScopesAreRestored` is strengthened by: a call that began alone did not find the
switch off by another call; so the last to end restores what no call did, or is
the one that is named lost.  `TypeCorrect` is the
type invariant, counters within their limits included.

`NodeClientProofs`.  `Inv` adds to the properties that a process which has not
started has nothing, and that a quiet one has events off and no tracer, so that it
takes no record but the analytics the site opted in to.  From it `TypeCorrect`,
`QuietForItsLife`, `DeadForItsLife`, `OffHasNothing`.

Every invariant and every safety action property of the passing runs is proved.
Only model-checked: liveness (`EveryEventLeaves`, `EveryClipEnds`,
`EveryErrorReported`, `EndedSpansAreSent`, `CloseEnds`, `AnswersInTime`,
`FollowsTheContext`, the fairness half of `ImplementsSink` for the queue and the
facade), because the prover has neither ENABLED nor fairness.

## 5. Behaviour worth knowing

The models show the following, as the code does; no run spends a property on it,
because the property would fail or because the repository promises nothing.

* `client.ts:903-911`: a policy document that was in flight when the key was
  refused replaces the tombstone, starts a new tracer and clears replayDisabled.
  The early return of the kill switch (`client.ts:2083`) looks at three switches
  only, so a page whose events, replay and analytics are off keeps its tracer.
* `client.ts:1072`: `holdReplay` does not reach a task between two awaits.  What
  it had packed is posted after the withdrawal, against "drop segments that were
  not sent" (line 1071), and it then writes its segment index (line 2913) into the
  replay that took the place of its own.
* `client.ts:3010`: the halves of a segment refused as too large go back into one
  buffer, from which the next pack takes them together again, against "never
  blind-retry the same payload" (line 511).
* The task that ends an error clip uploads nothing recorded since the last flush.
  An error that is not sampled can be linked to a clip that has just ended.
* `tracer.ts:219`: `startNavigation` chains a pass and clears the list before the
  pass can run; what ended in the transaction before, an error transaction too, is
  lost.  A replay that reaches its limit clears the interval that also flushes
  spans (`client.ts:2359`).
* `heatmap_recorder.ts:220`: a snapshot under way when consent is withdrawn is
  uploaded, against "Checked before every capture and send." (line 35).
* `flags_client.ts:294`: an answer for one context is stored and cached under the
  fingerprint of the next one, until the next poll.
* node `client.ts:301`: a document that arrives after a refusal makes a tracer
  where none was, and one that arrives after close patches http again.
* A page-hide event can share a batch that a plain drain sends without keepalive.
* `client.ts:1357`: an exception captured while another awaits its upload is
  dropped.
* `tracer.ts:91` of the node package: of calls of `withoutQuerySpans` that overlap,
  one that began within another and ends last leaves query spans off, until a
  request ends.  And what `setRecordQuerySpans(false)` turns off "for one run"
  (`CHANGELOG.md:46`) is on again when any request ends, or when a call that began
  before it does.
* `tracer.ts:153` of the node package: with the list of ended spans the queries
  counted in them are lost.
* `client.ts:925`: a site that opted out of public analytics is opted in again by
  a document with public analytics that arrives later.
* node `client.ts:284-287`: under a remembered refusal of the key only events are
  off; the analytics a site opts in to are still posted.
* `client.ts:2587`: a rejection whose message no browser gives for a failed fetch
  (the reason given to `abort`, Safari's words when offline) is promoted as a
  failed request and then captured as an exception too.  So is one that the
  application captures and throws on.  An error such as "Failed to fetch
  dynamically imported module" is suppressed for the entry of another failure.
* `Talaria.isEnabled()` of the node package stays true after close, against "False
  ... after close" (`api.ts:13`) and "until `close`" (`client.ts:114`): close keeps
  the options (`NodeClient`, `Takes`).
* A post of replays that never settles holds back the report of the error that
  waits for it: it has no timeout (`serverpod.ts:84-163`).

## 6. What is left out

* Content: payloads, stack traces, sanitising, formatting, HTTP and compression
  (compressed sizes are nondeterministic within `Sizes`), attributes and names of
  spans, selectors and positions of clicks, token counts of model calls.
* The page disappearing: every behaviour of a page that is cut short is a prefix
  of one that is modelled.  A process that is killed is an action of `NodeClient`,
  because the policy file outlives it.
* Sampling is a nondeterministic choice; clocks are events: the deadline passes,
  the timer fires, the cache ages, a click is two seconds old.
* `Policy` follows the documents as a site does that asked for public analytics,
  and takes replay as one switch.
* The answer to a request that was lost is a failure after the server has done
  its part (`UploadFails`, `StartFails`, `FinishSettles`).  `MayHaveLanded` keeps
  both shapes of `ingestReplaySegmentBatch`: one call for each segment, or one
  for the batch, which may have landed whole when its answer is lost.
* In `Flags`, the map of flags is one value (the context it was evaluated for):
  change listeners, the tags stamped on events and the once-per-key analytics
  event do not feed back into it.
* `NodeTracer` has one text of a query per trace, so one group; `NodeClient` has
  no queue inside a signal, which is what `EventQueue`, `Analytics` and
  `NodeTracer` have.
* init of the browser client while its close is under way; the console hook;
  Breadcrumbs, scope and Identity, which are synchronous functions of their
  arguments and the clock; consent adapters, which are third-party callbacks; the
  React, Next.js and CLI packages.

## 7. Plan

1. `ClientLifecycle`: re-init of the browser client around the awaits of close.
2. `Browser`: `Policy`, `EventQueue` and `Analytics` composed, so that a refusal
   of one queue's batch reaches the other.
3. Proofs: what of the order of segments survives a withdrawal, beyond
   `NoEventIsPostedTwice`; that the size of a batch of the heatmap stays within the
   keepalive limit, but for a page view alone with its first click.
4. `FitSegment`, `Breadcrumbs`, `Identity`: pure algorithms against reference
   definitions.
