------------------------------ MODULE Heatmaps ------------------------------
(***************************************************************************)
(* The heatmap recorder of packages/browser/src/heatmaps: the classifier   *)
(* that holds a click until its windows have closed, the buffer of page    *)
(* views, the chain of flushes, the batches of a flush and the snapshots   *)
(* the server asks for; with what TalariaClient puts around them           *)
(* (captureAutoPageview, consent, close; packages/browser/src/client.ts).  *)
(*                                                                         *)
(* A page view is the number of the page view; a page is its path.  The    *)
(* rage, dead and error marks, positions and times are left out.  A time   *)
(* that passes is a choice: how many of the waiting clicks are two seconds *)
(* old, whether a tick finds the flush due.                                *)
(***************************************************************************)
EXTENDS Integers, Sequences, SequencesExt

CONSTANTS
  Paths,
  Clicks,
  MaxClicks,      \* MAX_CLICKS_PER_PAGEVIEW
  BatchViews,     \* MAX_HEATMAP_PAGEVIEWS_PER_BATCH
  BatchClicks,    \* MAX_HEATMAP_CLICKS_PER_BATCH
  KeepaliveSize,  \* MAX_KEEPALIVE_BODY_BYTES; a page view and a click count 1
  MaxViews,       \* bound: page views
  MaxChained,     \* bound: flushes that wait; a call made while so many wait
                  \* adds none, and they take what it would
  MaxTurns        \* bound: times that consent is withdrawn

ASSUME HeatmapsAssumption ==
  /\ Paths # {}
  /\ {MaxClicks, BatchViews, BatchClicks, KeepaliveSize, MaxViews, MaxChained}
       \subseteq Nat \ {0}
  /\ MaxTurns \in Nat

VARIABLES
  killed,     \* disable was called
  consent,    \* isEnabled: the analytics facade records
  closed,     \* the client's close let go of the recorder
  path,       \* the page that is shown
  lastPath,   \* lastAnalyticsPath
  pages,      \* the path of each page view there was
  pending,    \* clicks of the classifier, the oldest first
  due,        \* how many of them are two seconds old
  current,    \* the buffer's open page view, as a sequence of at most one
  waiting,    \* its closed page views that were not sent
  chained,    \* flushes that wait in flushChain: with keepalive or not
  batches,    \* batches of the running flush, the first one is in flight
  inFlight,   \* snapshotInFlight
  shots,      \* snapshots under way
  turns,      \* times that consent was withdrawn
  at,         \* history: the path on which each click was made
  posted,     \* history: clicks posted, with their page view
  uploaded    \* history: snapshots uploaded

consenting == <<killed, consent, closed, turns>>
shown == <<path, lastPath, pages>>
buffer == <<pending, due, current, waiting>>
flushing == <<chained, batches>>
snapshots == <<inFlight, shots, uploaded>>
heatmapsVars == <<consenting, shown, buffer, flushing, snapshots, at, posted>>

Views == 1 .. MaxViews
NoPath == "none"
Unlimited == 1 + MaxViews * (MaxClicks + 1)   \* POSITIVE_INFINITY

ASSUME NoPathAssumption == NoPath \notin Paths

-----------------------------------------------------------------------------
(* Helpers. *)

active == ~killed /\ consent

NewView(v) == [id |-> v, clicks |-> <<>>, count |-> 0, sentOnce |-> FALSE, dirty |-> TRUE]

CurrentId == IF current = <<>> THEN 0 ELSE current[1].id

\* addClick for a run of clicks: those beyond the limit are dropped.
WithClicks(view, cs) ==
  LET n == IF view.count + Len(cs) > MaxClicks THEN MaxClicks - view.count ELSE Len(cs)
  IN [view EXCEPT !.clicks = @ \o SubSeq(cs, 1, n), !.count = @ + n]

\* onFinalized: a final click goes to the page view that is open now.
Added(cs) == [i \in DOMAIN current |-> WithClicks(current[i], cs)]

\* isSendable: the page view was never sent, its scroll reach grew or it has clicks.
IsSendable(view) == ~view.sentOnce \/ view.dirty \/ view.clicks # <<>>

HasPending(cur, old) == \E view \in Range(old) \union Range(cur) : IsSendable(view)

\* flush
Chain(keepalive) == IF Len(chained) < MaxChained THEN Append(chained, keepalive) ELSE chained

\* An entry of a batch is a page view with some of its clicks.
PostsOf(batch) ==
  UNION {{[click |-> c, view |-> batch[i].view] : c \in Range(batch[i].clicks)} :
           i \in DOMAIN batch}

ClicksOf(batch) == Cardinality(UNION {{i} \X DOMAIN batch[i].clicks : i \in DOMAIN batch})
Size(batch) == Len(batch) + ClicksOf(batch)

\* A page view opens in the last one of the batches done, or in a batch of its own when
\* that one is full.
Opened(done, view, limit) ==
  LET last == Last(done)
      entry == [view |-> view.id, clicks |-> <<>>]
  IN IF last # <<>> /\ (Len(last) >= BatchViews \/ Size(last) + 1 > limit)
     THEN Append(done, <<entry>>)
     ELSE ReplaceAt(done, Len(done), Append(last, entry))

\* A click joins the last entry; if it does not fit, its page view is repeated in the
\* next batch.  An entry alone takes its first click whatever the size.
Joined(done, c, limit) ==
  LET last == Last(done)
      entry == Last(last)
      alone == Len(last) = 1 /\ entry.clicks = <<>>
  IN IF ClicksOf(last) < BatchClicks /\ (alone \/ Size(last) + 1 <= limit)
     THEN ReplaceAt(done, Len(done), ReplaceAt(last, Len(last),
                      [entry EXCEPT !.clicks = Append(@, c)]))
     ELSE Append(done, <<[entry EXCEPT !.clicks = <<c>>]>>)

\* The turns of chunkHeatmapPageViews for one page view.
Placed(done, view, limit) ==
  LET after[n \in 0 .. Len(view.clicks)] ==
        IF n = 0 THEN Opened(done, view, limit)
        ELSE Joined(after[n - 1], view.clicks[n], limit)
  IN after[Len(view.clicks)]

\* chunkHeatmapPageViews, of the page views that drain found sendable.
Chunk(views, limit) ==
  LET after[n \in 0 .. Len(views)] ==
        IF n = 0 THEN <<<<>>>>
        ELSE IF IsSendable(views[n]) THEN Placed(after[n - 1], views[n], limit)
        ELSE after[n - 1]
  IN after[Len(views)]

\* Mutant: a page view keeps the clicks that were sent.
DrainedKeepsClicks(view) == [view EXCEPT !.sentOnce = TRUE, !.dirty = FALSE]

\* What drain leaves of a page view.
Drained(view) == [view EXCEPT !.clicks = <<>>, !.sentOnce = TRUE, !.dirty = FALSE]

\* The part of disable that is not about the chain: everything held is dropped,
\* and the timers of snapshots that wait for the page to settle are cleared.
Disabled ==
  /\ killed' = TRUE
  /\ pending' = <<>> /\ due' = 0 /\ current' = <<>> /\ waiting' = <<>>
  /\ shots' = {s \in shots : s.step # "settle"}

-----------------------------------------------------------------------------
HeatmapsInit ==
  /\ killed = FALSE /\ consent = FALSE /\ closed = FALSE /\ turns = 0
  /\ path \in Paths /\ lastPath = NoPath /\ pages = <<>>
  /\ pending = <<>> /\ due = 0 /\ current = <<>> /\ waiting = <<>>
  /\ chained = <<>> /\ batches = <<>>
  /\ inFlight = 0 /\ shots = {}
  /\ at = [c \in Clicks |-> NoPath] /\ posted = {} /\ uploaded = {}

-----------------------------------------------------------------------------
(* Page views. *)

\* Mutant: the clicks of the page before are finalized after the page view opened.
StartPageViewFirst(p) ==
  /\ pages' = Append(pages, p)
  /\ waiting' = waiting \o current
  /\ current' = <<WithClicks(NewView(Len(pages) + 1), pending)>>
  /\ pending' = <<>> /\ due' = 0
  /\ chained' = IF HasPending(<<>>, waiting \o current) THEN Chain(FALSE) ELSE chained
  /\ inFlight' = 0

\* startPageView: the clicks of the page before are finalized into its page view.
StartPageView(p) ==
  LET old == waiting \o Added(pending) IN
  /\ pages' = Append(pages, p)
  /\ pending' = <<>> /\ due' = 0
  /\ waiting' = old
  /\ chained' = IF HasPending(<<>>, old) THEN Chain(FALSE) ELSE chained
  /\ current' = <<NewView(Len(pages) + 1)>>
  /\ inFlight' = 0

\* captureAutoPageview: a page view when the path is another one than at the last
\* page view.  Once it is disabled, startPageView returns early.
AutoPageview(p, enabled) ==
  IF ~enabled \/ lastPath = p
  THEN UNCHANGED <<lastPath, pages, buffer, chained, inFlight>>
  ELSE /\ lastPath' = p
       /\ IF killed THEN UNCHANGED <<pages, buffer, chained, inFlight>>
          ELSE Len(pages) < MaxViews /\ StartPageView(p)

\* startNavigation
Navigate(p) ==
  /\ ~closed /\ p # path
  /\ path' = p
  /\ AutoPageview(p, consent)
  /\ UNCHANGED <<consenting, batches, shots, uploaded, at, posted>>

\* optIn, which calls onOptIn.
OptIn ==
  /\ ~closed /\ ~consent
  /\ consent' = TRUE
  /\ AutoPageview(path, TRUE)
  /\ UNCHANGED <<killed, closed, turns, path, batches, shots, uploaded, at, posted>>

\* optOut: nothing is taken from the recorder, its next flush clears the buffer.
OptOut ==
  /\ ~closed /\ consent /\ turns < MaxTurns
  /\ consent' = FALSE /\ turns' = turns + 1
  /\ shots' = {[s EXCEPT !.withdrawn = TRUE] : s \in shots}
  /\ UNCHANGED <<killed, closed, shown, buffer, flushing, inFlight, uploaded, at, posted>>

-----------------------------------------------------------------------------
(* Clicks and scrolling. *)

\* recordClick
Click(c) ==
  /\ ~closed /\ active /\ current # <<>>
  /\ at[c] = NoPath
  /\ at' = [at EXCEPT ![c] = path]
  /\ pending' = Append(pending, c)
  /\ UNCHANGED <<consenting, shown, due, current, waiting, flushing, snapshots, posted>>

\* recordScroll, when the reach of the page view grows.
Scroll ==
  /\ ~closed /\ active /\ current # <<>> /\ ~current[1].dirty
  /\ current' = <<[current[1] EXCEPT !.dirty = TRUE]>>
  /\ UNCHANGED <<consenting, shown, pending, due, waiting, flushing, snapshots, at, posted>>

\* The oldest click that is not yet two seconds old becomes so.
ClickAges ==
  /\ due < Len(pending)
  /\ due' = due + 1
  /\ UNCHANGED <<consenting, shown, pending, current, waiting, flushing, snapshots, at,
                 posted>>

\* tick, before the next flush is due.
Tick ==
  /\ ~closed /\ ~killed /\ due > 0
  /\ current' = Added(SubSeq(pending, 1, due))
  /\ pending' = SubSeq(pending, due + 1, Len(pending)) /\ due' = 0
  /\ UNCHANGED <<consenting, shown, waiting, flushing, snapshots, at, posted>>

\* tick, when the next flush is due.
TickFlushes ==
  LET cur == Added(SubSeq(pending, 1, due)) IN
  /\ ~closed /\ ~killed
  /\ HasPending(cur, waiting)
  /\ current' = cur
  /\ pending' = SubSeq(pending, due + 1, Len(pending)) /\ due' = 0
  /\ chained' = Chain(FALSE)
  /\ UNCHANGED <<consenting, shown, waiting, batches, snapshots, at, posted>>

\* flushOnHide
FlushOnHide ==
  /\ current' = Added(pending) /\ pending' = <<>> /\ due' = 0
  /\ chained' = Chain(TRUE)

\* The page is hidden.
Hide ==
  /\ ~closed /\ ~killed
  /\ FlushOnHide
  /\ UNCHANGED <<consenting, shown, waiting, batches, snapshots, at, posted>>

\* flushUnsafe of the client, and with it flush.
Flush(keepalive) ==
  /\ ~closed /\ Len(chained) < MaxChained
  /\ chained' = Chain(keepalive)
  /\ UNCHANGED <<consenting, shown, buffer, batches, snapshots, at, posted>>

\* close of the client: stop, then flushOnHide.
Close ==
  /\ ~closed
  /\ closed' = TRUE
  /\ FlushOnHide
  /\ shots' = {s \in shots : s.step # "settle"}
  /\ UNCHANGED <<killed, consent, turns, shown, waiting, batches, inFlight, uploaded, at,
                 posted>>

-----------------------------------------------------------------------------
(* A flush. *)

\* flushOnce, up to the first request.
StartFlush ==
  LET chunks == Chunk(waiting \o current, IF Head(chained) THEN KeepaliveSize ELSE Unlimited)
  IN
  /\ chained # <<>> /\ batches = <<>>
  /\ chained' = Tail(chained)
  /\ waiting' = <<>>
  /\ IF ~active THEN current' = <<>> /\ UNCHANGED <<batches, posted>>
     ELSE /\ current' = [i \in DOMAIN current |-> IF IsSendable(current[i])
                                                  THEN Drained(current[i]) ELSE current[i]]
          /\ IF HasPending(current, waiting)
             THEN batches' = chunks /\ posted' = posted \union PostsOf(Head(chunks))
             ELSE UNCHANGED <<batches, posted>>
  /\ UNCHANGED <<consenting, shown, pending, due, snapshots, at>>

\* Mutant: the next batch goes whatever happened since.
NextBatchAnyway ==
  IF Len(batches) = 1 THEN batches' = <<>> /\ UNCHANGED posted
  ELSE batches' = Tail(batches) /\ posted' = posted \union PostsOf(batches[2])

\* The next turn of the loop over the batches; without active, the rest is dropped.
NextBatch ==
  IF ~active \/ Len(batches) = 1 THEN batches' = <<>> /\ UNCHANGED posted
  ELSE batches' = Tail(batches) /\ posted' = posted \union PostsOf(batches[2])

\* The server took the batch, and may ask for snapshots of page views.
\* scheduleSnapshot answers for the open one, once.
Accepted(asks) ==
  /\ batches # <<>>
  /\ IF asks /\ current # <<>> /\ inFlight # CurrentId
     THEN /\ inFlight' = CurrentId
          /\ shots' = shots \union
               {[view |-> CurrentId, step |-> "settle", of |-> NoPath, withdrawn |-> FALSE]}
     ELSE UNCHANGED <<inFlight, shots>>
  /\ NextBatch
  /\ UNCHANGED <<consenting, shown, buffer, chained, uploaded, at>>

\* The request fails for now: its batch is lost.
Lost ==
  /\ batches # <<>>
  /\ NextBatch
  /\ UNCHANGED <<consenting, shown, buffer, chained, snapshots, at>>

\* The server has heatmaps switched off, or refuses the key, its scope or the body.
Refused ==
  /\ batches # <<>>
  /\ batches' = <<>>
  /\ Disabled
  /\ UNCHANGED <<consent, closed, turns, shown, chained, inFlight, uploaded, at, posted>>

\* disable, when the policy or another part of the client finds the key dead.
Disable ==
  /\ ~killed
  /\ Disabled
  /\ UNCHANGED <<consent, closed, turns, shown, flushing, inFlight, uploaded, at, posted>>

-----------------------------------------------------------------------------
(* A snapshot: the page settles, rrweb is loaded, the document is captured and *)
(* compressed, and the result is uploaded.                                     *)

\* run, up to the load of rrweb-snapshot.
Settled(s) ==
  /\ s \in shots /\ s.step = "settle"
  /\ shots' = (shots \ {s}) \union
       (IF active /\ s.view = CurrentId THEN {[s EXCEPT !.step = "load"]} ELSE {})
  /\ UNCHANGED <<consenting, shown, buffer, flushing, inFlight, uploaded, at, posted>>

\* captureHeatmapSnapshot: the document of this moment.
Captured(s) ==
  /\ s \in shots /\ s.step = "load"
  /\ shots' = (shots \ {s}) \union {[s EXCEPT !.step = "gzip", !.of = path]}
  /\ UNCHANGED <<consenting, shown, buffer, flushing, inFlight, uploaded, at, posted>>

\* Mutant: the snapshot goes whatever page view is open.
IsCurrentAlways(s) == TRUE

\* The page view is still the open one.
IsCurrent(s) == s.view = CurrentId

\* The upload; its outcome changes nothing.
Upload(s) ==
  /\ s \in shots /\ s.step = "gzip"
  /\ shots' = shots \ {s}
  /\ uploaded' = IF IsCurrent(s)
                 THEN uploaded \union {[view |-> s.view, of |-> s.of, withdrawn |-> s.withdrawn]}
                 ELSE uploaded
  /\ UNCHANGED <<consenting, shown, buffer, flushing, inFlight, at, posted>>

-----------------------------------------------------------------------------
HeatmapsNext ==
  \/ \E p \in Paths : Navigate(p)
  \/ OptIn \/ OptOut
  \/ \E c \in Clicks : Click(c)
  \/ Scroll \/ ClickAges \/ Tick \/ TickFlushes \/ Hide \/ Close
  \/ \E keepalive \in BOOLEAN : Flush(keepalive)
  \/ StartFlush
  \/ \E asks \in BOOLEAN : Accepted(asks)
  \/ Lost \/ Refused \/ Disable
  \/ \E s \in shots : Settled(s) \/ Captured(s) \/ Upload(s)

HeatmapsSpec == HeatmapsInit /\ [][HeatmapsNext]_heatmapsVars

-----------------------------------------------------------------------------
(* Properties. *)

ClicksIn(views) == UNION {Range(views[i].clicks) : i \in DOMAIN views}

\* Where a click is held: with the classifier or in the buffer.
Held == Range(pending) \union ClicksIn(waiting) \union ClicksIn(current)

\* "its clicks are sent once each" (heatmap_buffer.ts): a click that was posted is
\* neither held nor in a batch to come, whatever repeats its page view, and every
\* batch keeps the limits of the server.
SentOnceEach ==
  /\ \A p \in posted :
       /\ p.click \notin Held
       /\ \A i \in 2 .. Len(batches) : p.click \notin ClicksIn(batches[i])
       /\ \A q \in posted : q.click = p.click => q.view = p.view
  /\ \A i \in DOMAIN batches :
       Len(batches[i]) <= BatchViews /\ ClicksOf(batches[i]) <= BatchClicks

\* A click is posted under a page view of the page it was made on, although it is
\* attributed two seconds later, after navigations and changes of consent.
ClicksOnTheirPage == \A p \in posted : pages[p.view] = at[p.click]

\* The snapshot uploaded for a page view shows the page of that page view, unless
\* consent was withdrawn while it was under way.
SnapshotShowsItsPage == \A u \in uploaded : u.of = pages[u.view] \/ u.withdrawn

\* Once the recorder is disabled or consent is withdrawn no batch is posted, not
\* even the rest of a flush that was under way.
QuietWithoutConsent == [][~active => posted' = posted]_heatmapsVars

=============================================================================
