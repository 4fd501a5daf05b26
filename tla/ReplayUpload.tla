---------------------------- MODULE ReplayUpload ----------------------------
(***************************************************************************)
(* Session replay in packages/browser/src/client.ts: rrweb events go into  *)
(* a buffer; a sampled session, or an error that starts an error clip,     *)
(* uploads the buffer as numbered segments of one replay; deadlines,       *)
(* limits, page hide, consent and the kill switch end the replay.  Upload  *)
(* tasks run one after another on a promise chain, but every task awaits   *)
(* requests and gzip, and the page goes on meanwhile: it records, captures *)
(* errors, hides, withdraws consent, receives its policy.                  *)
(*                                                                         *)
(* The fields an upload task reads and writes form the record client; the  *)
(* operators from Done to BeginTask are the synchronous stretches of a     *)
(* task between two awaits, as functions from client to client.            *)
(* An event is its number and whether it is a paint base (Meta and         *)
(* FullSnapshot, which rrweb emits together).  replaysErrorAfterMs is      *)
(* positive, so an error clip always has a deadline, long before the       *)
(* five-minute limit that bounds a sampled session.                        *)
(***************************************************************************)
EXTENDS Integers, SequencesExt

CONSTANTS
  SessionSegments,  \* MAX_SEGMENTS_PER_REPLAY
  ClipSegments,     \* MAX_SEGMENTS_ERROR_CLIP and the batch limit
  ClipBytes,        \* MAX_ERROR_CLIP_COMPRESSED_BYTES
  Sizes,            \* compressed sizes of a segment
  ChunkLen,         \* events of one estimated-bytes take
  Faults,           \* kinds of failure a request may meet
  MaxEvents,        \* bound: events the page records by itself
  MaxCaptures,      \* bound: errors captured
  MaxCalls,         \* bound: flush calls and upload tasks waiting
  MaxClips,         \* bound: error clips started
  MaxHolds          \* bound: times measurement consent is withdrawn

ASSUME ReplayUploadAssumption ==
  /\ {SessionSegments, ClipSegments, ClipBytes, ChunkLen} \subseteq Nat \ {0}
  /\ Sizes \subseteq Nat \ {0}
  /\ Faults \subseteq {"transient", "scope", "permanent", "limit", "oversized"}
  /\ {MaxEvents, MaxCaptures, MaxCalls, MaxClips, MaxHolds} \subseteq Nat

VARIABLES
  client,    \* replay fields of TalariaClient, and the task that runs
  waiting,   \* flush calls that await eventQueue.flush, oldest first
  page,      \* consent, policy and what the page did so far
  server,    \* what the ingest API has of the replays it was sent
  link       \* errors reported to the event queue, and the replayId of the last one

vars == <<client, waiting, page, server, link>>

-----------------------------------------------------------------------------
Event == [n : Nat, full : BOOLEAN]
Segment == [index : Nat, events : Seq(Event), size : Nat]

\* A task: what was asked, and whether a captured error waits for it.
Kind == {"ensure", "flush", "hide", "clip", "wall", "disabled"}
Task == [kind : Kind, awaited : BOOLEAN]
Step == {"idle", "begun", "starting", "packing", "uploading", "finishing", "aborting"}
Run == [step : Step, kind : Kind, awaited : BOOLEAN, rid : Nat, count : Int,
        segs : Seq(Segment), chunk : Seq(Event), next : Nat, over : BOOLEAN,
        then : {"end", "limit"}]
Client == [uploading : BOOLEAN, sampled : BOOLEAN, disabled : BOOLEAN,
           killed : BOOLEAN, recorder : {"off", "loading", "on"}, rid : Nat,
           started : BOOLEAN, finished : BOOLEAN, index : Nat, bytes : Nat,
           linkable : Nat, failed : BOOLEAN, buffer : Seq(Event), events : Nat,
           linking : Nat, run : Run, deadline : {"none", "running", "past"},
           timer : BOOLEAN, chain : Seq(Task)]
Idle == [step |-> "idle", kind |-> "ensure", awaited |-> FALSE, rid |-> 0,
         count |-> 0, segs |-> <<>>, chunk |-> <<>>, next |-> 0, over |-> FALSE,
         then |-> "end"]

Minimum(a, b) == IF a < b THEN a ELSE b
First(q, k) == SubSeq(q, 1, Minimum(k, Len(q)))
From(q, k) == SubSeq(q, k, Len(q))
HasFull(events) == \E i \in 1..Len(events) : events[i].full
StartsWithFull(events) == events # <<>> /\ events[1].full

Bytes(segs) ==
  LET sum[k \in 0..Len(segs)] == IF k = 0 THEN 0 ELSE sum[k - 1] + segs[k].size
  IN sum[Len(segs)]
EventsOf(segs) == FlattenSeq([i \in 1..Len(segs) |-> segs[i].events])

Push(s, full) ==
  [s EXCEPT !.events = @ + 1,
            !.buffer = Append(@, [n |-> s.events + 1, full |-> full])]

\* takeFullSnapshot: rrweb emits a paint base, once it is loaded and recording.
Checkout(s) == IF s.recorder = "on" THEN Push(s, TRUE) ELSE s

\* markUploadStarted: the deadline is set once; a clip's timer is armed apart.
MarkStarted(s) ==
  [s EXCEPT !.deadline = IF @ = "none" THEN "running" ELSE @,
            !.timer = @ \/ s.sampled]

\* resetToBufferMode
Reset(s) ==
  Checkout([s EXCEPT !.timer = FALSE, !.uploading = FALSE, !.started = FALSE,
                     !.finished = FALSE, !.index = 0, !.bytes = 0,
                     !.deadline = "none", !.rid = @ + 1, !.buffer = <<>>])

\* What ends uploading: a clip returns to buffering, a session stays silent.
Stop(s) == IF s.sampled THEN [s EXCEPT !.uploading = FALSE, !.timer = FALSE]
                        ELSE Reset(s)

\* disableIngestAfterPermanentError for the replay signal.
Disable(s, fault) ==
  LET off == [s EXCEPT !.disabled = TRUE, !.killed = @ \/ fault = "permanent"]
  IN IF fault = "scope" THEN [off EXCEPT !.uploading = FALSE]
     ELSE IF s.killed /\ s.disabled THEN s
     ELSE IF s.sampled THEN [off EXCEPT !.uploading = FALSE]
     ELSE [off EXCEPT !.timer = FALSE,
             !.chain = IF s.uploading
                         THEN Append(@, [kind |-> "disabled", awaited |-> FALSE]) ELSE @]

-----------------------------------------------------------------------------
(* Synchronous stretches of an upload task.                                *)

\* Mutant: nothing resolves the capture that awaits the flush.
NeverDone(s) == [s EXCEPT !.run = Idle]
\* The task resolves; the capture that awaited its flush may go on.
Done(s) ==
  [s EXCEPT !.run = Idle,
            !.linking = IF s.run.awaited THEN @ + 1 ELSE @]

\* finishOnServer remembers the replay for the error event before it awaits.
Finishing(s, then) ==
  [s EXCEPT !.linkable = IF s.index > 0 THEN s.rid ELSE @,
            !.run.step = "finishing", !.run.then = then, !.run.rid = s.rid]
Unfinished(s) == s.started /\ ~s.finished

\* What follows the finish request a task ends with.
AfterEnd(s) ==
  Done(IF s.run.kind \in {"clip", "disabled"} THEN Reset(s) ELSE Stop(s))
End(s) == IF Unfinished(s) THEN Finishing(s, "end") ELSE AfterEnd(s)

\* What a task does after uploadPendingSegments.
AfterUpload(s) ==
  CASE s.run.kind = "flush" -> Done(s)
    [] s.run.kind = "hide" -> IF s.uploading THEN End(s) ELSE Done(s)
    [] OTHER -> End(s)

AfterLimit(s) == AfterUpload(Stop(s))
FinishAtLimit(s) ==
  IF Unfinished(s) THEN Finishing(s, "limit") ELSE AfterLimit(s)

\* abortUnusableClip: no link, and the replay is finished if it was started.
AfterAbort(s) == AfterUpload(Stop(s))
Abort(s) ==
  LET t == [s EXCEPT !.failed = TRUE, !.buffer = <<>>, !.linkable = 0]
  IN IF Unfinished(t)
       THEN [t EXCEPT !.run.step = "aborting", !.run.rid = t.rid]
       ELSE AfterAbort(t)

ClipMode(s) == ~s.sampled
MaxSegmentsAllowed(s) == IF s.sampled THEN SessionSegments ELSE ClipSegments

\* isErrorClipBudgetExhausted
Exhausted(s, index, bytes) ==
  ClipMode(s) /\ (index >= ClipSegments \/ bytes >= ClipBytes)

\* The packed segments are posted; replayId is read at this moment.
Post(s) ==
  IF s.run.segs = <<>>
    THEN IF s.run.over THEN FinishAtLimit(s) ELSE AfterUpload(s)
    ELSE [s EXCEPT !.run.step = "uploading", !.run.rid = s.rid]

\* The inner loop of packPendingSegments up to the await of gzip.
Pack(s) ==
  LET next == s.index + Len(s.run.segs)
  IN IF s.buffer = <<>> \/ Len(s.run.segs) >= s.run.count
        \/ next >= MaxSegmentsAllowed(s)
       THEN Post(s)
     ELSE IF Exhausted(s, next, s.bytes + Bytes(s.run.segs))
       THEN Post([s EXCEPT !.run.over = TRUE])
     ELSE [s EXCEPT !.run.step = "packing",
                    !.run.chunk = First(s.buffer, ChunkLen),
                    !.run.next = next,
                    !.buffer = From(@, ChunkLen + 1)]

\* The loop of uploadPendingSegments.
Loop(s) ==
  IF s.buffer = <<>> \/ s.deadline = "past" THEN AfterUpload(s)
  ELSE IF s.index >= MaxSegmentsAllowed(s) \/ Exhausted(s, s.index, s.bytes)
    THEN FinishAtLimit(s)
  ELSE Pack([s EXCEPT !.run.segs = <<>>, !.run.over = FALSE,
                      !.run.count =
                        IF s.run.kind = "hide" THEN 1
                        ELSE Minimum(ClipSegments, MaxSegmentsAllowed(s) - s.index)])

\* Mutant: what precedes the paint base stays.
Untrimmed(events) == events
\* trimToFullSnapshot
FromFull(events) ==
  From(events, CHOOSE i \in 1..Len(events) :
                 events[i].full /\ \A j \in 1..i-1 : ~events[j].full)

\* Mutant: a replay whose start failed uploads too.
UploadUnstarted(s) == IF HasFull(s.buffer) THEN Loop(s) ELSE AfterUpload(s)
\* uploadPendingSegments: segment 0 must begin with a paint base.
UploadPending(s) ==
  LET t == IF HasFull(s.buffer) THEN s ELSE Checkout(s)
  IN IF ~Unfinished(s) THEN AfterUpload(s)
     ELSE IF s.index # 0 THEN Loop(s)
     ELSE IF HasFull(t.buffer) THEN Loop([t EXCEPT !.buffer = FromFull(@)])
     ELSE Abort(t)

AfterStart(s) == IF s.run.kind = "ensure" THEN Done(s) ELSE UploadPending(s)

EnsureStarted(s) ==
  IF s.disabled \/ s.started \/ s.finished
    THEN AfterStart(s)
    ELSE [s EXCEPT !.run.step = "starting", !.run.rid = s.rid]

\* What a task checks before its first await; a flush past the deadline ends
\* the replay.
BeginTask(s) ==
  LET past == s.run.kind = "flush" /\ s.deadline = "past"
      kind == IF past THEN IF s.sampled THEN "wall" ELSE "clip" ELSE s.run.kind
  IN IF kind = "disabled" THEN End(s)
     ELSE IF ~s.uploading \/ (kind = "clip" /\ s.sampled) THEN Done(s)
     ELSE EnsureStarted([s EXCEPT !.run.kind = kind])

-----------------------------------------------------------------------------
(* The awaits of an upload task resolve.                                   *)

\* A replay as the ingest API has it: how many segments landed, and the last
\* event of those it has acknowledged.
Replay == [started : BOOLEAN, segments : Nat, last : Nat, finished : BOOLEAN]
Unknown == [started |-> FALSE, segments |-> 0, last |-> 0, finished |-> FALSE]
Has(rid) == IF rid \in DOMAIN server THEN server[rid] ELSE Unknown
HasNow(rid, replay) ==
  server' = [r \in DOMAIN server \union {rid} |-> IF r = rid THEN replay ELSE server[r]]

\* The start of a page with a cached policy document that turns replay on or
\* off, or with none; in the first case the session sample is drawn at once.
Init ==
  /\ \E cached \in {"none", "on", "off"}, sampled \in BOOLEAN :
       LET on == cached = "on"
           uploads == on /\ sampled
       IN /\ client =
              [uploading |-> uploads, sampled |-> uploads,
               disabled |-> cached = "off", killed |-> FALSE,
               recorder |-> IF on THEN "loading" ELSE "off",
               rid |-> 1, started |-> FALSE, finished |-> FALSE, index |-> 0,
               bytes |-> 0, linkable |-> 0, failed |-> FALSE, buffer |-> <<>>,
               events |-> 0, linking |-> 0, run |-> Idle,
               deadline |-> IF uploads THEN "running" ELSE "none",
               timer |-> uploads,
               chain |-> IF uploads THEN <<[kind |-> "ensure", awaited |-> FALSE]>>
                                    ELSE <<>>]
          /\ page = [allowed |-> on, policy |-> "pending", blocked |-> FALSE,
                     recorded |-> 0, captures |-> 0, clips |-> 0, holds |-> 0]
  /\ waiting = <<>>
  /\ server = <<>>
  /\ link = [rid |-> 0, reported |-> 0]

\* The next task of uploadChain begins.
StartTask ==
  /\ client.run.step = "idle"
  /\ client.chain # <<>>
  /\ LET task == Head(client.chain)
     IN client' = BeginTask([client EXCEPT
          !.chain = Tail(@),
          !.run = [Idle EXCEPT !.step = "begun", !.kind = task.kind,
                               !.awaited = task.awaited]])
  /\ UNCHANGED <<waiting, page, server, link>>

Awaits(step) == client.run.step = step

\* POST v1/replays resolves.
StartResolves ==
  /\ Awaits("starting")
  /\ client' = AfterStart(MarkStarted([client EXCEPT !.started = TRUE]))
  /\ HasNow(client.run.rid, [Has(client.run.rid) EXCEPT !.started = TRUE])
  /\ UNCHANGED <<waiting, page, link>>

\* It fails; after a transient failure the server may have it all the same.
StartFails ==
  /\ Awaits("starting")
  /\ \E fault \in Faults \intersect {"transient", "scope", "permanent"} :
       /\ client' = AfterStart(IF fault = "transient" THEN client
                                                      ELSE Disable(client, fault))
       /\ \/ UNCHANGED server
          \/ /\ fault = "transient"
             /\ HasNow(client.run.rid, [Has(client.run.rid) EXCEPT !.started = TRUE])
  /\ UNCHANGED <<waiting, page, link>>

\* Mutant: the segments packed before this one are not counted.
OverLandedBudget(s, size) == ClipMode(s) /\ s.bytes + size > ClipBytes
OverBudget(s, size) ==
  ClipMode(s) /\ s.bytes + Bytes(s.run.segs) + size > ClipBytes

\* gzip has found the longest prefix of the chunk that fits; the rest goes back.
GzipFits ==
  /\ Awaits("packing")
  /\ LET run == client.run
     IN \E k \in 1..Len(run.chunk), size \in Sizes :
          LET events == First(run.chunk, k)
              s == [client EXCEPT !.buffer = From(run.chunk, k + 1) \o @,
                                  !.run.chunk = <<>>]
          IN client' =
               CASE run.next = 0 /\ ~HasFull(events) -> Abort(s)
                 [] OverBudget(s, size) /\ run.next > 0 ->
                      Post([s EXCEPT !.buffer = <<>>, !.run.over = TRUE])
                 [] OTHER ->
                      Pack([s EXCEPT !.run.segs = Append(@,
                              [index |-> run.next, events |-> events,
                               size |-> size])])
  /\ UNCHANGED <<waiting, page, server, link>>

\* Not even one event fits: a paint base aborts the replay, another event is
\* dropped and the rest taken again.
GzipTooLarge ==
  /\ Awaits("packing")
  /\ "oversized" \in Faults
  /\ LET run == client.run
         rest == From(run.chunk, 2)
     IN client' =
          IF run.next = 0 /\ StartsWithFull(run.chunk) THEN Abort(client)
          ELSE IF rest # <<>> THEN [client EXCEPT !.run.chunk = rest]
          ELSE IF client.buffer = <<>> THEN Post(client)
          ELSE [client EXCEPT !.run.chunk = First(client.buffer, ChunkLen),
                              !.buffer = From(@, ChunkLen + 1)]
  /\ UNCHANGED <<waiting, page, server, link>>

\* Mutant: a batch of which a part landed counts as uploaded.
MarkAll(s, k) ==
  IF k = 0 THEN s
  ELSE [s EXCEPT !.index = s.run.segs[Len(s.run.segs)].index + 1]
\* markSegmentUploaded for the first k segments of the batch.
Mark(s, k) ==
  IF k = 0 THEN s
  ELSE [s EXCEPT !.index = s.run.segs[k].index + 1,
                 !.bytes = @ + Bytes(First(s.run.segs, k)),
                 !.failed = @ /\ s.run.segs[1].index # 0]

\* What uploadPendingSegments does after a batch whose outcome is "ok".
AfterBatch(s) ==
  IF s.index >= MaxSegmentsAllowed(s) \/ s.run.over THEN FinishAtLimit(s)
  ELSE IF s.run.kind = "hide" THEN AfterUpload(s)
  ELSE Loop(s)

\* handleSegmentUploadError for segment k of the batch; what follows it is back
\* in the buffer.
SegmentFails(s, k, fault) ==
  LET seg == s.run.segs[k]
      back == [s EXCEPT !.buffer = seg.events \o @]
      paint == seg.index = 0 /\ StartsWithFull(seg.events)
      single == Len(seg.events) = 1
  IN CASE fault = "limit" -> FinishAtLimit(s)
       [] fault = "oversized" ->
            IF paint \/ (single /\ HasFull(seg.events)) THEN Abort(s)
            ELSE AfterBatch(IF single THEN s ELSE back)
       [] fault = "transient" ->
            IF s.index = 0 THEN Abort(back) ELSE AfterUpload(back)
       [] OTHER -> AfterUpload(Disable(back, fault))

\* The server has the first k segments of the batch, appended now or there already,
\* and has answered for the first j of them.
Land(k, j) ==
  LET run == client.run
      has == Has(run.rid)
      acked == run.segs[j].events
  IN IF k = 0 THEN UNCHANGED server
     ELSE HasNow(run.rid, [has EXCEPT
            !.segments = IF @ > run.segs[k].index THEN @ ELSE run.segs[k].index + 1,
            !.last = IF j = 0 THEN @ ELSE acked[Len(acked)].n])

\* How many segments may have landed when segment k is reported to have failed.
\* Posted one by one, those before it and, if only the answer was lost, itself;
\* posted in one call whose answer was lost, any of the batch (then k is 1).
MayHaveLanded(k, fault) ==
  IF fault # "transient" THEN {k - 1}
  ELSE IF k = 1 THEN 0..Len(client.run.segs) ELSE {k - 1, k}

\* POST v1/replays/segments resolves with all segments accepted.
UploadResolves ==
  /\ Awaits("uploading")
  /\ client' = AfterBatch(Mark(client, Len(client.run.segs)))
  /\ Land(Len(client.run.segs), Len(client.run.segs))
  /\ UNCHANGED <<waiting, page, link>>

\* Segment k is refused or its answer is lost; those before it landed.
UploadFails ==
  /\ Awaits("uploading")
  /\ \E k \in 1..Len(client.run.segs), fault \in Faults :
       /\ fault \in {"scope", "permanent"} => k = 1
       /\ LET rest == EventsOf(From(client.run.segs, k + 1))
          IN client' = SegmentFails(
               Mark([client EXCEPT !.buffer = rest \o @], k - 1), k, fault)
       /\ \E landed \in MayHaveLanded(k, fault) : Land(landed, k - 1)
  /\ UNCHANGED <<waiting, page, link>>

\* The finish request of finishOnServer or of abortUnusableClip settles: only a
\* success sets finishedOnServer, the task goes on either way.
FinishSettles ==
  /\ client.run.step \in {"finishing", "aborting"}
  /\ \E ok \in BOOLEAN :
       LET s == [client EXCEPT !.finished = @ \/ ok]
       IN /\ ok \/ "transient" \in Faults
          /\ client' = IF client.run.step = "aborting" THEN AfterAbort(s)
                       ELSE IF client.run.then = "limit" THEN AfterLimit(s)
                       ELSE AfterEnd(s)
          /\ \/ HasNow(client.run.rid, [Has(client.run.rid) EXCEPT !.finished = TRUE])
             \/ ~ok /\ UNCHANGED server
  /\ UNCHANGED <<waiting, page, link>>

-----------------------------------------------------------------------------
(* The page: recording, errors, timers, visibility, consent, policy.       *)

Room == Len(waiting) + Len(client.chain) < MaxCalls
Call(kind, awaited) ==
  waiting' = Append(waiting, [kind |-> kind, awaited |-> awaited])

\* onRrwebEvent: while buffering, the ring is trimmed by age and size; while
\* uploading, a deadline or the size of the buffer asks for a flush.
OnRrwebEvent(full) ==
  LET s == Push(client, full)
  IN IF client.uploading
       THEN /\ client' = [s EXCEPT !.recorder = "on"]
            /\ \/ client.deadline # "past" /\ UNCHANGED waiting
               \/ Room /\ Call("flush", FALSE)
       ELSE /\ \E k \in 1..Len(s.buffer) :
                 client' = [s EXCEPT !.recorder = "on", !.buffer = From(@, k)]
            /\ UNCHANGED waiting

\* rrweb's import resolves and recording starts with a paint base.
RecorderLoads ==
  /\ client.recorder = "loading"
  /\ OnRrwebEvent(TRUE)
  /\ UNCHANGED <<page, server, link>>

Record ==
  /\ client.recorder = "on"
  /\ page.recorded < MaxEvents
  /\ OnRrwebEvent(FALSE)
  /\ page' = [page EXCEPT !.recorded = @ + 1]
  /\ UNCHANGED <<server, link>>

\* flush() by the interval timer, and at page hide.
FlushCall ==
  /\ Room
  /\ \E kind \in {"flush", "hide"} : Call(kind, FALSE)
  /\ UNCHANGED <<client, page, server, link>>

\* eventQueue.flush resolved: flushUnsafe goes on, and captures that need no
\* upload with it.
EventsFlushed ==
  /\ waiting # <<>>
  /\ waiting' = Tail(waiting)
  /\ LET call == Head(waiting)
     IN IF client.uploading
          THEN client' = [client EXCEPT !.chain = Append(@, call)]
          ELSE \E k \in 1..Len(client.buffer) + 1 :
                 client' = [client EXCEPT
                   !.buffer = From(@, k),
                   !.linking = IF call.awaited THEN @ + 1 ELSE @]
  /\ UNCHANGED <<page, server, link>>

\* Mutant: the clip's timer is left to the next error.
StartClipUntimed(s) ==
  MarkStarted(Checkout([s EXCEPT !.uploading = TRUE, !.failed = FALSE]))
\* An error turns the ring buffer into the beginning of an error clip.
StartClip(s) ==
  LET t == MarkStarted(Checkout([s EXCEPT !.uploading = TRUE, !.failed = FALSE]))
  IN [t EXCEPT !.timer = TRUE]

\* Mutant: consent is asked when recording starts, not at the error.
AnyError(s) == ~s.sampled
\* An error may start a clip or prolong it.
Eligible(s) == ~s.sampled /\ ~page.blocked

\* Mutant: a replay is linked as soon as it uploads.
LinkAtOnce(s) == IF s.uploading THEN s.rid ELSE s.linkable
\* The replayId an error is sent with.
LinkOf(s) ==
  IF s.failed /\ s.index = 0 THEN 0
  ELSE IF s.uploading /\ s.index > 0 THEN s.rid ELSE s.linkable

\* The error event, linked, goes to the event queue, which drops it when it is
\* switched off; a remembered replay is linked once.
LinkAndEnqueue(s) ==
  /\ link' = IF s.killed THEN link
             ELSE [rid |-> LinkOf(s), reported |-> link.reported + 1]
  /\ client' = [s EXCEPT !.failed = @ /\ (s.sampled \/ LinkOf(s) = 0),
                         !.linkable = IF @ = LinkOf(s) THEN 0 ELSE @]

\* The synchronous part of capture for an error: an error clip may start, its
\* timer is armed again, and the error waits for a flush if anything uploads.
CaptureError ==
  /\ ~client.killed
  /\ page.captures < MaxCaptures
  /\ Room
  /\ \/ /\ Eligible(client) /\ ~client.uploading
        /\ page.allowed \/ client.disabled   \* a document has set the rate
        /\ page.clips < MaxClips
        /\ client' = StartClip(client)
        /\ Call("flush", TRUE)
        /\ page' = [page EXCEPT !.captures = @ + 1, !.clips = @ + 1]
        /\ UNCHANGED link
     \/ /\ client.uploading
        /\ client' = [client EXCEPT !.timer = @ \/ Eligible(client)]
        /\ Call("flush", TRUE)
        /\ page' = [page EXCEPT !.captures = @ + 1]
        /\ UNCHANGED link
     \/ /\ ~client.uploading
        /\ LinkAndEnqueue(client)
        /\ page' = [page EXCEPT !.captures = @ + 1]
        /\ UNCHANGED waiting
  /\ UNCHANGED server

\* A captured error, its flush over, is linked and enqueued.
Report ==
  /\ client.linking > 0
  /\ LinkAndEnqueue([client EXCEPT !.linking = @ - 1])
  /\ UNCHANGED <<waiting, page, server>>

DeadlinePasses ==
  /\ client.deadline = "running"
  /\ client' = [client EXCEPT !.deadline = "past"]
  /\ UNCHANGED <<waiting, page, server, link>>

\* The error clip's timer or the session's; both are one-shot.
TimerFires ==
  /\ client.timer
  /\ client.deadline = "past"
  /\ LET kind == IF client.sampled THEN "wall" ELSE "clip"
     IN client' = [client EXCEPT !.timer = FALSE,
          !.chain = IF client.uploading
                      THEN Append(@, [kind |-> kind, awaited |-> FALSE]) ELSE @]
  /\ UNCHANGED <<waiting, page, server, link>>

\* maybeStartReplay: the session sample is drawn when the recorder starts.
MaybeStart(s, sampled, allowed) ==
  IF s.disabled \/ s.recorder # "off" \/ ~allowed THEN s
  ELSE LET t == [s EXCEPT !.sampled = sampled, !.uploading = sampled,
                          !.recorder = "loading"]
       IN IF sampled
            THEN [MarkStarted(t) EXCEPT
                    !.chain = Append(@, [kind |-> "ensure", awaited |-> FALSE])]
            ELSE t

\* The fetched policy document arrives over the cached one.
PolicyArrives ==
  /\ page.policy = "pending"
  /\ \E enabled, sampled \in BOOLEAN :
       /\ page' = [page EXCEPT !.policy = "settled", !.allowed = enabled]
       /\ client' = IF ~enabled
            THEN [client EXCEPT !.uploading = FALSE, !.disabled = TRUE]
            ELSE LET s == [client EXCEPT !.disabled = FALSE]
                 IN IF page.blocked THEN s ELSE MaybeStart(s, sampled, TRUE)
  /\ UNCHANGED <<waiting, server, link>>

\* Another signal's request is refused for good.
KillSwitch ==
  /\ "permanent" \in Faults
  /\ ~(client.killed /\ client.disabled)
  /\ client' = Disable(client, "permanent")
  /\ UNCHANGED <<waiting, page, server, link>>

\* The key may no longer post events: they are off, and replay goes on.
EventsRefused ==
  /\ "scope" \in Faults
  /\ ~client.killed
  /\ client' = [client EXCEPT !.killed = TRUE]
  /\ UNCHANGED <<waiting, page, server, link>>

\* holdReplay: the visitor denies measurement.  Tasks that run or wait stay.
Withdraw ==
  /\ ~page.blocked
  /\ page.holds < MaxHolds
  /\ page' = [page EXCEPT !.blocked = TRUE, !.holds = @ + 1]
  /\ client' = [client EXCEPT
       !.uploading = FALSE, !.sampled = FALSE, !.timer = FALSE,
       !.recorder = "off", !.buffer = <<>>, !.started = FALSE,
       !.finished = FALSE, !.index = 0, !.bytes = 0, !.deadline = "none",
       !.rid = @ + 1]
  /\ UNCHANGED <<waiting, server, link>>

Grant ==
  /\ page.blocked
  /\ page' = [page EXCEPT !.blocked = FALSE]
  /\ \E sampled \in BOOLEAN :
       client' = MaybeStart(client, sampled, page.allowed)
  /\ UNCHANGED <<waiting, server, link>>

Resolves ==
  \/ StartResolves \/ StartFails \/ GzipFits \/ GzipTooLarge
  \/ UploadResolves \/ UploadFails \/ FinishSettles

Next ==
  \/ StartTask
  \/ StartResolves \/ StartFails
  \/ GzipFits \/ GzipTooLarge
  \/ UploadResolves \/ UploadFails
  \/ FinishSettles
  \/ RecorderLoads \/ Record
  \/ FlushCall \/ EventsFlushed
  \/ CaptureError \/ Report
  \/ DeadlinePasses \/ TimerFires
  \/ PolicyArrives \/ KillSwitch \/ EventsRefused
  \/ Withdraw \/ Grant

SafeSpec == Init /\ [][Next]_vars

\* Microtasks and timers run.  The page owes nothing, and a request need not settle.
Fairness ==
  /\ WF_vars(StartTask)
  /\ WF_vars(Report)
  /\ WF_vars(DeadlinePasses)
  /\ WF_vars(TimerFires)

Spec == SafeSpec /\ Fairness

-----------------------------------------------------------------------------

TypeOK ==
  /\ client \in Client
  /\ waiting \in Seq(Task)
  /\ page \in [allowed : BOOLEAN, policy : {"pending", "settled"}, blocked : BOOLEAN,
               recorded : Nat, captures : Nat, clips : Nat, holds : Nat]
  /\ server \in [DOMAIN server -> Replay] /\ DOMAIN server \subseteq Nat
  /\ link \in [rid : Nat, reported : Nat]

Requested == client.run.segs
Posting == Awaits("uploading")

\* Segments are posted for a replay the server has started and not finished.
PostedWhileOpen ==
  Posting => Has(client.run.rid).started /\ ~Has(client.run.rid).finished

\* The segments the server has of a replay are numbered without a gap: a batch
\* continues them, or repeats what landed although its answer was lost.  Its events
\* are in order, and none of them was acknowledged before.
SegmentsContinueTheReplay ==
  Posting =>
    LET has == Has(client.run.rid)
        events == EventsOf(Requested)
    IN /\ Requested[1].index <= has.segments
       /\ \A i \in 1..Len(Requested) : Requested[i].index = Requested[1].index + i - 1
       /\ events[1].n > has.last
       /\ \A i \in 1..Len(events) - 1 : events[i].n < events[i + 1].n

\* A replay begins with a paint base: without one the player stays blank.
SegmentZeroPaints ==
  Posting /\ Requested[1].index = 0 => StartsWithFull(Requested[1].events)

\* An error clip stays within its segment and byte budget whatever is packed,
\* refused and packed again; only its paint base may exceed the bytes.
ClipWithinBudget ==
  Posting /\ ClipMode(client) =>
    /\ Requested[Len(Requested)].index < ClipSegments
    /\ \/ client.bytes + Bytes(Requested) <= ClipBytes
       \/ client.index + Len(Requested) = 1

\* An error is linked to a replay only when segments of it have landed.
LinkLanded ==
  link.rid # 0 => Has(link.rid).segments > 0

\* A replay is started on the server only with consent.
StartedWithConsent ==
  [][Awaits("starting")' /\ ~Awaits("starting") => ~page.blocked]_vars

\* Every request is answered or fails in the end, and so does the flush of the event
\* queue.  Nothing in the code sees to it: a POST has no timeout.
RequestsSettle == WF_vars(Resolves) /\ WF_vars(EventsFlushed)

\* As long as no request hangs, an error clip never goes on for ever: it returns to
\* buffering whatever requests fail, tasks queue up, and errors repeat and arm its
\* timer again.
EveryClipEnds ==
  RequestsSettle =>
    ((client.uploading /\ ~client.sampled) ~> ~(client.uploading /\ ~client.sampled))

\* As long as no request hangs, the captured errors are reported in the end, unless
\* events are switched off: no failure of the replay work they wait for holds them back.
EveryErrorReported ==
  RequestsSettle =>
    (link.reported < page.captures ~> (link.reported = page.captures \/ client.killed))

=============================================================================
