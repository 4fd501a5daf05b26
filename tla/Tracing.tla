------------------------------- MODULE Tracing -------------------------------
(***************************************************************************)
(* The browser's tracing: Tracer of packages/browser/src/tracing/tracer.ts *)
(* with what TalariaClient puts around it (packages/browser/src/client.ts).*)
(* A page has one transaction at a time, the page load and then one per    *)
(* navigation; its root ends at the idle or the maximum timer, at an       *)
(* error, when the page is hidden or when the next navigation starts.      *)
(* Requests, spans of the application and web vitals come in between and   *)
(* afterwards.  Ended spans wait in one list and are sent by passes that   *)
(* are chained one behind the other.                                       *)
(*                                                                         *)
(* A trace is the number of its transaction; the page load is number 1.    *)
(* Times, statuses, attributes and the rest of a span are left out; the    *)
(* client's flush first awaits the event queue, which is part of the wait  *)
(* of a pass in the chain.                                                 *)
(***************************************************************************)
EXTENDS Integers, FiniteSets

CONSTANTS
  Requests,     \* requests of the page that are answered
  Children,     \* spans the application starts and ends
  Vitals,       \* names of web vitals
  Limit,        \* MAX_SPANS_PER_TRANSACTION
  AutoFlush,    \* AUTO_FLUSH_ENDED
  MaxTraces,    \* bound: transactions of the page
  MaxChained,   \* bound: passes that wait in the chain; a call made while so
                \* many wait adds none, and they take what it would
  MaxFailures   \* bound: answers lost or refused for now

ASSUME TracingAssumption ==
  /\ {Limit, AutoFlush, MaxTraces, MaxChained} \subseteq Nat \ {0}
  /\ MaxFailures \in Nat
  /\ IsFiniteSet(Vitals)

VARIABLES
  disabled,     \* the tracer is switched off for good
  trace,        \* the current transaction, which getCurrentSpanContext names
  root,         \* its pageload span: "open" or "ended"
  sampled, hasError,
  count,        \* spanCount
  docSampled,   \* documentLoad.sampled; the document's trace is 1
  emitted, pending,  \* web vitals that had their turn, and kept for an error to come
  ended,        \* the list of ended spans
  live,         \* spans of the application that have not ended
  used,         \* requests and children that had their turn
  chained,      \* passes that wait in flushChain
  batch,        \* spans of the request in flight
  sent,         \* spans whose request was accepted
  timers,       \* of "idle" and "max", those that are set
  loaded,       \* the load event came, and with it pageloadCanIdle
  ticking,      \* the client's flush interval is set
  phase,        \* of close
  failures,     \* answers lost so far
  created,      \* history: spans recorded
  kept          \* history: traces their head sample or an error kept

page == <<trace, root, sampled, hasError, count, docSampled, emitted, pending>>
client == <<timers, loaded, ticking, phase>>
wire == <<batch, sent, failures>>
history == <<created, kept>>
vars == <<disabled, page, ended, live, used, chained, client, wire, history>>

Traces == 1 .. MaxTraces
Span == [trace : Traces, kind : {"root", "http", "child", "vital"},
         key : Requests \union Children \union Vitals \union {"none"}]

Root(t) == [trace |-> t, kind |-> "root", key |-> "none"]
Http(t, r) == [trace |-> t, kind |-> "http", key |-> r]
Child(t, c) == [trace |-> t, kind |-> "child", key |-> c]
VitalSpan(v) == [trace |-> 1, kind |-> "vital", key |-> v]

-----------------------------------------------------------------------------
(* Helpers of the tracer. *)

\* shouldKeepTransaction
IsSampled == sampled \/ hasError

\* createSpan: the spans of S that are recorded, when n came before in the
\* transaction; the others are dropped and get a NoopSpan.
Recorded(S, n) ==
  {R \in SUBSET S : Cardinality(R) = IF disabled THEN 0
     ELSE IF n + Cardinality(S) <= Limit THEN Cardinality(S)
     ELSE IF n < Limit THEN Limit - n ELSE 0}

\* flush: k more passes.
Chain(k) == IF chained + k > MaxChained THEN MaxChained ELSE chained + k

\* onSpanEnd: whether the end of the spans S, the last of several calls, starts a
\* pass; keep says what isSampled answers.
AutoPasses(S, keep) ==
  IF S # {} /\ keep /\ Cardinality(ended \union S) >= AutoFlush THEN 1 ELSE 0

\* The span endPageload adds to the list.
Ending == IF root = "open" THEN {Root(trace)} ELSE {}

\* The vitals that an error releases: those of a document that is still the
\* current transaction.
Released == IF trace = 1 THEN pending ELSE {}

\* Mutant: the error does not reach the document of the page.
MarkErrorRootOnly ==
  /\ hasError' = TRUE
  /\ sampled' = TRUE
  /\ UNCHANGED <<docSampled, emitted, pending>>
  /\ kept' = kept \union {trace}

\* markError: the transaction is kept from now on, and the document with it when
\* it is the current transaction.
MarkError ==
  /\ hasError' = TRUE
  /\ sampled' = TRUE
  /\ docSampled' = (docSampled \/ trace = 1)
  /\ emitted' = emitted \union Released
  /\ pending' = pending \ Released
  /\ kept' = kept \union {trace}

-----------------------------------------------------------------------------
\* startPageload; the head sample is a draw.
StartPageload ==
  /\ trace = 1 /\ root = "open" /\ sampled \in BOOLEAN /\ hasError = FALSE
  /\ count = 1 /\ ended = {}
  /\ docSampled = sampled /\ emitted = {} /\ pending = {}
  /\ created = {Root(1)} /\ kept = IF sampled THEN {1} ELSE {}

\* startTracer, before or after the load event of the page.
Init ==
  /\ disabled = FALSE
  /\ StartPageload
  /\ live = {} /\ used = {}
  /\ chained = 0 /\ batch = {} /\ sent = {} /\ failures = 0
  /\ ticking = TRUE /\ phase = "open" /\ loaded \in BOOLEAN
  /\ timers = IF loaded THEN {"idle", "max"} ELSE {"max"}

\* The load event: armIdle.
Load ==
  /\ ~loaded
  /\ loaded' = TRUE
  /\ timers' = IF root = "open" /\ phase \in {"open", "stopping"}
               THEN timers \union {"idle"} ELSE timers
  /\ UNCHANGED <<disabled, page, ended, live, used, chained, wire, history,
                 ticking, phase>>

-----------------------------------------------------------------------------
(* Spans of the application: startSpan and startInactiveSpan, end. *)

StartSpan(c) ==
  /\ phase # "closed" /\ c \notin used
  /\ used' = used \union {c}
  /\ \E R \in Recorded({Child(trace, c)}, count) :
       /\ live' = live \union R
       /\ created' = created \union R
       /\ count' = count + Cardinality(R)
  /\ UNCHANGED <<disabled, trace, root, sampled, hasError, docSampled,
                 emitted, pending, ended, chained, client, wire, kept>>

EndSpan(s) ==
  /\ s \in live
  /\ live' = live \ {s}
  /\ ended' = ended \union {s}
  /\ chained' = Chain(AutoPasses({s}, IsSampled))
  /\ UNCHANGED <<disabled, page, used, client, wire, history>>

-----------------------------------------------------------------------------
(* recordHttpSpan, and onNetwork that calls it: the hooks report a request that  *)
(* was in flight when close took them down.                                      *)

\* onNetwork arms the idle timer again while the transaction is open.
Rearmed == IF loaded /\ root = "open" THEN timers \union {"idle"} ELSE timers

Request(r) ==
  /\ phase # "closed" /\ r \notin used /\ root = "open"
  /\ used' = used \union {r}
  /\ \E R \in Recorded({Http(trace, r)}, count) :
       /\ ended' = ended \union R
       /\ chained' = Chain(AutoPasses(R, IsSampled))
       /\ created' = created \union R
       /\ count' = count + Cardinality(R)
  /\ timers' = Rearmed
  /\ UNCHANGED <<disabled, trace, root, sampled, hasError, docSampled,
                 emitted, pending, live, wire, kept,
                 loaded, ticking, phase>>

\* A network failure, a timeout or a status of 500 and more fails the
\* transaction as well, whether or not the span was recorded.
RequestFails(r) ==
  /\ phase # "closed" /\ r \notin used /\ root = "open"
  /\ used' = used \union {r}
  /\ MarkError
  /\ \E R \in Recorded({Http(trace, r)}, count) :
       \E V \in Recorded({VitalSpan(v) : v \in emitted' \ emitted}, count + Cardinality(R)) :
         /\ ended' = ended \union R \union V
         /\ chained' = Chain(AutoPasses(R, TRUE) + Cardinality(emitted' \ emitted))
         /\ created' = created \union R \union V
         /\ count' = count + Cardinality(R \union V)
  /\ timers' = Rearmed
  /\ UNCHANGED <<disabled, trace, root, live, wire,
                 loaded, ticking, phase>>

\* A request that outlives its transaction leaves no span.
RequestTooLate(r) ==
  /\ phase # "closed" /\ r \notin used /\ root = "ended"
  /\ used' = used \union {r}
  /\ UNCHANGED <<disabled, page, ended, live, chained, client, wire, history>>

-----------------------------------------------------------------------------
(* recordWebVital: once per name; kept back while the document is not sampled. *)

\* installWebVitals, until its teardown.
Reported(v) == phase \in {"open", "stopping"} /\ v \notin emitted

HoldVital(v) ==
  /\ Reported(v) /\ ~disabled /\ ~docSampled
  /\ pending' = pending \union {v}
  /\ UNCHANGED <<disabled, trace, root, sampled, hasError, count, docSampled,
                 emitted, ended, live, used, chained, client, wire, history>>

EmitVital(v) ==
  /\ Reported(v) /\ ~disabled /\ docSampled
  /\ emitted' = emitted \union {v}
  /\ pending' = pending \ {v}
  /\ \E R \in Recorded({VitalSpan(v)}, count) :
       /\ ended' = ended \union R
       /\ chained' = Chain(1 + AutoPasses(R, IsSampled))
       /\ created' = created \union R
       /\ count' = count + Cardinality(R)
  /\ UNCHANGED <<disabled, trace, root, sampled, hasError, docSampled,
                 live, used, client, wire, kept>>

-----------------------------------------------------------------------------
(* The ends of a transaction. *)

\* capture of an error: the transaction fails, and ends now if it is open.
CaptureError ==
  /\ phase # "closed"
  /\ MarkError
  /\ root' = "ended"
  /\ timers' = IF root = "open" THEN {} ELSE timers
  /\ \E V \in Recorded({VitalSpan(v) : v \in emitted' \ emitted}, count) :
       /\ ended' = ended \union V \union Ending
       /\ chained' = Chain(AutoPasses(Ending, TRUE) + Cardinality(emitted' \ emitted))
       /\ created' = created \union V
       /\ count' = count + Cardinality(V)
  /\ UNCHANGED <<disabled, trace, live, used, wire,
                 loaded, ticking, phase>>

\* endPageload
EndRoot(passes) ==
  /\ root' = "ended"
  /\ ended' = ended \union Ending
  /\ chained' = Chain(passes + AutoPasses(Ending, IsSampled))
  /\ UNCHANGED <<disabled, trace, sampled, hasError, count, docSampled, emitted, pending,
                 live, used, wire, history>>

\* The idle or the maximum timer: finalizeOpenTransaction.
TimerFires ==
  /\ timers # {} /\ phase # "closed"
  /\ EndRoot(1)
  /\ timers' = {}
  /\ UNCHANGED <<loaded, ticking, phase>>

\* pagehide and beforeunload
Hide ==
  /\ phase \in {"open", "stopping"}
  /\ EndRoot(1)
  /\ UNCHANGED client

\* Mutant: the maximum timer of the page load is not set again.
ScheduleIdleOnly ==
  /\ timers' = IF loaded /\ ~disabled THEN {"idle"} ELSE {}
  /\ UNCHANGED <<loaded, ticking, phase>>

\* schedulePageloadEnd
Schedule ==
  /\ timers' = IF loaded /\ ~disabled THEN {"idle", "max"} ELSE {"max"}
  /\ UNCHANGED <<loaded, ticking, phase>>

\* The client's startNavigation, for a new path; the history stays wrapped while
\* close is under way.
MayNavigate == phase # "closed"

\* The tracer's startNavigation after its flush: a new root, and nothing left of
\* the transaction before; keep is the head sample.
NextTransaction(keep) ==
  /\ trace' = trace + 1 /\ root' = "open" /\ sampled' = keep /\ hasError' = FALSE
  /\ count' = 1 /\ ended' = {}
  /\ pending' = IF docSampled THEN pending ELSE {}
  /\ created' = created \union {Root(trace + 1)}
  /\ kept' = IF keep THEN kept \union {trace + 1} ELSE kept

\* startNavigation: the open root ends and a pass is chained, and before it can
\* run the list is emptied for the next transaction.
Navigate(keep) ==
  /\ MayNavigate /\ trace < MaxTraces /\ ~disabled
  /\ chained' = Chain(1 + AutoPasses(Ending, IsSampled))
  /\ NextTransaction(keep)
  /\ Schedule
  /\ UNCHANGED <<disabled, docSampled, emitted, live, used, wire>>

\* A tracer that is off only ends its root; the client sets its timers anyway.
NavigateOff ==
  /\ MayNavigate /\ disabled
  /\ EndRoot(1)
  /\ Schedule

-----------------------------------------------------------------------------
(* Sending. *)

\* The flush interval.
Tick ==
  /\ ticking
  /\ chained' = Chain(1)
  /\ UNCHANGED <<disabled, page, ended, live, used, client, wire, history>>

\* The replay of a sampled session reached its limit: stopUploadingAfterLimit
\* clears the interval that also flushes the spans.
StopTicking ==
  /\ ticking
  /\ ticking' = FALSE
  /\ UNCHANGED <<disabled, page, ended, live, used, chained, wire, history,
                 timers, loaded, phase>>

\* What flushOnce takes: vitals go with their document, the rest with the
\* current transaction.
Taken(s) == IF s.kind = "vital" THEN docSampled ELSE IsSampled

\* Mutant: a sampled document takes every span along.
ReadyAll == {s \in ended \ sent : docSampled \/ IsSampled}

Ready == {s \in ended \ sent : Taken(s)}

\* Mutant: only a pass that succeeded is followed by the next.
StartPassAfterSuccess ==
  /\ chained > 0 /\ batch = {} /\ failures = 0
  /\ chained' = chained - 1
  /\ ended' = IF disabled THEN {} ELSE ended
  /\ batch' = IF disabled THEN {} ELSE Ready
  /\ UNCHANGED <<disabled, page, live, used, client, sent, failures, history>>

\* A pass starts when the one before it has settled.
StartPass ==
  /\ chained > 0 /\ batch = {}
  /\ chained' = chained - 1
  /\ ended' = IF disabled THEN {} ELSE ended
  /\ batch' = IF disabled THEN {} ELSE Ready
  /\ UNCHANGED <<disabled, page, live, used, client, sent, failures, history>>

Accepted ==
  /\ batch # {}
  /\ sent' = sent \union batch
  /\ batch' = {}
  /\ UNCHANGED <<disabled, page, ended, live, used, chained, client, failures, history>>

\* The marks of the batch are taken back; a later pass takes the spans again.
FailsForNow ==
  /\ batch # {} /\ failures < MaxFailures
  /\ failures' = failures + 1
  /\ batch' = {}
  /\ UNCHANGED <<disabled, page, ended, live, used, chained, client, sent, history>>

FailsForGood ==
  /\ batch # {}
  /\ disabled' = TRUE /\ ended' = {} /\ batch' = {}
  /\ UNCHANGED <<page, live, used, chained, client, sent, failures, history>>

\* disable: the policy or the kill switch of the client.
Disable ==
  /\ ~disabled
  /\ disabled' = TRUE /\ ended' = {}
  /\ UNCHANGED <<page, live, used, chained, client, wire, history>>

-----------------------------------------------------------------------------
(* close of the client, with its awaits. *)

\* Up to the flush of the heatmaps.
Close ==
  /\ phase = "open"
  /\ phase' = "stopping" /\ timers' = {} /\ ticking' = FALSE
  /\ UNCHANGED <<disabled, page, ended, live, used, chained, wire, history,
                 loaded>>

\* The teardowns, endPageload, and a flush.
CloseFlushes ==
  /\ phase = "stopping"
  /\ EndRoot(1)
  /\ phase' = "flushing"
  /\ UNCHANGED <<timers, loaded, ticking>>

\* shutdown, once that flush has settled.
Shutdown ==
  /\ phase = "flushing" /\ chained = 0 /\ batch = {}
  /\ EndRoot(1)
  /\ phase' = "shutdown"
  /\ UNCHANGED <<timers, loaded, ticking>>

Closed ==
  /\ phase = "shutdown" /\ chained = 0 /\ batch = {}
  /\ phase' = "closed" /\ ended' = {}
  /\ UNCHANGED <<disabled, page, live, used, chained, wire, history,
                 timers, loaded, ticking>>

-----------------------------------------------------------------------------
Answer == Accepted \/ FailsForNow \/ FailsForGood

Next ==
  \/ Load \/ CaptureError \/ TimerFires \/ Hide \/ NavigateOff
  \/ \E keep \in BOOLEAN : Navigate(keep)
  \/ \E c \in Children : StartSpan(c)
  \/ \E s \in live : EndSpan(s)
  \/ \E r \in Requests : Request(r) \/ RequestFails(r) \/ RequestTooLate(r)
  \/ \E v \in Vitals : HoldVital(v) \/ EmitVital(v)
  \/ Tick \/ StopTicking
  \/ StartPass \/ Answer \/ Disable
  \/ Close \/ CloseFlushes \/ Shutdown \/ Closed

\* Timers fire, a chained pass runs, and a request is
\* answered; nothing else has to happen.
Fairness ==
  /\ WF_vars(TimerFires) /\ WF_vars(Tick)
  /\ WF_vars(StartPass) /\ WF_vars(Answer)

SafeSpec == Init /\ [][Next]_vars
Spec == SafeSpec /\ Fairness

-----------------------------------------------------------------------------
(* Properties. *)

\* Nothing of a transaction that is not kept leaves the page, however the
\* transactions, their errors and the chained passes overlap, except an
\* application's span that ended after its transaction was over.
SentWasKept ==
  \A s \in batch \union sent : s.trace \in kept \/ (s.kind = "child" /\ s.trace < trace)

\* The vitals go with the page load they belong to: none is recorded unless it is
\* kept, one that came before the error that keeps it is not left behind, and an error
\* of a later transaction does not reach it; once it is kept, a vital that has its turn
\* is recorded, unless the transaction of the moment has as many spans as it may.
VitalsFollowTheDocument ==
  /\ [](/\ docSampled = (1 \in kept)
        /\ docSampled => pending = {}
        /\ (\E s \in created : s.kind = "vital") => 1 \in kept)
  /\ [][\A v \in emitted' \ emitted :
          VitalSpan(v) \in created' \/ disabled \/ count' >= Limit]_vars

\* An open transaction of an open client always has its maximum timer, whichever
\* of timers, errors and navigations came before.
TimerWhileOpen == root = "open" /\ phase = "open" => "max" \in timers

\* What has ended in a kept transaction is sent, though answers get lost: unless
\* the tracer drops it or goes off, or the flush interval is cleared.
EndedSpansAreSent == Ready # {} ~> (Ready = {} \/ ~ticking)

==============================================================================
