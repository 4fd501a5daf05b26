----------------------------- MODULE NodeClient -----------------------------
(***************************************************************************)
(* TalariaNodeClient of packages/node/src/client.ts with index.ts and      *)
(* outgoing.ts: a process starts, reads the policy cached in a file by the *)
(* process before it, fetches the policy, sends three signals, learns from *)
(* documents and refusals which of them are off, patches http and fetch    *)
(* once it has a tracer, closes, and may be killed and started again at    *)
(* any moment; the site may opt in to analytics and out of it.             *)
(*                                                                         *)
(* The queues of the signals are in EventQueue, Analytics and NodeTracer.  *)
(* Here a signal has something to send or not, and one post under way or   *)
(* not.  Flags, rates and the documents' other fields are left out.        *)
(***************************************************************************)
EXTENDS Integers

CONSTANTS
  MaxRecords,   \* bound: events, spans and analytics events of one process
  MaxPasses     \* bound: passes of the tracer that are chained when close comes

ASSUME NodeClientAssumption == MaxRecords \in Nat /\ MaxPasses \in Nat \ {0}

Signals == {"events", "spans", "analytics"}

\* What an answer that is not permanent, or is one of the permanent ones, says.
\* None turns off events alone (disabledSignal knows no message for them).
Causes == {"transient", "dead_key", "scope", "spans_off", "analytics_off", "other"}

\* The part of an SdkConfigDocument that this client follows; an inactive one has
\* no other part.
Documents ==
  {d \in [active : BOOLEAN, tracing : BOOLEAN, analytics : BOOLEAN] :
     d.active \/ ~(d.tracing \/ d.analytics)}
NoDocument == [active |-> FALSE, tracing |-> FALSE, analytics |-> FALSE]

VARIABLES
  cache,        \* the file holds: "none", a tombstone ("quiet" or "expired") or a
                \* document ("fresh" or "stale")
  document,     \* the document it holds
  phase,        \* "new", "running", "closing", "shutting" (the tracer) or "closed"
  fetching,     \* GET sdk-config is under way
  ingestOff,    \* ingestDisabled, and the event queue is disabled with it
  spans,        \* the tracer: "none" yet, "on" or "off"
  analytics,    \* the facade: "off" before consent, "on" or "killed"
  listening,    \* http and fetch are patched when a tracer comes
  patched,      \* they are
  handlers,     \* the handlers of uncaught errors are installed
  pending,      \* signals that have something for their next post
  inflight,     \* signals with a post under way
  awaited,      \* the posts that close, or its shutdown of the tracer, waits for
  passes,       \* the passes of the tracer it waits for that have not begun
  records,      \* the number of records of this process
  quiet,        \* history: this process began under a tombstone
  optedIn,      \* history: the site itself opted in to analytics
  dead,         \* history: the key was refused to a post of this process
  late          \* history: its tracer was made after that

switches == <<ingestOff, spans, analytics>>
patches == <<listening, patched, handlers>>
traffic == <<pending, inflight, awaited, passes>>
history == <<quiet, optedIn, dead, late>>
vars == <<cache, document, phase, fetching, switches, patches, traffic, records, history>>

-----------------------------------------------------------------------------
(* Helpers. *)

\* Mutant: a disabled queue keeps what it has.
SwitchedOffKeepsPending(off) ==
  /\ ingestOff' = (ingestOff \/ "events" \in off)
  /\ spans' = IF "spans" \in off /\ spans = "on" THEN "off" ELSE spans
  /\ analytics' = IF "analytics" \in off THEN "killed" ELSE analytics
  /\ pending' = pending

\* disable of the event queue, the tracer and the facade: each drops what it has.
SwitchedOff(off) ==
  /\ ingestOff' = (ingestOff \/ "events" \in off)
  /\ spans' = IF "spans" \in off /\ spans = "on" THEN "off" ELSE spans
  /\ analytics' = IF "analytics" \in off THEN "killed" ELSE analytics
  /\ pending' = pending \ off

\* optIn: consent does not revive a facade that was disabled.
OptedIn == analytics' = IF analytics = "off" THEN "on" ELSE analytics

\* applySdkConfig; the listener of outgoing.ts hears of a new tracer, once.
Applied(doc, listens) ==
  LET off == (IF doc.tracing THEN {} ELSE {"spans"})
               \union (IF doc.analytics THEN {} ELSE {"analytics"})
      made == doc.tracing /\ spans = "none"
  IN
  IF doc.active
  THEN /\ ingestOff' = ingestOff
       /\ spans' = IF made THEN "on"
                   ELSE IF ~doc.tracing /\ spans = "on" THEN "off" ELSE spans
       /\ IF doc.analytics THEN OptedIn ELSE analytics' = "killed"
       /\ pending' = pending \ off
       /\ late' = (late \/ (made /\ dead))
       /\ patched' = (patched \/ (made /\ listens))
  ELSE /\ SwitchedOff(Signals)
       /\ UNCHANGED <<late, patched>>

\* Mutant: a dead key, seen by one signal, stops only that signal.
StopsOnlyItsSignal(s, cause) ==
  IF cause = "transient" THEN {}
  ELSE IF cause = "spans_off" THEN {"spans"}
  ELSE IF cause = "analytics_off" THEN {"analytics"}
  ELSE {s}

\* disable: the signals that an answer to a post of s stops, and the tracer and
\* the facade stop themselves first.
Stops(s, cause) ==
  IF cause = "transient" THEN {}
  ELSE ({s} \ {"events"}) \union
       CASE cause = "spans_off" -> {"spans"}
         [] cause = "analytics_off" -> {"analytics"}
         [] cause = "scope" -> {s}
         [] cause = "other" /\ s = "analytics" -> {"analytics"}
         [] OTHER -> Signals

\* A signal that has nothing to send and nothing under way is not waited for.
Waits == awaited' = awaited \intersect (pending' \union inflight') /\ UNCHANGED passes

\* Nor is the tracer after the last pass that was waited for, whatever it left.
WaitsAfter(s) ==
  /\ UNCHANGED passes
  /\ awaited' = (awaited \intersect (pending' \union inflight'))
                   \ IF s = "spans" /\ passes = 0 THEN {s} ELSE {}

\* The flush of close, or of the shutdown of the tracer, waits for these signals,
\* and for the passes of the tracer that others chained before its own.
WaitsFor(signals) ==
  /\ awaited' = signals \intersect (pending' \union inflight)
  /\ passes' \in 1 .. MaxPasses

-----------------------------------------------------------------------------
Init ==
  /\ cache = "none" /\ document = NoDocument
  /\ phase = "new" /\ fetching = FALSE
  /\ ingestOff = FALSE /\ spans = "none" /\ analytics = "off"
  /\ listening = FALSE /\ patched = FALSE /\ handlers = FALSE
  /\ pending = {} /\ inflight = {} /\ awaited = {} /\ passes = 0 /\ records = 0
  /\ quiet = FALSE /\ optedIn = FALSE /\ dead = FALSE /\ late = FALSE

-----------------------------------------------------------------------------
(* The policy. *)

\* Mutant: a process that finds a tombstone still asks.
BootstrapAlwaysAsks ==
  /\ IF cache \in {"fresh", "stale"}
     THEN Applied(document, TRUE)
     ELSE SwitchedOff(IF cache = "quiet" THEN {"events"} ELSE {}) /\ UNCHANGED <<late, patched>>
  /\ fetching' = (cache # "fresh")
  /\ quiet' = (cache = "quiet")

\* bootstrapPolicy: under a tombstone events are off, nothing is fetched and no
\* tracer is made; a cached document is followed, and is enough while it is fresh.
Bootstrap ==
  /\ IF cache \in {"fresh", "stale"}
     THEN Applied(document, TRUE)
     ELSE SwitchedOff(IF cache = "quiet" THEN {"events"} ELSE {}) /\ UNCHANGED <<late, patched>>
  /\ fetching' = (cache \notin {"quiet", "fresh"})
  /\ quiet' = (cache = "quiet")

\* init, of the client and of index.ts, which listens for a tracer if the policy
\* left the client enabled.
Start(remote) ==
  /\ phase = "new" /\ phase' = "running" /\ handlers' = TRUE
  /\ IF remote THEN Bootstrap
     ELSE UNCHANGED <<switches, pending, fetching, patched, quiet, late>>
  /\ listening' = ~ingestOff'
  /\ UNCHANGED <<cache, document, inflight, awaited, passes, records, optedIn, dead>>

\* The document, or the word that the cached one is unchanged, arrives: whatever
\* happened meanwhile, it is followed and stored.
FetchAnswers(doc) ==
  /\ fetching /\ fetching' = FALSE
  /\ cache' = "fresh" /\ document' = doc
  /\ UNCHANGED <<phase, listening, handlers, inflight, records, quiet, optedIn, dead>>
  /\ \/ Applied(doc, listening)
     \/ cache = "stale" /\ doc = document /\ UNCHANGED <<switches, pending, patched, late>>
  /\ Waits

\* The key is refused: a tombstone is stored, and events stop.
FetchRefused ==
  /\ fetching /\ fetching' = FALSE
  /\ cache' = "quiet" /\ document' = NoDocument
  /\ SwitchedOff({"events"})
  /\ UNCHANGED <<phase, patches, inflight, records, history>>
  /\ Waits

FetchFails ==
  /\ fetching /\ fetching' = FALSE
  /\ UNCHANGED <<cache, document, phase, switches, patches, traffic, records, history>>

\* The time of the cached document, or of the tombstone, is over.
CacheAges ==
  /\ \/ cache = "fresh" /\ cache' = "stale"
     \/ cache = "quiet" /\ cache' = "expired"
  /\ UNCHANGED <<document, phase, fetching, switches, patches, traffic, records, history>>

-----------------------------------------------------------------------------
(* The signals. *)

\* The signals that take a record: send, the end of a span, track.  A client that
\* was closed has its options still, and takes them.
Takes ==
  (IF phase = "new" \/ ingestOff THEN {} ELSE {"events"})
    \union (IF spans = "on" THEN {"spans"} ELSE {})
    \union (IF analytics = "on" THEN {"analytics"} ELSE {})

Record(s) ==
  /\ s \in Takes /\ records < MaxRecords
  /\ records' = records + 1
  /\ pending' = pending \union {s}
  /\ UNCHANGED <<cache, document, phase, fetching, switches, patches, inflight, awaited,
                 passes, history>>

\* The site's analytics.optIn() and optOut(): what was tracked before is dropped.
SiteOptsIn ==
  /\ phase # "new"
  /\ OptedIn /\ optedIn' = TRUE
  /\ UNCHANGED <<cache, document, phase, fetching, ingestOff, spans, patches, traffic,
                 records, quiet, dead, late>>

SiteOptsOut ==
  /\ analytics = "on" /\ analytics' = "off"
  /\ pending' = pending \ {"analytics"}
  /\ UNCHANGED <<cache, document, phase, fetching, ingestOff, spans, patches, inflight,
                 records, history>>
  /\ Waits

\* A pass of the queue, the tracer or the facade: a signal has one at a time.
Post(s) ==
  /\ s \in (pending \intersect Takes) \ inflight
  /\ pending' = pending \ {s} /\ inflight' = inflight \union {s}
  /\ passes' = IF s = "spans" /\ passes > 0 THEN passes - 1 ELSE passes
  /\ UNCHANGED awaited
  /\ UNCHANGED <<cache, document, phase, fetching, switches, patches, records, history>>

Accepted(s) ==
  /\ s \in inflight /\ inflight' = inflight \ {s}
  /\ UNCHANGED <<cache, document, phase, fetching, switches, patches, pending, records,
                 history>>
  /\ WaitsAfter(s)

\* The marks of spans that did not get through are taken back: a later pass posts
\* those that no request has thrown away meanwhile.
TakenBack ==
  /\ pending' \in {pending, pending \union ({"spans"} \intersect Takes)}
  /\ UNCHANGED switches

\* The error handler of the queue, the tracer or the facade.
Refused(s, cause) ==
  /\ s \in inflight /\ inflight' = inflight \ {s}
  /\ IF s = "spans" /\ cause = "transient" THEN TakenBack ELSE SwitchedOff(Stops(s, cause))
  /\ dead' = (dead \/ cause = "dead_key")
  /\ WaitsAfter(s)
  /\ UNCHANGED <<cache, document, phase, fetching, patches, records, quiet, optedIn, late>>

-----------------------------------------------------------------------------
(* The end. *)

\* close, up to its flush.  The options stay.
Close ==
  /\ phase \in {"running", "closed"}
  /\ phase' = "closing" /\ UNCHANGED pending /\ WaitsFor(Signals)
  /\ UNCHANGED <<cache, document, fetching, switches, patches, inflight, records, history>>

\* The flush is over: the teardowns run, and the shutdown of the tracer begins, in
\* which its root, if it is open, ends and is flushed.
Teardown(rootIsOpen) ==
  /\ phase = "closing" /\ awaited = {}
  /\ phase' = "shutting"
  /\ handlers' = FALSE /\ patched' = FALSE
  /\ rootIsOpen => spans = "on"
  /\ pending' = IF rootIsOpen THEN pending \union {"spans"} ELSE pending
  /\ WaitsFor({"spans"})
  /\ UNCHANGED <<cache, document, fetching, switches, listening, inflight, records,
                 history>>

\* The tracer is shut down.
Closed ==
  /\ phase = "shutting" /\ awaited = {}
  /\ phase' = "closed"
  /\ UNCHANGED <<cache, document, fetching, switches, patches, traffic, records, history>>

\* The process is killed; the file is what the next one finds.
Crash ==
  /\ phase # "new"
  /\ phase' = "new" /\ fetching' = FALSE
  /\ ingestOff' = FALSE /\ spans' = "none" /\ analytics' = "off"
  /\ listening' = FALSE /\ patched' = FALSE /\ handlers' = FALSE
  /\ pending' = {} /\ inflight' = {} /\ awaited' = {} /\ passes' = 0 /\ records' = 0
  /\ quiet' = FALSE /\ optedIn' = FALSE /\ dead' = FALSE /\ late' = FALSE
  /\ UNCHANGED <<cache, document>>

Next ==
  \/ \E b \in BOOLEAN : Start(b) \/ Teardown(b)
  \/ \E doc \in Documents : FetchAnswers(doc)
  \/ FetchRefused \/ FetchFails \/ CacheAges
  \/ \E s \in Signals :
       \/ Record(s) \/ Post(s) \/ Accepted(s)
       \/ \E cause \in Causes : Refused(s, cause)
  \/ SiteOptsIn \/ SiteOptsOut
  \/ Close \/ Closed \/ Crash

\* A post that close waits for is made, each is answered in the end, and close goes
\* on.
Fairness ==
  /\ \A s \in Signals :
       /\ WF_vars(s \in awaited /\ Post(s))
       /\ WF_vars(Accepted(s) \/ \E cause \in Causes : Refused(s, cause))
  /\ WF_vars(\E b \in BOOLEAN : Teardown(b)) /\ WF_vars(Closed)

SafeSpec == Init /\ [][Next]_vars
Spec == SafeSpec /\ Fairness

-----------------------------------------------------------------------------
(* Properties. *)

TypeOK ==
  /\ cache \in {"none", "quiet", "expired", "fresh", "stale"}
  /\ document \in Documents
  /\ phase \in {"new", "running", "closing", "shutting", "closed"}
  /\ fetching \in BOOLEAN /\ ingestOff \in BOOLEAN
  /\ listening \in BOOLEAN /\ patched \in BOOLEAN /\ handlers \in BOOLEAN
  /\ quiet \in BOOLEAN /\ optedIn \in BOOLEAN /\ dead \in BOOLEAN /\ late \in BOOLEAN
  /\ spans \in {"none", "on", "off"} /\ analytics \in {"off", "on", "killed"}
  /\ pending \subseteq Signals /\ inflight \subseteq Signals /\ awaited \subseteq Signals
  /\ records \in 0 .. MaxRecords /\ passes \in 0 .. MaxPasses
  /\ patched => listening /\ spans # "none"
  /\ awaited # {} => phase \in {"closing", "shutting"}

\* A process that starts while the refusal of the key is remembered asks for no
\* policy, makes no tracer, patches nothing and posts nothing for as long as it
\* lives, but for the analytics that the site opts in to itself - whoever wrote the
\* file, and also when the time of the tombstone ends meanwhile.
QuietKeyIsSilent ==
  quiet => /\ ~fetching /\ ~patched /\ spans = "none"
           /\ inflight \subseteq IF optedIn THEN {"analytics"} ELSE {}

\* After a post was refused for the key, no document that arrives later brings a
\* signal back; the one exception is a tracer that such a document makes, which has
\* to see a refusal of its own.
DeadKeyStaysDead ==
  dead => ingestOff /\ analytics = "killed" /\ (spans = "on" => late)

\* A signal that is off has nothing to send, so that no post of it begins: what was
\* recorded before does not leave after it.
OffIsEmpty == pending \subseteq Takes

\* close ends, or the process does: no refusal of a post on its way leaves it
\* waiting for a queue that will not send any more, and no failure of the tracer's
\* passes makes it wait for another.
CloseEnds == phase = "closing" ~> phase \in {"closed", "new"}
==============================================================================
