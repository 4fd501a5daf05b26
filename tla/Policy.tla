------------------------------- MODULE Policy -------------------------------
(***************************************************************************)
(* The project policy and the kill switch of the browser client            *)
(* (packages/browser/src/client.ts over packages/core/src/policy).  Which  *)
(* telemetry signals a page may send is decided by the policy cached in    *)
(* localStorage, by the document fetched at start, and by the answers to   *)
(* the signals' own requests: a refusal may stop one signal, or every      *)
(* signal, or leave a tombstone that keeps later pages quiet.  The fetch   *)
(* and the refusals are answers to requests in flight, so they meet in any *)
(* order.                                                                  *)
(*                                                                         *)
(* The site asked for public analytics, so analytics follows the document, *)
(* and it may opt in to analytics and out of it at any time, document or   *)
(* none.  No consent banner speaks here: its grant counts only once a      *)
(* document has turned analytics on (client.ts:1036).                      *)
(* Heatmaps are stopped wherever analytics is and have no state of their   *)
(* own here.  Replay stands for what may start a replay; what an upload    *)
(* does is in ReplayUpload.                                                *)
(***************************************************************************)
EXTENDS Integers

CONSTANTS
  Documents,   \* policy documents the server may hold
  MaxPages     \* bound: page loads

Switch == {"on", "off", "absent"}
Document == [active : BOOLEAN, tracing : BOOLEAN, analytics : BOOLEAN,
             replay : Switch]

ASSUME PolicyAssumption ==
  /\ Documents \subseteq Document
  /\ MaxPages \in Nat

VARIABLES
  cache,           \* localStorage: nothing, a document, or a tombstone
  ingestDisabled,
  tracer,          \* "none", "on", or "off" once disabled
  replayDisabled,
  recording,       \* whether the recorder was started
  analytics,       \* "off" or "on" by consent, or "killed", consent or none
  fetching,        \* whether GET v1/sdk-config is in flight
  basis,           \* the cached document that fetch would confirm
  inflight,        \* signals with a request in flight
  page,            \* number of the page load
  optedIn,         \* history: the site itself opted in on this page
  silent,          \* history: this page found a quiet tombstone
  applied          \* history: {} or the last document applied on this page

signals == <<ingestDisabled, tracer, replayDisabled, recording, analytics>>
vars == <<cache, signals, fetching, basis, inflight, page, optedIn, silent,
          applied>>

Signal == {"events", "spans", "replay", "analytics"}
NoDocument == [active |-> TRUE, tracing |-> FALSE, analytics |-> FALSE,
               replay |-> "absent"]

\* A cache entry; fresh: its TTL, or the quiet day of a tombstone, is not over.
Entry == [kind : {"none", "document", "tombstone"}, document : Document,
          fresh : BOOLEAN]
Nothing == [kind |-> "none", document |-> NoDocument, fresh |-> FALSE]
Cached(d) == [kind |-> "document", document |-> d, fresh |-> TRUE]
Tombstone == [kind |-> "tombstone", document |-> NoDocument, fresh |-> TRUE]

\* The signals that may be sent now.
Enabled ==
  {s \in Signal :
     \/ s = "events" /\ ~ingestDisabled
     \/ s = "spans" /\ tracer = "on"
     \/ s = "replay" /\ recording /\ ~replayDisabled
     \/ s = "analytics" /\ analytics = "on"}

-----------------------------------------------------------------------------
(* What applying a document, and stopping, does to the signals.            *)

StopTracer == tracer' = IF tracer = "none" THEN "none" ELSE "off"

\* Mutant: errors are still reported for an inactive project.
StopButEvents ==
  /\ StopTracer
  /\ replayDisabled' = TRUE
  /\ analytics' = "killed"
  /\ UNCHANGED <<ingestDisabled, recording>>
\* stopForInactivePolicy; also the tail of disableIngestAfterPermanentError.
StopEverything ==
  /\ ingestDisabled' = TRUE
  /\ StopTracer
  /\ replayDisabled' = TRUE
  /\ analytics' = "killed"
  /\ UNCHANGED recording

\* Mutant: an active document turns events on again.
FollowEvents(d) == ingestDisabled' = FALSE
KeepEvents(d) == UNCHANGED ingestDisabled

FollowReplay(d) ==
  CASE d.replay = "on" -> replayDisabled' = FALSE /\ recording' = TRUE
    [] d.replay = "off" -> replayDisabled' = TRUE /\ UNCHANGED recording
    [] OTHER -> UNCHANGED <<replayDisabled, recording>>

\* The active branch of applySdkConfig.
Follow(d) ==
  /\ KeepEvents(d)
  /\ tracer' = IF ~d.tracing THEN "none" ELSE IF tracer = "none" THEN "on" ELSE tracer
  /\ FollowReplay(d)
  /\ analytics' = IF ~d.analytics \/ analytics = "killed" THEN "killed" ELSE "on"

Apply(d) ==
  /\ applied' = {d}
  /\ IF d.active THEN Follow(d) ELSE StopEverything

-----------------------------------------------------------------------------
\* start() up to bootstrapPolicy, which is the first action of every page.
Init ==
  /\ cache = Nothing
  /\ ingestDisabled = FALSE
  /\ tracer = "none"
  /\ replayDisabled = FALSE
  /\ recording = FALSE
  /\ analytics = "off"
  /\ fetching = "bootstrap"
  /\ basis = Nothing
  /\ inflight = {}
  /\ page = 1
  /\ optedIn = FALSE
  /\ silent = FALSE
  /\ applied = {}

Reload ==
  /\ fetching # "bootstrap"
  /\ page < MaxPages
  /\ page' = page + 1
  /\ ingestDisabled' = FALSE
  /\ tracer' = "none"
  /\ replayDisabled' = FALSE
  /\ recording' = FALSE
  /\ analytics' = "off"
  /\ fetching' = "bootstrap"
  /\ basis' = Nothing
  /\ inflight' = {}
  /\ optedIn' = FALSE
  /\ silent' = FALSE
  /\ applied' = {}
  /\ UNCHANGED cache

\* tombstoneIsQuiet
Quiet == cache.kind = "tombstone" /\ cache.fresh

\* bootstrapPolicy up to its fetch: a quiet tombstone stops the page, a cached
\* document is applied, and a fresh one spares the fetch.
Bootstrap ==
  /\ fetching = "bootstrap"
  /\ \/ /\ Quiet
        /\ StopEverything
        /\ fetching' = "no"
        /\ UNCHANGED <<basis, applied>>
     \/ /\ ~Quiet /\ cache.kind = "document"
        /\ Apply(cache.document)
        /\ fetching' = IF cache.fresh THEN "no" ELSE "yes"
        /\ basis' = IF cache.fresh THEN basis ELSE cache
     \/ /\ ~Quiet /\ cache.kind # "document"
        /\ fetching' = "yes"
        /\ UNCHANGED <<signals, basis, applied>>
  /\ silent' = Quiet
  /\ UNCHANGED <<cache, inflight, page, optedIn>>

\* The document arrives: it is applied and cached.
Fetched ==
  /\ fetching = "yes"
  /\ fetching' = "no"
  /\ \E d \in Documents : Apply(d) /\ cache' = Cached(d)
  /\ UNCHANGED <<basis, inflight, page, optedIn, silent>>

\* The server confirms the cached revision, which is cached as fresh again.
FetchedUnchanged ==
  /\ fetching = "yes"
  /\ basis.kind = "document"
  /\ fetching' = "no"
  /\ cache' = Cached(basis.document)
  /\ UNCHANGED <<signals, basis, inflight, page, optedIn, silent, applied>>

\* The server refuses the key: a tombstone, and the page stops.
FetchRefused ==
  /\ fetching = "yes"
  /\ fetching' = "no"
  /\ cache' = Tombstone
  /\ StopEverything
  /\ UNCHANGED <<basis, inflight, page, optedIn, silent, applied>>

\* Any other failure, the two-second timeout included, is only logged.
FetchFails ==
  /\ fetching = "yes"
  /\ fetching' = "no"
  /\ UNCHANGED <<cache, signals, basis, inflight, page, optedIn, silent, applied>>

CacheAges ==
  /\ cache.fresh
  /\ cache' = [cache EXCEPT !.fresh = FALSE]
  /\ UNCHANGED <<signals, fetching, basis, inflight, page, optedIn, silent, applied>>

\* Mutant: a signal is sent without asking for its switch.
AnySignal == Signal
Sendable == Enabled

Send(s) ==
  /\ fetching # "bootstrap"
  /\ s \in Sendable \ inflight
  /\ inflight' = inflight \union {s}
  /\ UNCHANGED <<cache, signals, fetching, basis, page, optedIn, silent, applied>>

Answered(s) ==
  /\ s \in inflight
  /\ inflight' = inflight \ {s}
  /\ UNCHANGED <<cache, signals, fetching, basis, page, optedIn, silent, applied>>

\* The site's analytics.optIn() and optOut(): consent, which a facade that was
\* killed keeps without effect.
SiteOptsIn ==
  /\ fetching # "bootstrap"
  /\ optedIn' = TRUE
  /\ analytics' = IF analytics = "killed" THEN "killed" ELSE "on"
  /\ UNCHANGED <<cache, ingestDisabled, tracer, replayDisabled, recording,
                 fetching, basis, inflight, page, silent, applied>>

SiteOptsOut ==
  /\ analytics = "on"
  /\ analytics' = "off"
  /\ UNCHANGED <<cache, ingestDisabled, tracer, replayDisabled, recording,
                 fetching, basis, inflight, page, optedIn, silent, applied>>

-----------------------------------------------------------------------------
(* disableIngestAfterPermanentError                                        *)

\* One signal stops: its scope is missing, or the project has it turned off.
StopOne(s) ==
  /\ ingestDisabled' = (ingestDisabled \/ s = "events")
  /\ IF s = "spans" THEN StopTracer ELSE UNCHANGED tracer
  /\ replayDisabled' = (replayDisabled \/ s = "replay")
  /\ analytics' = IF s = "analytics" THEN "killed" ELSE analytics
  /\ UNCHANGED recording

\* The tracer turns itself off before it reports a refusal of spans; the report
\* then finds the other switches.
NothingLeft == ingestDisabled /\ replayDisabled /\ analytics # "on"

RefusedOne(s) ==
  /\ s \in inflight
  /\ inflight' = inflight \ {s}
  /\ StopOne(s)
  /\ UNCHANGED <<cache, fetching, basis, page, optedIn, silent, applied>>

\* A permanent refusal that names no signal: analytics keeps it to itself unless
\* it is the key that is refused, which also leaves the tombstone.
RefusedForGood(s, key) ==
  /\ s \in inflight
  /\ inflight' = inflight \ {s}
  /\ cache' = IF key THEN Tombstone ELSE cache
  /\ IF s = "analytics" /\ ~key THEN StopOne(s)
     ELSE IF ~NothingLeft THEN StopEverything
     ELSE IF s = "spans" THEN StopOne(s) ELSE UNCHANGED signals
  /\ UNCHANGED <<fetching, basis, page, optedIn, silent, applied>>

Next ==
  \/ Reload \/ Bootstrap
  \/ Fetched \/ FetchedUnchanged \/ FetchRefused \/ FetchFails
  \/ CacheAges
  \/ SiteOptsIn \/ SiteOptsOut
  \/ \E s \in Signal :
       \/ Send(s) \/ Answered(s)
       \/ RefusedOne(s)
       \/ \E key \in BOOLEAN : RefusedForGood(s, key)

Spec == Init /\ [][Next]_vars

-----------------------------------------------------------------------------
\* The types of the variables.
TypeOK ==
  /\ cache \in Entry /\ basis \in Entry
  /\ ingestDisabled \in BOOLEAN /\ replayDisabled \in BOOLEAN
  /\ recording \in BOOLEAN
  /\ tracer \in {"none", "on", "off"}
  /\ analytics \in {"off", "on", "killed"}
  /\ fetching \in {"bootstrap", "yes", "no"}
  /\ inflight \subseteq Signal
  /\ page \in Nat
  /\ optedIn \in BOOLEAN /\ silent \in BOOLEAN
  /\ applied \subseteq Document

SamePage == page' = page

\* No document, answer, order of answers or call of the site turns events or
\* analytics on again once they were stopped on a page.
StoppedForThePage ==
  [][SamePage => /\ ingestDisabled => ingestDisabled'
                 /\ analytics = "killed" => analytics' = "killed"]_vars

\* With no policy the SDK sends errors only, and analytics where the site itself
\* opted in on this page: until a document has been applied on the page no other
\* signal is sent, whatever an earlier page left behind or opted in to.
ErrorsOnlyWithoutPolicy ==
  applied = {} =>
    inflight \subseteq {"events"} \union IF optedIn THEN {"analytics"} ELSE {}

\* A page that finds a quiet tombstone sends nothing for as long as it lives,
\* not even the analytics the site opts in to.
QuietPage == silent => inflight = {} /\ fetching = "no"

\* A refusal of one signal leaves the others as they were.
OthersUntouched ==
  [][\A s \in Signal :
       RefusedOne(s) => Enabled \ {s} = Enabled' \ {s}]_vars

=============================================================================
