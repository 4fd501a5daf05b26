------------------------------- MODULE Network -------------------------------
(***************************************************************************)
(* Failed requests of a page: the fetch and XMLHttpRequest wrappers of     *)
(* packages/browser/src/replay/hooks.ts, the client's onNetwork,           *)
(* onFailedRequest and onNetworkError, and the correlation that keeps the  *)
(* rejection of a request that was reported from being reported again as   *)
(* an exception (rememberNetworkFailure, consumeCorrelatedNetworkFailure   *)
(* and captureException of client.ts).                                     *)
(*                                                                         *)
(* The rejection of a fetch reaches the global handlers, or the            *)
(* application's own captureException, some time after the wrapper saw it; *)
(* nothing in it names its request.  Its message tells fetch from          *)
(* XMLHttpRequest and a failure from a timeout, and is looked up among the *)
(* failures only if it is one that browsers give; it may reach the capture *)
(* more than once (captured by the application, and thrown on).  Sampling, *)
(* levels, beforeSend and the ignore lists of errors are left out: a       *)
(* capture is reported.                                                    *)
(***************************************************************************)
EXTENDS Integers, Sequences, SequencesExt, FiniteSetsExt

CONSTANTS
  Requests,
  FirstParty,   \* requests to the page's own origin
  Listed,       \* requests to an origin of networkErrorOrigins
  Ignored,      \* requests to an URL of failedRequestIgnoreUrls or of Talaria
  Url,          \* of each request
  Errors,       \* errors of the application that are no rejections of a request
  Likely        \* those whose message is one of a failed fetch all the same, such as
                \* "Failed to fetch dynamically imported module"

ASSUME NetworkAssumption ==
  /\ FirstParty \subseteq Requests /\ Ignored \subseteq Requests
  /\ Listed \subseteq Requests /\ Likely \subseteq Errors
  /\ DOMAIN Url = Requests
  /\ Requests \intersect Errors = {}

Kinds == {"network", "timeout", "abort"}   \* NetworkFailureKind without "http"

\* What a fetch may reject with: with the browser's own message for one of these
\* kinds, or with another one, such as the reason that was given to abort, or that
\* of a browser which words it otherwise.  The latter counts as a network failure.
Rejections == Kinds \union {"other"}
KindOf(how) == IF how = "other" THEN "network" ELSE how
MessageOf(how) == IF how = "other" THEN "other" ELSE "fetch"

VARIABLES
  promote,      \* captureNetworkErrors
  request,      \* of each request, "new", "open", "done", or how it rejected, while
                \* the rejection is on its way to a handler
  failures,     \* recentNetworkFailures
  capturing,    \* the capture of an exception is under way
  unseen,       \* errors that the application still has before it
  reported,     \* what became events: a request or an error, and as what
  suppressed,   \* number of exceptions that were dropped because they correlate
  remembered,   \* history: requests that wrote an entry, or merged into one
  tangled       \* history: entries and rejections do not go together any more, see
                \* OneEventPerFailure

networkVars == <<promote, request, failures, capturing, unseen, reported, suppressed,
          remembered, tangled>>

-----------------------------------------------------------------------------
(* Helpers. *)

ThirdParty(r) == r \notin FirstParty

\* isAllowedNetworkOrigin, of the requests that failedRequestIgnoreUrls leaves.
Promotable == (FirstParty \union Listed) \ Ignored

\* shouldPromoteNetworkError
Promotes(r, kind) == promote /\ kind # "abort" /\ r \in Promotable

\* shouldPromoteFailedRequest, for a status in failedRequestStatusCodes.
PromotesStatus(r) == r \in Promotable

\* The entry of RecentNetworkFailure.
FailureEntry(r, kind, message) ==
  [url |-> Url[r], kind |-> kind, message |-> message,
   promoted |-> Promotes(r, kind), third |-> ThirdParty(r), young |-> TRUE]

\* The entry of less than a second that another failure of its URL, with the same
\* message, falls into.
Twin(e) ==
  {i \in DOMAIN failures :
     /\ failures[i].url = e.url /\ failures[i].young
     /\ failures[i].kind = e.kind /\ failures[i].message = e.message}

\* Mutant: the entry that promotion finds is left as it is.
RememberedUnpromoted(e) ==
  IF Twin(e) = {} THEN Append(failures, [e EXCEPT !.promoted = FALSE]) ELSE failures

\* rememberNetworkFailure, of onNetwork and then of onNetworkError.
Remembered(e) ==
  IF Twin(e) = {} THEN Append(failures, e)
  ELSE [failures EXCEPT ![Max(Twin(e))].promoted = @ \/ e.promoted]

\* What the event of a failure says; only an "other" message is unknown to the
\* capture of exceptions.
EventOf(message) == IF message = "other" THEN "other" ELSE "network"

\* handleMeta, up to the rejection: aborts and ignored requests leave nothing.
Handled(r, kind, message) ==
  LET e == FailureEntry(r, kind, message) IN
  IF kind = "abort" \/ r \in Ignored
  THEN UNCHANGED <<failures, reported, remembered, tangled>>
  ELSE /\ failures' = Remembered(e)
       /\ reported' = IF e.promoted THEN reported \union {<<r, EventOf(message)>>} ELSE reported
       /\ remembered' = remembered \union {r}
       /\ tangled' = (tangled \/ Twin(e) # {})

\* consumeCorrelatedNetworkFailure: the latest entry with the message of the error,
\* or else the latest of its kind; 0 if there is none, or if the message is not one
\* of a failed fetch (isCorrelatableTransportError).
Correlated(kind, message) ==
  LET ofKind == {i \in DOMAIN failures : failures[i].kind = kind}
      same == {i \in ofKind : failures[i].message = message}
  IN IF message = "other" THEN 0
     ELSE IF same # {} THEN Max(same) ELSE IF ofKind # {} THEN Max(ofKind) ELSE 0

\* Mutant: the entry stays.
TakenAndKept(i) == failures' = failures

\* takeAt
Taken(i) == failures' = RemoveAt(failures, i)

-----------------------------------------------------------------------------
NetworkInit ==
  /\ promote \in BOOLEAN
  /\ request = [r \in Requests |-> "new"]
  /\ failures = <<>> /\ capturing = FALSE
  /\ unseen = Errors
  /\ reported = {} /\ suppressed = 0 /\ remembered = {} /\ tangled = FALSE

-----------------------------------------------------------------------------
(* Requests. *)

Sends(r) ==
  /\ request[r] = "new"
  /\ request' = [request EXCEPT ![r] = "open"]
  /\ UNCHANGED <<promote, failures, capturing, unseen, reported, suppressed, remembered,
                 tangled>>

\* A response; onFailedRequest for one with a status that is promoted.
Responds(r, bad) ==
  /\ request[r] = "open"
  /\ request' = [request EXCEPT ![r] = "done"]
  /\ reported' = IF bad /\ PromotesStatus(r) THEN reported \union {<<r, "http">>}
                 ELSE reported
  /\ UNCHANGED <<promote, failures, capturing, unseen, suppressed, remembered, tangled>>

\* The wrapper of fetch sees a rejection, and passes it on.
FetchRejects(r, how) ==
  /\ request[r] = "open"
  /\ request' = [request EXCEPT ![r] = how]
  /\ Handled(r, KindOf(how), MessageOf(how))
  /\ UNCHANGED <<promote, capturing, unseen, suppressed>>

\* loadend of an XMLHttpRequest with status 0: no rejection follows.
XhrFails(r, kind) ==
  /\ request[r] = "open"
  /\ request' = [request EXCEPT ![r] = "done"]
  /\ Handled(r, kind, "xhr")
  /\ UNCHANGED <<promote, capturing, unseen, suppressed>>

\* The application handles the rejection: no capture.
Catches(r) ==
  /\ request[r] \in Rejections
  /\ request' = [request EXCEPT ![r] = "done"]
  /\ UNCHANGED <<promote, failures, capturing, unseen, reported, suppressed, remembered,
                 tangled>>

\* An entry becomes older than a second; the oldest one leaves after five.
EntryAges(i) ==
  /\ failures[i].young
  /\ \A j \in 1 .. i - 1 : ~failures[j].young
  /\ failures' = [failures EXCEPT ![i].young = FALSE]
  /\ UNCHANGED <<promote, request, capturing, unseen, reported, suppressed, remembered,
                 tangled>>

\* pruneRecentNetworkFailures
Expires ==
  /\ failures # <<>> /\ ~Head(failures).young
  /\ failures' = Tail(failures)
  /\ tangled' = (tangled \/ \E r \in Requests : request[r] = Head(failures).kind)
  /\ UNCHANGED <<promote, request, capturing, unseen, reported, suppressed, remembered>>

-----------------------------------------------------------------------------
(* Exceptions. *)

\* captureException of x, whose message leads to the entry i.  During a capture it
\* is dropped, and the entry stays.  An entry that was promoted, or is somebody
\* else's, suppresses it.  lost: the entry belongs to a rejection still to come.
CaptureOf(x, i, lost) ==
  /\ IF capturing THEN UNCHANGED <<failures, capturing, reported, suppressed>>
     ELSE IF i # 0 /\ (failures[i].promoted \/ failures[i].third)
     THEN Taken(i) /\ suppressed' = suppressed + 1 /\ UNCHANGED <<capturing, reported>>
     ELSE /\ IF i # 0 THEN Taken(i) ELSE UNCHANGED failures
          /\ capturing' = TRUE
          /\ reported' = reported \union {<<x, "exception">>}
          /\ UNCHANGED suppressed
  /\ tangled' = (tangled \/ (~capturing /\ i # 0 /\ lost))

\* The rejection of r: by onRejection, or by the application, which may throw it on
\* so that it comes again.  An AbortError is dropped first.
Surfaces(r, again) ==
  /\ request[r] \in Rejections
  /\ request' = IF again THEN request ELSE [request EXCEPT ![r] = "done"]
  /\ IF request[r] = "abort"
     THEN UNCHANGED <<failures, capturing, reported, suppressed, tangled>>
     ELSE CaptureOf(r, Correlated(KindOf(request[r]), MessageOf(request[r])),
                   again \/ r \in Ignored)
  /\ UNCHANGED <<promote, unseen, remembered>>

\* Any other error; the entry it may find is never its own.
Throws(e) ==
  /\ e \in unseen /\ unseen' = unseen \ {e}
  /\ CaptureOf(e, IF e \in Likely THEN Correlated("network", "import") ELSE 0, TRUE)
  /\ UNCHANGED <<promote, request, remembered>>

\* capture has settled: replay was flushed, and the event is queued or sent.
CaptureEnds ==
  /\ capturing /\ capturing' = FALSE
  /\ UNCHANGED <<promote, request, failures, unseen, reported, suppressed, remembered,
                 tangled>>

NetworkNext ==
  \/ \E r \in Requests :
       \/ Sends(r) \/ Catches(r)
       \/ \E b \in BOOLEAN : Responds(r, b) \/ Surfaces(r, b)
       \/ \E how \in Rejections : FetchRejects(r, how)
       \/ \E k \in Kinds : XhrFails(r, k)
  \/ \E i \in DOMAIN failures : EntryAges(i)
  \/ Expires
  \/ \E e \in Errors : Throws(e)
  \/ CaptureEnds

NetworkSpec == NetworkInit /\ [][NetworkNext]_networkVars

-----------------------------------------------------------------------------
(* Properties. *)

Suppresses(e) == e.promoted \/ e.third

\* "Consumes the entry so a later duplicate path cannot reuse it": no more
\* exceptions are suppressed than failures were reported, or belong to others -
\* whichever error takes whose entry, how often it comes, and whatever merges and
\* expires.
SuppressionIsPaidFor ==
  suppressed + Cardinality({i \in DOMAIN failures : Suppresses(failures[i])})
    <= Cardinality({r \in remembered : ThirdParty(r) \/ promote})

\* A failure that became an event is not reported again as an exception, if its
\* message is the browser's own: one that isCorrelatableTransportError does not
\* know (the event "other") is reported twice.  Five things can part the entries
\* from the rejections: two failures of one URL within a second share an entry, an
\* entry expires while a rejection is on its way, and the rejection of an ignored
\* request, one that comes a second time, or an error that only sounds like a
\* failed fetch takes another's entry.  Until one of them happens, no order of
\* failures, rejections, errors and captures gives a second event.
OneEventPerFailure ==
  ~tangled => \A r \in Requests :
                ~({<<r, "network">>, <<r, "exception">>} \subseteq reported)

==============================================================================
