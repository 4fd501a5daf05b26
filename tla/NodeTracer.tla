----------------------------- MODULE NodeTracer -----------------------------
(***************************************************************************)
(* The server's tracing: NodeTracer of packages/node/src/tracer.ts, and    *)
(* what feeds it - the request listener and the outgoing calls of http.ts, *)
(* the model calls of model_http.ts, the database wrappers of db/sql.ts    *)
(* and db/duckdb.ts.  A process has one tracer with one current            *)
(* transaction and one current context, and serves its requests            *)
(* concurrently: what a request finds there may be another's.              *)
(*                                                                         *)
(* A trace is named by its request.  All queries of a trace have one text. *)
(* Attributes, names, statuses and times are left out.                     *)
(***************************************************************************)
EXTENDS Integers, Sequences, FiniteSets

CONSTANTS
  Requests,     \* incoming requests, or jobs of a worker
  Calls,        \* outgoing calls
  Queries,      \* executions of a query
  None,         \* no request
  MaxSpans, MaxSql, Reserved,  \* MAX_SPANS, MAX_SQL_SPANS, RESERVED_NON_SQL
  MaxScopes,    \* bound: calls of withoutQuerySpans at a time
  MaxChained    \* bound: passes that wait in the chain, see Chain

ASSUME NodeAssumption ==
  /\ ({None, "new", "prepared", "untraced", "done"} \intersect Requests) = {}
  /\ {MaxSpans, MaxChained} \subseteq Nat \ {0}
  /\ {MaxSql, Reserved, MaxScopes} \subseteq Nat
  /\ MaxSql + Reserved <= MaxSpans

VARIABLES
  disabled,     \* the tracer is off for good
  context,      \* getCurrentSpanContext: the request it belongs to, or None
  root,         \* the request whose root span is the tracer's root, or None
  rootEnded,    \* requests whose root span has ended, or never recorded
  sampled,      \* isSampled: the draw of the transaction, or an error since
  count, sqlCount,   \* spanCount and sqlCount
  groups,       \* queryGroups: spans that absorb the next fast query
  ended,        \* the list of ended spans
  chained, batch, sent,  \* passes that wait, spans in flight, spans accepted
  absorbed,     \* which query is counted in which span, until the server has it
  carried,      \* of these counts, those the batch in flight was written with
  request,      \* of each request, "new", "open" or "done"
  calls,        \* of each call, "new", "prepared", "untraced", "done" or the
                \* trace of its span
  queries,      \* of each query as well
  recording,    \* recordQuerySpans: "on", or off, and then by whom: the "site", a
                \* "call" of withoutQuerySpans, or "lost": the last open call to end
                \* began within another, and found it off by that
  scopes        \* of each open call of withoutQuerySpans, in their order, what it
                \* found, and whether it began alone, with no other open

transaction == <<context, root, rootEnded, sampled>>
limits == <<count, sqlCount, groups, absorbed>>
wire == <<batch, sent, carried>>
work == <<request, calls, queries>>
scoping == <<recording, scopes>>
tracer == <<disabled, transaction, limits, ended, chained, wire, work, scoping>>

Span == [trace : Requests, key : {"root"} \union Calls \union Queries]
SpanOf(r, k) == [trace |-> r, key |-> k]
Absorption == [query : Queries, span : Span]
Switch == {"on", "site", "call", "lost"}
Scope == [found : Switch, alone : BOOLEAN]

-----------------------------------------------------------------------------
(* Helpers. *)

\* flush: one more pass; a call made while MaxChained passes wait adds none, and
\* they take what it would.
Chain == IF chained < MaxChained THEN chained + 1 ELSE chained

\* The requests whose root endRoot ends.
OpenRoot == {root} \ (rootEnded \union {None})

\* Mutant: the reserve is forgotten.
CanAdmitAnySql == count < MaxSpans

\* canAdmitSql
CanAdmitSql ==
  LET nonSql == count - sqlCount
      reserve == IF nonSql < Reserved THEN Reserved - nonSql ELSE 0
  IN sqlCount < MaxSql /\ count < MaxSpans /\ count + reserve < MaxSpans

\* Mutant: whether the span has been posted does not matter.
AbsorbsFlushed(group) == group # {}

\* A group absorbs while its span is not marked as flushed.
Absorbs(group) == group # {} /\ group \intersect (batch \union sent) = {}

\* The list is emptied, and with the spans what they count, but for what is in flight.
EmptiesList == ended' = {} /\ absorbed' = carried

\* markError: the current transaction fails, whoever had the error.
MarkError == sampled' = TRUE
Marked(fails) == IF fails THEN MarkError ELSE UNCHANGED sampled

-----------------------------------------------------------------------------
Init ==
  /\ disabled = FALSE
  /\ context = None /\ root = None /\ rootEnded = {}
  /\ sampled = FALSE
  /\ count = 0 /\ sqlCount = 0 /\ groups = {} /\ ended = {}
  /\ chained = 0 /\ batch = {} /\ sent = {}
  /\ absorbed = {} /\ carried = {}
  /\ request = [r \in Requests |-> "new"]
  /\ calls = [c \in Calls |-> "new"]
  /\ queries = [q \in Queries |-> "new"]
  /\ recording = "on" /\ scopes = <<>>

-----------------------------------------------------------------------------
(* Requests. *)

\* attachRequestListener: startTransaction, with the sample of the caller or a
\* draw; a root that is still open ends, and its span is dropped with the list.
RequestBegins(r, keep) ==
  /\ request[r] = "new"
  /\ request' = [request EXCEPT ![r] = "open"]
  /\ rootEnded' = rootEnded \union OpenRoot \union (IF disabled THEN {r} ELSE {})
  /\ recording' = IF OpenRoot # {} THEN "on" ELSE recording
  /\ context' = r /\ root' = IF disabled THEN None ELSE r
  /\ sampled' = keep
  /\ count' = IF disabled THEN 0 ELSE 1
  /\ sqlCount' = 0 /\ groups' = {} /\ EmptiesList
  /\ UNCHANGED <<disabled, chained, wire, calls, queries, scopes>>

\* The application ends the span of its transaction.
RootSpanEnds(r) ==
  /\ request[r] = "open" /\ r \notin rootEnded
  /\ rootEnded' = rootEnded \union {r}
  /\ ended' = ended \union {SpanOf(r, "root")}
  /\ UNCHANGED <<disabled, context, root, sampled, limits, chained, wire,
                 work, scoping>>

\* resetRequestState: the open root ends, whosever it is, and a pass is chained;
\* the list is emptied before the pass can run.
Reset ==
  /\ chained' = Chain
  /\ context' = None /\ root' = None
  /\ count' = 0 /\ sqlCount' = 0 /\ groups' = {} /\ EmptiesList /\ recording' = "on"

\* The response of r is finished: its span ends, and the state is reset.
RequestEnds(r, fails) ==
  /\ request[r] = "open"
  /\ request' = [request EXCEPT ![r] = "done"]
  /\ rootEnded' = rootEnded \union {r} \union OpenRoot
  /\ Marked(fails)
  /\ Reset
  /\ UNCHANGED <<disabled, wire, calls, queries, scopes>>

-----------------------------------------------------------------------------
(* Outgoing calls: fetch, http and https, and calls of a model. *)

\* startSpan takes the current context, whoever set it; a span over the limit is
\* dropped, and the call goes on without one.
StartSpan(c) ==
  /\ IF context = None \/ disabled \/ count >= MaxSpans
     THEN calls' = [calls EXCEPT ![c] = "untraced"] /\ UNCHANGED count
     ELSE calls' = [calls EXCEPT ![c] = context] /\ count' = count + 1
  /\ UNCHANGED <<disabled, transaction, sqlCount, groups, absorbed, ended, chained, wire,
                 request, queries, scoping>>

\* patchOutgoing, up to the call of the original.
OutgoingCall(c) == calls[c] = "new" /\ StartSpan(c)

\* prepareRequest: the body of a model call is read, which takes a while; the
\* span is opened only then.
Prepare(c) ==
  /\ calls[c] = "new"
  /\ calls' = [calls EXCEPT ![c] = "prepared"]
  /\ UNCHANGED <<disabled, transaction, limits, ended, chained, wire, request, queries,
                 scoping>>

\* traceModelFetch, from openModelSpan to its send.
ModelCall(c) == calls[c] = "prepared" /\ StartSpan(c)

\* The answer or the error of the call: the first of them ends the span.
CallEnds(c, fails) ==
  /\ calls[c] \notin {"new", "prepared", "done"}
  /\ calls' = [calls EXCEPT ![c] = "done"]
  /\ ended' = IF calls[c] = "untraced" THEN ended ELSE ended \union {SpanOf(calls[c], c)}
  /\ Marked(fails)
  /\ UNCHANGED <<disabled, context, root, rootEnded, limits, chained, wire, request,
                 queries, scoping>>

-----------------------------------------------------------------------------
(* Queries, and the scopes that keep them out. *)

\* wrapQueryable, and trace of db/duckdb.ts, up to the call of the driver: the
\* span of a query is not counted before it ends.
QueryBegins(q) ==
  /\ queries[q] = "new" /\ context # None /\ recording = "on" /\ ~disabled
  /\ queries' = [queries EXCEPT ![q] = context]
  /\ UNCHANGED <<disabled, transaction, limits, ended, chained, wire, request, calls,
                 scoping>>

\* onSpanEnd: a fast query is counted in the group of its trace while that waits to
\* be sent; another one needs room for a span.
SpanEnds(q, fast) ==
  LET span == SpanOf(queries[q], q)
      group == {g \in groups : g.trace = span.trace}
  IN
  /\ queries[q] \notin {"new", "done"}
  /\ queries' = [queries EXCEPT ![q] = "done"]
  /\ \/ /\ fast /\ Absorbs(group)
        /\ absorbed' = absorbed \union {[query |-> q, span |-> g] : g \in group}
        /\ UNCHANGED <<ended, count, sqlCount, groups>>
     \/ /\ ~(fast /\ Absorbs(group)) /\ CanAdmitSql
        /\ count' = count + 1 /\ sqlCount' = sqlCount + 1
        /\ groups' = IF fast THEN (groups \ group) \union {span} ELSE groups
        /\ ended' = ended \union {span}
        /\ UNCHANGED absorbed
     \/ /\ ~(fast /\ Absorbs(group)) /\ ~CanAdmitSql
        /\ UNCHANGED <<ended, limits>>

\* The query has settled.
QueryEnds(q, fast) ==
  /\ SpanEnds(q, fast)
  /\ UNCHANGED <<disabled, transaction, chained, wire, request, calls, scoping>>

\* The query of a DuckDB connection fails: its error is captured as well, which
\* fails the transaction of the moment.
QueryFails(q) ==
  /\ SpanEnds(q, FALSE)
  /\ MarkError
  /\ UNCHANGED <<disabled, context, root, rootEnded, chained, wire, request, calls,
                 scoping>>

\* setRecordQuerySpans
SetRecordQuerySpans(record) ==
  /\ recording' = IF record THEN "on" ELSE "site"
  /\ UNCHANGED <<disabled, transaction, limits, ended, chained, wire, work, scopes>>

\* withoutQuerySpans, up to its await.
ScopeBegins ==
  /\ Len(scopes) < MaxScopes
  /\ scopes' = Append(scopes, [found |-> recording, alone |-> scopes = <<>>])
  /\ recording' = "call"
  /\ UNCHANGED <<disabled, transaction, limits, ended, chained, wire, work>>

Without(i) == [j \in 1 .. Len(scopes) - 1 |-> IF j < i THEN scopes[j] ELSE scopes[j + 1]]

\* The switch after call i, with what it found; "lost" is "call", seen too late.
Restored(i) ==
  IF Len(scopes) = 1 /\ ~scopes[i].alone /\ scopes[i].found = "call"
  THEN "lost" ELSE scopes[i].found

\* Mutant: what the function throws leaves the switch off.
ScopeEndsThrowing(i) ==
  /\ scopes' = Without(i)
  /\ recording' \in {Restored(i), recording}
  /\ UNCHANGED <<disabled, transaction, limits, ended, chained, wire, work>>

\* Its function has settled: what the call found is restored.
ScopeEnds(i) ==
  /\ scopes' = Without(i)
  /\ recording' = Restored(i)
  /\ UNCHANGED <<disabled, transaction, limits, ended, chained, wire, work>>

-----------------------------------------------------------------------------
(* Sending. *)

\* flush, as the application and the client's close call it.
Flush ==
  /\ chained' = Chain
  /\ UNCHANGED <<disabled, transaction, limits, ended, wire, work, scoping>>

Ready == IF disabled \/ ~sampled THEN {} ELSE ended \ sent

\* flushOnce, up to its await: the spans are marked, and written as they are now.
StartPass ==
  /\ chained > 0 /\ batch = {}
  /\ chained' = chained - 1
  /\ batch' = Ready /\ carried' = {a \in absorbed : a.span \in Ready}
  /\ UNCHANGED <<disabled, transaction, limits, ended, sent, work, scoping>>

Accepted ==
  /\ batch # {}
  /\ sent' = sent \union batch /\ batch' = {}
  /\ absorbed' = absorbed \ carried /\ carried' = {}
  /\ UNCHANGED <<disabled, transaction, count, sqlCount, groups, ended, chained, work, scoping>>

\* The marks are taken back; the next pass takes the spans that are still listed.
FailsForNow ==
  /\ batch # {} /\ batch' = {} /\ carried' = {}
  /\ absorbed' = {a \in absorbed : a.span \in ended}
  /\ UNCHANGED <<disabled, transaction, count, sqlCount, groups, ended, chained, sent,
                 work, scoping>>

\* The tracer is off for good. A list that the client does not clear stays.
FailsForGood(clears) ==
  /\ batch # {}
  /\ disabled' = TRUE /\ batch' = {} /\ carried' = {}
  /\ ended' = IF clears THEN {} ELSE ended
  /\ absorbed' = {a \in absorbed : a.span \in ended'}
  /\ UNCHANGED <<transaction, count, sqlCount, groups, chained, sent, work, scoping>>

\* disable, by a policy or by the answer to another signal.
Disable ==
  /\ disabled' = TRUE /\ EmptiesList
  /\ UNCHANGED <<transaction, count, sqlCount, groups, chained, wire, work, scoping>>

\* captureException and captureMessage of an error.
Capture ==
  /\ MarkError
  /\ UNCHANGED <<disabled, context, root, rootEnded, limits, ended, chained, wire, work,
                 scoping>>

Next ==
  \/ \E r \in Requests :
       \/ \E b \in BOOLEAN : RequestBegins(r, b) \/ RequestEnds(r, b)
       \/ RootSpanEnds(r)
  \/ \E c \in Calls :
       \/ OutgoingCall(c) \/ Prepare(c) \/ ModelCall(c)
       \/ \E b \in BOOLEAN : CallEnds(c, b)
  \/ \E q \in Queries : QueryBegins(q) \/ QueryFails(q) \/ \E b \in BOOLEAN : QueryEnds(q, b)
  \/ ScopeBegins \/ \E b \in BOOLEAN : SetRecordQuerySpans(b)
  \/ \E i \in 1 .. Len(scopes) : ScopeEnds(i)
  \/ Flush \/ StartPass \/ Accepted \/ FailsForNow
  \/ \E b \in BOOLEAN : FailsForGood(b)
  \/ Disable \/ Capture

Spec == Init /\ [][Next]_tracer

-----------------------------------------------------------------------------
(* Properties. *)

TypeOK ==
  /\ disabled \in BOOLEAN /\ sampled \in BOOLEAN
  /\ recording \in Switch
  /\ context \in Requests \union {None} /\ root \in Requests \union {None}
  /\ rootEnded \subseteq Requests
  /\ count \in 0 .. MaxSpans /\ sqlCount \in 0 .. MaxSql /\ sqlCount <= count
  /\ groups \subseteq Span /\ ended \subseteq Span
  /\ batch \subseteq Span /\ sent \subseteq Span
  /\ absorbed \subseteq Absorption /\ carried \subseteq absorbed
  /\ chained \in 0 .. MaxChained
  /\ request \in [Requests -> {"new", "open", "done"}]
  /\ calls \in [Calls -> {"new", "prepared", "untraced", "done"} \union Requests]
  /\ queries \in [Queries -> {"new", "done"} \union Requests]
  /\ scopes \in Seq(Scope) /\ Len(scopes) <= MaxScopes

\* Queries never take the spans that are kept for the rest: a call is dropped
\* only after Reserved others were recorded, in whichever order spans begin and
\* end.
RoomForOthers == count >= MaxSpans => count - sqlCount >= Reserved

\* What the server has of a span is what the span counts: a query is never counted in
\* a span that was already written for a request, where nothing would tell the server,
\* however often that request is refused and posted again, and whatever was reset and
\* begun meanwhile.  And a span that can absorb is in the list.  (When the list is
\* emptied, what its spans count is lost with them.)
AbsorbedArrives ==
  /\ \A a \in absorbed : a.span \notin sent
  /\ ~disabled => groups \subseteq ended

\* withoutQuerySpans and setRecordQuerySpans "turn automatic SQL spans off for one
\* run": when the calls of withoutQuerySpans have settled, no call has left the
\* switch off - whatever the order in which the calls ended, as long as the last to
\* end was not one that began within another and found it off ("lost"), and whatever
\* requests and the site did to the switch meanwhile.
ScopesRestore == scopes = <<>> => recording # "call"

\* "Node.js - ... incoming HTTP SERVER spans": the span of a request that has been
\* answered, and whose transaction is kept, waits to be sent or was sent.
AnsweredIsSent ==
  \A r \in Requests :
    request[r] = "done" /\ sampled /\ ~disabled =>
      SpanOf(r, "root") \in ended \union batch \union sent
==============================================================================
