--------------------------- MODULE NodeTracerProofs ---------------------------
(***************************************************************************)
(* Theorems about NodeTracer, for any sets of requests, calls and queries  *)
(* and any limits that NodeAssumption allows.                              *)
(***************************************************************************)
EXTENDS NodeTracer, TLAPS

-----------------------------------------------------------------------------
(* Absorbed queries. *)

\* What is counted is not yet accepted, and what is in flight was written with all
\* that its spans count: a pass takes the counts of the moment, and from then on its
\* spans absorb nothing.
AbsorbedInv ==
  /\ AbsorbedArrives
  /\ carried \subseteq absorbed
  /\ \A a \in absorbed : a.span \in batch => a \in carried

\* A query is absorbed by a span that is neither in flight nor accepted.
LEMMA SpanEndsAbsorbs ==
  ASSUME AbsorbedInv, NEW q, NEW fast, SpanEnds(q, fast),
         UNCHANGED <<disabled, wire>>
  PROVE  AbsorbedInv'
<1> DEFINE span == SpanOf(queries[q], q)
           group == {g \in groups : g.trace = span.trace}
<1>1. /\ disabled' = disabled /\ batch' = batch /\ sent' = sent /\ carried' = carried
  BY DEF wire
<1>2. CASE /\ Absorbs(group)
           /\ absorbed' = absorbed \union {[query |-> q, span |-> g] : g \in group}
           /\ UNCHANGED <<ended, groups>>
  <2>1. ASSUME NEW a \in absorbed', a \notin absorbed
        PROVE  a.span \notin batch \union sent
    <3>1. PICK g \in group : a = [query |-> q, span |-> g]
      BY <1>2, <2>1
    <3>2. group \intersect (batch \union sent) = {}
      BY <1>2 DEF Absorbs
    <3> QED
      BY <3>1, <3>2
  <2> QED
    BY <1>1, <1>2, <2>1 DEF AbsorbedInv, AbsorbedArrives
<1>3. CASE /\ absorbed' = absorbed /\ ended' = ended \union {span}
           /\ groups' \subseteq groups \union {span}
  BY <1>1, <1>3 DEF AbsorbedInv, AbsorbedArrives
<1>4. CASE UNCHANGED <<ended, limits>>
  BY <1>1, <1>4 DEF limits, AbsorbedInv, AbsorbedArrives
<1>5. \/ /\ Absorbs(group)
         /\ absorbed' = absorbed \union {[query |-> q, span |-> g] : g \in group}
         /\ UNCHANGED <<ended, groups>>
      \/ /\ absorbed' = absorbed /\ ended' = ended \union {span}
         /\ groups' \subseteq groups \union {span}
      \/ UNCHANGED <<ended, limits>>
  BY DEF SpanEnds
<1> QED
  BY <1>2, <1>3, <1>4, <1>5

LEMMA AbsorbedStep ==
  ASSUME AbsorbedInv, [Next]_tracer
  PROVE  AbsorbedInv'
<1> USE DEF transaction, limits, wire, work, scoping
<1>1. ASSUME NEW r \in Requests, NEW b \in BOOLEAN, RequestBegins(r, b)
      PROVE  AbsorbedInv'
  BY <1>1 DEF RequestBegins, EmptiesList, AbsorbedInv, AbsorbedArrives
<1>2. ASSUME NEW r \in Requests, NEW b \in BOOLEAN, RequestEnds(r, b)
      PROVE  AbsorbedInv'
  BY <1>2 DEF RequestEnds, Reset, EmptiesList, Marked, MarkError, AbsorbedInv, AbsorbedArrives
<1>3. ASSUME NEW r \in Requests, RootSpanEnds(r)
      PROVE  AbsorbedInv'
  BY <1>3 DEF RootSpanEnds, AbsorbedInv, AbsorbedArrives
<1>4. ASSUME NEW c \in Calls, StartSpan(c)
      PROVE  AbsorbedInv'
  BY <1>4 DEF StartSpan, AbsorbedInv, AbsorbedArrives
<1>5. ASSUME NEW c \in Calls, Prepare(c)
      PROVE  AbsorbedInv'
  BY <1>5 DEF Prepare, AbsorbedInv, AbsorbedArrives
<1>6. ASSUME NEW c \in Calls, NEW b \in BOOLEAN, CallEnds(c, b)
      PROVE  AbsorbedInv'
  BY <1>6 DEF CallEnds, Marked, MarkError, AbsorbedInv, AbsorbedArrives
<1>7. ASSUME NEW q \in Queries, QueryBegins(q)
      PROVE  AbsorbedInv'
  BY <1>7 DEF QueryBegins, AbsorbedInv, AbsorbedArrives
<1>8. ASSUME NEW q \in Queries, QueryFails(q)
      PROVE  AbsorbedInv'
  BY <1>8, SpanEndsAbsorbs DEF QueryFails
<1>9. ASSUME NEW q \in Queries, NEW b \in BOOLEAN, QueryEnds(q, b)
      PROVE  AbsorbedInv'
  BY <1>9, SpanEndsAbsorbs DEF QueryEnds
<1>10. CASE ScopeBegins
  BY <1>10 DEF ScopeBegins, AbsorbedInv, AbsorbedArrives
<1>11. ASSUME NEW i \in 1 .. Len(scopes), ScopeEnds(i)
       PROVE  AbsorbedInv'
  BY <1>11 DEF ScopeEnds, AbsorbedInv, AbsorbedArrives
<1>12. CASE Flush
  BY <1>12 DEF Flush, AbsorbedInv, AbsorbedArrives
<1>13. CASE StartPass
  BY <1>13 DEF StartPass, Ready, AbsorbedInv, AbsorbedArrives
<1>14. CASE Accepted
  BY <1>14 DEF Accepted, AbsorbedInv, AbsorbedArrives
<1>15. CASE FailsForNow
  BY <1>15 DEF FailsForNow, AbsorbedInv, AbsorbedArrives
<1>16. ASSUME NEW b \in BOOLEAN, FailsForGood(b)
       PROVE  AbsorbedInv'
  BY <1>16 DEF FailsForGood, AbsorbedInv, AbsorbedArrives
<1>17. CASE Disable
  BY <1>17 DEF Disable, EmptiesList, AbsorbedInv, AbsorbedArrives
<1>18. CASE Capture
  BY <1>18 DEF Capture, MarkError, AbsorbedInv, AbsorbedArrives
<1>19. CASE UNCHANGED tracer
  BY <1>19 DEF tracer, AbsorbedInv, AbsorbedArrives
<1>20. ASSUME NEW b \in BOOLEAN, SetRecordQuerySpans(b)
       PROVE  AbsorbedInv'
  BY <1>20 DEF SetRecordQuerySpans, AbsorbedInv, AbsorbedArrives
<1> QED
  BY <1>20, <1>1, <1>2, <1>3, <1>4, <1>5, <1>6, <1>7, <1>8, <1>9, <1>10, <1>11,
     <1>12, <1>13, <1>14, <1>15, <1>16, <1>17, <1>18, <1>19
  DEF Next, OutgoingCall, ModelCall

\* A query is never counted in a span that was written for a request before, and a
\* span that absorbs is in the list (onSpanEnd, flushOnce, resetRequestState).
THEOREM AbsorbedIsCounted == Spec => []AbsorbedArrives
<1>1. Init => AbsorbedInv
  BY DEF Init, AbsorbedInv, AbsorbedArrives
<1>2. AbsorbedInv => AbsorbedArrives
  BY DEF AbsorbedInv
<1> QED
  BY <1>1, <1>2, AbsorbedStep, PTL DEF Spec

-----------------------------------------------------------------------------
(* Scopes without query spans. *)

\* A call of withoutQuerySpans that began alone found a switch that no call had
\* turned off.
AloneFoundOther ==
  /\ recording \in Switch /\ scopes \in Seq(Scope)
  /\ \A i \in 1 .. Len(scopes) : scopes[i].alone => scopes[i].found # "call"

LEMMA WithoutIsSeq ==
  ASSUME scopes \in Seq(Scope), NEW i \in 1 .. Len(scopes)
  PROVE  /\ Without(i) \in Seq(Scope)
         /\ Len(Without(i)) = Len(scopes) - 1
         /\ \A j \in 1 .. Len(scopes) - 1 :
              \E k \in 1 .. Len(scopes) : Without(i)[j] = scopes[k]
<1>1. Len(scopes) \in Nat /\ Len(scopes) - 1 \in Nat
  OBVIOUS
<1>2. ASSUME NEW j \in 1 .. Len(scopes) - 1
      PROVE  /\ scopes[j] \in Scope /\ scopes[j + 1] \in Scope
             /\ j \in 1 .. Len(scopes) /\ j + 1 \in 1 .. Len(scopes)
  BY <1>1
<1>3. Without(i) \in [1 .. Len(scopes) - 1 -> Scope]
  BY <1>2 DEF Without
<1>4. Without(i) \in Seq(Scope) /\ Len(Without(i)) = Len(scopes) - 1
  BY <1>1, <1>3
<1>5. ASSUME NEW j \in 1 .. Len(scopes) - 1
      PROVE  \E k \in 1 .. Len(scopes) : Without(i)[j] = scopes[k]
  BY <1>2 DEF Without
<1> QED
  BY <1>4, <1>5

LEMMA ScopeStep ==
  ASSUME AloneFoundOther, ScopesRestore, [Next]_tracer
  PROVE  AloneFoundOther' /\ ScopesRestore'
<1> USE DEF transaction, limits, wire, work, scoping
<1>1. ASSUME NEW r \in Requests, NEW b \in BOOLEAN, RequestBegins(r, b)
      PROVE  AloneFoundOther' /\ ScopesRestore'
  BY <1>1 DEF RequestBegins, Switch, AloneFoundOther, ScopesRestore
<1>2. ASSUME NEW r \in Requests, NEW b \in BOOLEAN, RequestEnds(r, b)
      PROVE  AloneFoundOther' /\ ScopesRestore'
  BY <1>2 DEF RequestEnds, Reset, Switch, Marked, MarkError, AloneFoundOther, ScopesRestore
<1>3. ASSUME NEW r \in Requests, RootSpanEnds(r)
      PROVE  AloneFoundOther' /\ ScopesRestore'
  BY <1>3 DEF RootSpanEnds, AloneFoundOther, ScopesRestore
<1>4. ASSUME NEW c \in Calls, StartSpan(c)
      PROVE  AloneFoundOther' /\ ScopesRestore'
  BY <1>4 DEF StartSpan, AloneFoundOther, ScopesRestore
<1>5. ASSUME NEW c \in Calls, Prepare(c)
      PROVE  AloneFoundOther' /\ ScopesRestore'
  BY <1>5 DEF Prepare, AloneFoundOther, ScopesRestore
<1>6. ASSUME NEW c \in Calls, NEW b \in BOOLEAN, CallEnds(c, b)
      PROVE  AloneFoundOther' /\ ScopesRestore'
  BY <1>6 DEF CallEnds, Marked, MarkError, AloneFoundOther, ScopesRestore
<1>7. ASSUME NEW q \in Queries, QueryBegins(q)
      PROVE  AloneFoundOther' /\ ScopesRestore'
  BY <1>7 DEF QueryBegins, AloneFoundOther, ScopesRestore
<1>8. ASSUME NEW q \in Queries, QueryFails(q)
      PROVE  AloneFoundOther' /\ ScopesRestore'
  BY <1>8 DEF QueryFails, SpanEnds, MarkError, AloneFoundOther, ScopesRestore
<1>9. ASSUME NEW q \in Queries, NEW b \in BOOLEAN, QueryEnds(q, b)
      PROVE  AloneFoundOther' /\ ScopesRestore'
  BY <1>9 DEF QueryEnds, SpanEnds, AloneFoundOther, ScopesRestore
<1>10. CASE ScopeBegins
  <2> DEFINE new == [found |-> recording, alone |-> scopes = <<>>]
  <2>1. scopes' = Append(scopes, new) /\ recording' = "call"
    BY <1>10 DEF ScopeBegins
  <2>2. scopes \in Seq(Scope) /\ recording \in Switch /\ Len(scopes) \in Nat
    BY DEF AloneFoundOther
  <2>3. new \in Scope
    BY <2>2 DEF Scope
  <2>4. new.alone => new.found # "call"
    BY DEF ScopesRestore
  <2>5. scopes' \in Seq(Scope) /\ Len(scopes') = Len(scopes) + 1 /\ scopes' # <<>>
    BY <2>1, <2>2, <2>3
  <2>6. ASSUME NEW i \in 1 .. Len(scopes')
        PROVE  scopes'[i].alone => scopes'[i].found # "call"
    <3>1. CASE i = Len(scopes) + 1
      <4>1. scopes'[i] = new
        BY <2>1, <2>2, <2>3, <3>1
      <4> QED
        BY <2>4, <4>1
    <3>2. CASE i # Len(scopes) + 1
      <4>1. i \in 1 .. Len(scopes)
        BY <2>2, <2>5, <3>2
      <4>2. scopes'[i] = scopes[i]
        BY <2>1, <2>2, <2>3, <4>1
      <4> QED
        BY <4>1, <4>2 DEF AloneFoundOther
    <3> QED
      BY <3>1, <3>2
  <2>7. recording' \in Switch
    BY <2>1 DEF Switch
  <2> QED
    BY <2>5, <2>6, <2>7 DEF AloneFoundOther, ScopesRestore
<1>11. ASSUME NEW i \in 1 .. Len(scopes), ScopeEnds(i)
       PROVE  AloneFoundOther' /\ ScopesRestore'
  <2>1. scopes' = Without(i) /\ recording' = Restored(i)
    BY <1>11 DEF ScopeEnds
  <2>2. scopes \in Seq(Scope) /\ scopes[i] \in Scope /\ Len(scopes) \in Nat
    BY DEF AloneFoundOther
  <2>3. /\ scopes' \in Seq(Scope) /\ Len(scopes') = Len(scopes) - 1
        /\ \A j \in 1 .. Len(scopes') : \E k \in 1 .. Len(scopes) : scopes'[j] = scopes[k]
    <3>1. /\ Without(i) \in Seq(Scope)
          /\ Len(Without(i)) = Len(scopes) - 1
          /\ \A j \in 1 .. Len(scopes) - 1 :
               \E k \in 1 .. Len(scopes) : Without(i)[j] = scopes[k]
      BY <2>2, WithoutIsSeq
    <3>2. Len(scopes') = Len(scopes) - 1
      BY <2>1, <3>1
    <3>3. \A j \in 1 .. Len(scopes') : \E k \in 1 .. Len(scopes) : scopes'[j] = scopes[k]
      BY <3>1, <3>2, <2>1, Zenon
    <3> QED
      BY <2>1, <3>1, <3>2, <3>3
  <2>4. \A j \in 1 .. Len(scopes') : scopes'[j].alone => scopes'[j].found # "call"
    BY <2>3 DEF AloneFoundOther
  <2>5. recording' \in Switch
    <3>1. scopes[i].found \in Switch
      BY <2>2 DEF Scope
    <3> QED
      BY <2>1, <3>1 DEF Restored, Switch
  <2>6. ASSUME scopes' = <<>> PROVE recording' # "call"
    <3>1. Len(scopes) = 1
      BY <2>2, <2>3, <2>6
    <3>2. scopes[i].alone => scopes[i].found # "call"
      BY DEF AloneFoundOther
    <3>3. scopes[i].alone \in BOOLEAN
      BY <2>2 DEF Scope
    <3> QED
      BY <2>1, <3>1, <3>2, <3>3 DEF Restored
  <2> QED
    BY <2>3, <2>4, <2>5, <2>6 DEF AloneFoundOther, ScopesRestore
<1>12. CASE Flush
  BY <1>12 DEF Flush, AloneFoundOther, ScopesRestore
<1>13. CASE StartPass
  BY <1>13 DEF StartPass, AloneFoundOther, ScopesRestore
<1>14. CASE Accepted
  BY <1>14 DEF Accepted, AloneFoundOther, ScopesRestore
<1>15. CASE FailsForNow
  BY <1>15 DEF FailsForNow, AloneFoundOther, ScopesRestore
<1>16. ASSUME NEW b \in BOOLEAN, FailsForGood(b)
       PROVE  AloneFoundOther' /\ ScopesRestore'
  BY <1>16 DEF FailsForGood, AloneFoundOther, ScopesRestore
<1>17. CASE Disable
  BY <1>17 DEF Disable, AloneFoundOther, ScopesRestore
<1>18. CASE Capture
  BY <1>18 DEF Capture, MarkError, AloneFoundOther, ScopesRestore
<1>19. CASE UNCHANGED tracer
  BY <1>19 DEF tracer, AloneFoundOther, ScopesRestore
<1>20. ASSUME NEW b \in BOOLEAN, SetRecordQuerySpans(b)
       PROVE  AloneFoundOther' /\ ScopesRestore'
  BY <1>20 DEF SetRecordQuerySpans, AloneFoundOther, ScopesRestore, Switch
<1> QED
  BY <1>20, <1>1, <1>2, <1>3, <1>4, <1>5, <1>6, <1>7, <1>8, <1>9, <1>10, <1>11,
     <1>12, <1>13, <1>14, <1>15, <1>16, <1>17, <1>18, <1>19
  DEF Next, OutgoingCall, ModelCall

LEMMA ScopesInit == Init => AloneFoundOther /\ ScopesRestore
<1> SUFFICES ASSUME Init PROVE AloneFoundOther /\ ScopesRestore
  OBVIOUS
<1>1. recording = "on" /\ scopes = <<>>
  BY DEF Init
<1>2. scopes \in Seq(Scope) /\ Len(scopes) = 0
  BY <1>1
<1>3. recording \in Switch
  BY <1>1 DEF Switch
<1> QED
  BY <1>1, <1>2, <1>3 DEF AloneFoundOther, ScopesRestore

\* When the calls of withoutQuerySpans have settled, none of them has left the query
\* switch off, whatever their order and whatever requests and setRecordQuerySpans did to
\* it, unless the last of them began within another and found it off by that.
THEOREM ScopesAreRestored == Spec => []ScopesRestore
<1> QED
  BY ScopesInit, ScopeStep, PTL DEF Spec

-----------------------------------------------------------------------------
(* The room for spans. *)

\* The counters keep to their limits.
Counters ==
  /\ count \in Nat /\ sqlCount \in Nat
  /\ sqlCount <= count /\ count <= MaxSpans /\ sqlCount <= MaxSql
  /\ RoomForOthers

LEMMA Limits ==
  MaxSpans \in Nat \ {0} /\ MaxSql \in Nat /\ Reserved \in Nat /\ MaxSql + Reserved <= MaxSpans
BY NodeAssumption DEF NodeAssumption

\* What is admitted as a query leaves the room that is kept for the rest.
LEMMA AdmittedLeavesRoom ==
  ASSUME Counters, CanAdmitSql, count' = count + 1, sqlCount' = sqlCount + 1
  PROVE  Counters'
<1>1. /\ count \in Nat /\ sqlCount \in Nat /\ sqlCount <= count
      /\ sqlCount < MaxSql /\ count < MaxSpans
  BY DEF Counters, CanAdmitSql
<1>2. count + 1 >= MaxSpans => count - sqlCount >= Reserved
  <2>1. CASE count - sqlCount >= Reserved
    BY <2>1
  <2>2. CASE ~(count - sqlCount >= Reserved)
    <3>1. count - sqlCount < Reserved
      BY <1>1, <2>2, Limits
    <3>2. count + (Reserved - (count - sqlCount)) < MaxSpans
      BY <3>1 DEF CanAdmitSql
    <3> QED
      BY <1>1, <3>1, <3>2, Limits
  <2> QED
    BY <2>1, <2>2
<1> QED
  BY <1>1, <1>2, Limits DEF Counters, RoomForOthers

LEMMA SpanEndsCounts ==
  ASSUME Counters, NEW q, NEW fast, SpanEnds(q, fast)
  PROVE  Counters'
<1> USE DEF limits
<1>1. \/ UNCHANGED <<count, sqlCount>>
      \/ CanAdmitSql /\ count' = count + 1 /\ sqlCount' = sqlCount + 1
  BY DEF SpanEnds
<1>2. CASE UNCHANGED <<count, sqlCount>>
  BY <1>2 DEF Counters, RoomForOthers
<1> QED
  BY <1>1, <1>2, AdmittedLeavesRoom

LEMMA CounterStep ==
  ASSUME Counters, [Next]_tracer
  PROVE  Counters'
<1> USE DEF transaction, limits, wire, work, scoping
<1>1. ASSUME NEW r \in Requests, NEW b \in BOOLEAN, RequestBegins(r, b)
      PROVE  Counters'
  <2>1. sqlCount' = 0 /\ (count' = 0 \/ count' = 1)
    <3>1. CASE disabled
      BY <1>1, <3>1 DEF RequestBegins
    <3>2. CASE ~disabled
      BY <1>1, <3>2 DEF RequestBegins
    <3> QED
      BY <3>1, <3>2
  <2> QED
    BY <2>1, Limits DEF Counters, RoomForOthers
<1>2. ASSUME NEW r \in Requests, NEW b \in BOOLEAN, RequestEnds(r, b)
      PROVE  Counters'
  <2>1. sqlCount' = 0 /\ count' = 0
    BY <1>2 DEF RequestEnds, Reset
  <2> QED
    BY <2>1, Limits DEF Counters, RoomForOthers
<1>3. ASSUME NEW r \in Requests, RootSpanEnds(r)
      PROVE  Counters'
  BY <1>3 DEF RootSpanEnds, Counters, RoomForOthers
<1>4. ASSUME NEW c \in Calls, StartSpan(c)
      PROVE  Counters'
  <2>1. /\ sqlCount' = sqlCount
        /\ count' = count \/ (count < MaxSpans /\ count' = count + 1)
    <3>1. CASE context = None \/ disabled \/ count >= MaxSpans
      BY <1>4, <3>1 DEF StartSpan
    <3>2. CASE ~(context = None \/ disabled \/ count >= MaxSpans)
      BY <1>4, <3>2, Limits DEF StartSpan, Counters
    <3> QED
      BY <3>1, <3>2
  <2> QED
    BY <2>1, Limits DEF Counters, RoomForOthers
<1>5. ASSUME NEW c \in Calls, Prepare(c)
      PROVE  Counters'
  BY <1>5 DEF Prepare, Counters, RoomForOthers
<1>6. ASSUME NEW c \in Calls, NEW b \in BOOLEAN, CallEnds(c, b)
      PROVE  Counters'
  BY <1>6 DEF CallEnds, Marked, MarkError, Counters, RoomForOthers
<1>7. ASSUME NEW q \in Queries, QueryBegins(q)
      PROVE  Counters'
  BY <1>7 DEF QueryBegins, Counters, RoomForOthers
<1>8. ASSUME NEW q \in Queries, QueryFails(q)
      PROVE  Counters'
  BY <1>8, SpanEndsCounts DEF QueryFails
<1>9. ASSUME NEW q \in Queries, NEW b \in BOOLEAN, QueryEnds(q, b)
      PROVE  Counters'
  BY <1>9, SpanEndsCounts DEF QueryEnds
<1>10. CASE ScopeBegins
  BY <1>10 DEF ScopeBegins, Counters, RoomForOthers
<1>11. ASSUME NEW i \in 1 .. Len(scopes), ScopeEnds(i)
       PROVE  Counters'
  BY <1>11 DEF ScopeEnds, Counters, RoomForOthers
<1>12. CASE Flush
  BY <1>12 DEF Flush, Counters, RoomForOthers
<1>13. CASE StartPass
  BY <1>13 DEF StartPass, Counters, RoomForOthers
<1>14. CASE Accepted
  BY <1>14 DEF Accepted, Counters, RoomForOthers
<1>15. CASE FailsForNow
  BY <1>15 DEF FailsForNow, Counters, RoomForOthers
<1>16. ASSUME NEW b \in BOOLEAN, FailsForGood(b)
       PROVE  Counters'
  BY <1>16 DEF FailsForGood, Counters, RoomForOthers
<1>17. CASE Disable
  BY <1>17 DEF Disable, Counters, RoomForOthers
<1>18. CASE Capture
  BY <1>18 DEF Capture, MarkError, Counters, RoomForOthers
<1>19. CASE UNCHANGED tracer
  BY <1>19 DEF tracer, Counters, RoomForOthers
<1>20. ASSUME NEW b \in BOOLEAN, SetRecordQuerySpans(b)
       PROVE  Counters'
  BY <1>20 DEF SetRecordQuerySpans, Counters, RoomForOthers
<1> QED
  BY <1>20, <1>1, <1>2, <1>3, <1>4, <1>5, <1>6, <1>7, <1>8, <1>9, <1>10, <1>11,
     <1>12, <1>13, <1>14, <1>15, <1>16, <1>17, <1>18, <1>19
  DEF Next, OutgoingCall, ModelCall

\* A span that is no query is dropped for want of room only after as many of them
\* as were reserved (canAdmitSql, createSpan).
THEOREM RoomIsKept == Spec => []RoomForOthers
<1>1. Init => Counters
  BY Limits DEF Init, Counters, RoomForOthers
<1>2. Counters => RoomForOthers
  BY DEF Counters
<1> QED
  BY <1>1, <1>2, CounterStep, PTL DEF Spec

-----------------------------------------------------------------------------
(* Types. *)

\* The flags.
Switches == disabled \in BOOLEAN /\ sampled \in BOOLEAN

\* The bounds of the model.
Bounds == chained \in 0 .. MaxChained /\ Len(scopes) <= MaxScopes

\* Who a thing belongs to.
Owners ==
  /\ context \in Requests \union {None} /\ root \in Requests \union {None}
  /\ rootEnded \subseteq Requests
  /\ request \in [Requests -> {"new", "open", "done"}]
  /\ calls \in [Calls -> {"new", "prepared", "untraced", "done"} \union Requests]
  /\ queries \in [Queries -> {"new", "done"} \union Requests]

Lists ==
  /\ groups \subseteq Span /\ ended \subseteq Span
  /\ batch \subseteq Span /\ sent \subseteq Span
  /\ absorbed \subseteq Absorption

LEMMA SwitchesStep ==
  ASSUME Switches, [Next]_tracer
  PROVE  Switches'
<1> USE DEF transaction, limits, wire, work, scoping
<1>1. ASSUME NEW r \in Requests, NEW b \in BOOLEAN, RequestBegins(r, b)
      PROVE  Switches'
  BY <1>1 DEF RequestBegins, Switches
<1>2. ASSUME NEW r \in Requests, NEW b \in BOOLEAN, RequestEnds(r, b)
      PROVE  Switches'
  BY <1>2 DEF RequestEnds, Reset, Marked, MarkError, Switches
<1>3. ASSUME NEW r \in Requests, RootSpanEnds(r)
      PROVE  Switches'
  BY <1>3 DEF RootSpanEnds, Switches
<1>4. ASSUME NEW c \in Calls, StartSpan(c)
      PROVE  Switches'
  BY <1>4 DEF StartSpan, Switches
<1>5. ASSUME NEW c \in Calls, Prepare(c)
      PROVE  Switches'
  BY <1>5 DEF Prepare, Switches
<1>6. ASSUME NEW c \in Calls, NEW b \in BOOLEAN, CallEnds(c, b)
      PROVE  Switches'
  BY <1>6 DEF CallEnds, Marked, MarkError, Switches
<1>7. ASSUME NEW q \in Queries, QueryBegins(q)
      PROVE  Switches'
  BY <1>7 DEF QueryBegins, Switches
<1>8. ASSUME NEW q \in Queries, QueryFails(q)
      PROVE  Switches'
  BY <1>8 DEF QueryFails, SpanEnds, MarkError, Switches
<1>9. ASSUME NEW q \in Queries, NEW b \in BOOLEAN, QueryEnds(q, b)
      PROVE  Switches'
  BY <1>9 DEF QueryEnds, SpanEnds, Switches
<1>10. CASE ScopeBegins
  BY <1>10 DEF ScopeBegins, Switches
<1>11. ASSUME NEW i \in 1 .. Len(scopes), ScopeEnds(i)
       PROVE  Switches'
  BY <1>11 DEF ScopeEnds, Switches
<1>12. CASE Flush
  BY <1>12 DEF Flush, Switches
<1>13. CASE StartPass
  BY <1>13 DEF StartPass, Switches
<1>14. CASE Accepted
  BY <1>14 DEF Accepted, Switches
<1>15. CASE FailsForNow
  BY <1>15 DEF FailsForNow, Switches
<1>16. ASSUME NEW b \in BOOLEAN, FailsForGood(b)
       PROVE  Switches'
  BY <1>16 DEF FailsForGood, Switches
<1>17. CASE Disable
  BY <1>17 DEF Disable, Switches
<1>18. CASE Capture
  BY <1>18 DEF Capture, MarkError, Switches
<1>19. CASE UNCHANGED tracer
  BY <1>19 DEF tracer, Switches
<1>20. ASSUME NEW b \in BOOLEAN, SetRecordQuerySpans(b)
       PROVE  Switches'
  BY <1>20 DEF SetRecordQuerySpans, Switches
<1> QED
  BY <1>20, <1>1, <1>2, <1>3, <1>4, <1>5, <1>6, <1>7, <1>8, <1>9, <1>10, <1>11,
     <1>12, <1>13, <1>14, <1>15, <1>16, <1>17, <1>18, <1>19
  DEF Next, OutgoingCall, ModelCall

LEMMA BoundsStep ==
  ASSUME Bounds, AloneFoundOther, [Next]_tracer
  PROVE  Bounds'
<1> USE DEF transaction, limits, wire, work, scoping
<1>0. MaxChained \in Nat \ {0} /\ MaxScopes \in Nat
  BY NodeAssumption DEF NodeAssumption
<1>1. ASSUME NEW r \in Requests, NEW b \in BOOLEAN, RequestBegins(r, b)
      PROVE  Bounds'
  BY <1>1 DEF RequestBegins, Bounds
<1>2. ASSUME NEW r \in Requests, NEW b \in BOOLEAN, RequestEnds(r, b)
      PROVE  Bounds'
  BY <1>0, <1>2 DEF RequestEnds, Reset, Chain, Bounds
<1>3. ASSUME NEW r \in Requests, RootSpanEnds(r)
      PROVE  Bounds'
  BY <1>3 DEF RootSpanEnds, Bounds
<1>4. ASSUME NEW c \in Calls, StartSpan(c)
      PROVE  Bounds'
  BY <1>4 DEF StartSpan, Bounds
<1>5. ASSUME NEW c \in Calls, Prepare(c)
      PROVE  Bounds'
  BY <1>5 DEF Prepare, Bounds
<1>6. ASSUME NEW c \in Calls, NEW b \in BOOLEAN, CallEnds(c, b)
      PROVE  Bounds'
  BY <1>6 DEF CallEnds, Marked, MarkError, Bounds
<1>7. ASSUME NEW q \in Queries, QueryBegins(q)
      PROVE  Bounds'
  BY <1>7 DEF QueryBegins, Bounds
<1>8. ASSUME NEW q \in Queries, QueryFails(q)
      PROVE  Bounds'
  BY <1>8 DEF QueryFails, SpanEnds, MarkError, Bounds
<1>9. ASSUME NEW q \in Queries, NEW b \in BOOLEAN, QueryEnds(q, b)
      PROVE  Bounds'
  BY <1>9 DEF QueryEnds, SpanEnds, Bounds
<1>10. CASE ScopeBegins
  <2>1. scopes \in Seq(Scope) /\ Len(scopes) \in Nat
    BY DEF AloneFoundOther
  <2>2. Len(scopes') = Len(scopes) + 1
    BY <1>10, <2>1 DEF ScopeBegins
  <2>3. Len(scopes) < MaxScopes /\ chained' = chained
    BY <1>10 DEF ScopeBegins
  <2> QED
    BY <1>0, <2>1, <2>2, <2>3 DEF Bounds
<1>11. ASSUME NEW i \in 1 .. Len(scopes), ScopeEnds(i)
       PROVE  Bounds'
  <2>1. scopes \in Seq(Scope) /\ Len(scopes) \in Nat
    BY DEF AloneFoundOther
  <2>2. scopes' = Without(i) /\ chained' = chained
    BY <1>11 DEF ScopeEnds
  <2>3. Len(scopes') = Len(scopes) - 1
    BY <2>1, <2>2, WithoutIsSeq
  <2> QED
    BY <1>0, <2>1, <2>2, <2>3 DEF Bounds
<1>12. CASE Flush
  BY <1>0, <1>12 DEF Flush, Chain, Bounds
<1>13. CASE StartPass
  BY <1>0, <1>13 DEF StartPass, Bounds
<1>14. CASE Accepted
  BY <1>14 DEF Accepted, Bounds
<1>15. CASE FailsForNow
  BY <1>15 DEF FailsForNow, Bounds
<1>16. ASSUME NEW b \in BOOLEAN, FailsForGood(b)
       PROVE  Bounds'
  BY <1>16 DEF FailsForGood, Bounds
<1>17. CASE Disable
  BY <1>17 DEF Disable, Bounds
<1>18. CASE Capture
  BY <1>18 DEF Capture, MarkError, Bounds
<1>19. CASE UNCHANGED tracer
  BY <1>19 DEF tracer, Bounds
<1>20. ASSUME NEW b \in BOOLEAN, SetRecordQuerySpans(b)
       PROVE  Bounds'
  BY <1>20 DEF SetRecordQuerySpans, Bounds
<1> QED
  BY <1>20, <1>1, <1>2, <1>3, <1>4, <1>5, <1>6, <1>7, <1>8, <1>9, <1>10, <1>11,
     <1>12, <1>13, <1>14, <1>15, <1>16, <1>17, <1>18, <1>19
  DEF Next, OutgoingCall, ModelCall

LEMMA OwnersStep ==
  ASSUME Owners, [Next]_tracer
  PROVE  Owners'
<1> USE DEF transaction, limits, wire, work, scoping
<1>1. ASSUME NEW r \in Requests, NEW b \in BOOLEAN, RequestBegins(r, b)
      PROVE  Owners'
  BY <1>1 DEF RequestBegins, Owners, OpenRoot
<1>2. ASSUME NEW r \in Requests, NEW b \in BOOLEAN, RequestEnds(r, b)
      PROVE  Owners'
  BY <1>2 DEF RequestEnds, Reset, Marked, MarkError, Owners, OpenRoot
<1>3. ASSUME NEW r \in Requests, RootSpanEnds(r)
      PROVE  Owners'
  BY <1>3 DEF RootSpanEnds, Owners, OpenRoot
<1>4. ASSUME NEW c \in Calls, StartSpan(c)
      PROVE  Owners'
  BY <1>4 DEF StartSpan, Owners, OpenRoot
<1>5. ASSUME NEW c \in Calls, Prepare(c)
      PROVE  Owners'
  BY <1>5 DEF Prepare, Owners, OpenRoot
<1>6. ASSUME NEW c \in Calls, NEW b \in BOOLEAN, CallEnds(c, b)
      PROVE  Owners'
  BY <1>6 DEF CallEnds, Marked, MarkError, Owners, OpenRoot
<1>7. ASSUME NEW q \in Queries, QueryBegins(q)
      PROVE  Owners'
  BY <1>7 DEF QueryBegins, Owners, OpenRoot
<1>8. ASSUME NEW q \in Queries, QueryFails(q)
      PROVE  Owners'
  BY <1>8 DEF QueryFails, SpanEnds, MarkError, Owners, OpenRoot
<1>9. ASSUME NEW q \in Queries, NEW b \in BOOLEAN, QueryEnds(q, b)
      PROVE  Owners'
  BY <1>9 DEF QueryEnds, SpanEnds, Owners, OpenRoot
<1>10. CASE ScopeBegins
  BY <1>10 DEF ScopeBegins, Owners, OpenRoot
<1>11. ASSUME NEW i \in 1 .. Len(scopes), ScopeEnds(i)
       PROVE  Owners'
  BY <1>11 DEF ScopeEnds, Owners, OpenRoot
<1>12. CASE Flush
  BY <1>12 DEF Flush, Owners, OpenRoot
<1>13. CASE StartPass
  BY <1>13 DEF StartPass, Owners, OpenRoot
<1>14. CASE Accepted
  BY <1>14 DEF Accepted, Owners, OpenRoot
<1>15. CASE FailsForNow
  BY <1>15 DEF FailsForNow, Owners, OpenRoot
<1>16. ASSUME NEW b \in BOOLEAN, FailsForGood(b)
       PROVE  Owners'
  BY <1>16 DEF FailsForGood, Owners, OpenRoot
<1>17. CASE Disable
  BY <1>17 DEF Disable, Owners, OpenRoot
<1>18. CASE Capture
  BY <1>18 DEF Capture, MarkError, Owners, OpenRoot
<1>19. CASE UNCHANGED tracer
  BY <1>19 DEF tracer, Owners, OpenRoot
<1>20. ASSUME NEW b \in BOOLEAN, SetRecordQuerySpans(b)
       PROVE  Owners'
  BY <1>20 DEF SetRecordQuerySpans, Owners, OpenRoot
<1> QED
  BY <1>20, <1>1, <1>2, <1>3, <1>4, <1>5, <1>6, <1>7, <1>8, <1>9, <1>10, <1>11,
     <1>12, <1>13, <1>14, <1>15, <1>16, <1>17, <1>18, <1>19
  DEF Next, OutgoingCall, ModelCall

LEMMA ListsStep ==
  ASSUME Lists, AbsorbedInv, Owners, [Next]_tracer
  PROVE  Lists'
<1> USE DEF transaction, limits, wire, work, scoping
<1>1. ASSUME NEW r \in Requests, NEW b \in BOOLEAN, RequestBegins(r, b)
      PROVE  Lists'
  BY <1>1 DEF RequestBegins, EmptiesList, AbsorbedInv, Lists, Owners, Span, SpanOf, Ready, Absorption
<1>2. ASSUME NEW r \in Requests, NEW b \in BOOLEAN, RequestEnds(r, b)
      PROVE  Lists'
  BY <1>2 DEF RequestEnds, Reset, EmptiesList, AbsorbedInv, Marked, MarkError, Lists, Owners, Span, SpanOf, Ready, Absorption
<1>3. ASSUME NEW r \in Requests, RootSpanEnds(r)
      PROVE  Lists'
  BY <1>3 DEF RootSpanEnds, Lists, Owners, Span, SpanOf, Ready, Absorption
<1>4. ASSUME NEW c \in Calls, StartSpan(c)
      PROVE  Lists'
  BY <1>4 DEF StartSpan, Lists, Owners, Span, SpanOf, Ready, Absorption
<1>5. ASSUME NEW c \in Calls, Prepare(c)
      PROVE  Lists'
  BY <1>5 DEF Prepare, Lists, Owners, Span, SpanOf, Ready, Absorption
<1>6. ASSUME NEW c \in Calls, NEW b \in BOOLEAN, CallEnds(c, b)
      PROVE  Lists'
  BY <1>6 DEF CallEnds, Marked, MarkError, Lists, Owners, Span, SpanOf, Ready, Absorption
<1>7. ASSUME NEW q \in Queries, QueryBegins(q)
      PROVE  Lists'
  BY <1>7 DEF QueryBegins, Lists, Owners, Span, SpanOf, Ready, Absorption
<1>8. ASSUME NEW q \in Queries, QueryFails(q)
      PROVE  Lists'
  BY <1>8 DEF QueryFails, SpanEnds, MarkError, Lists, Owners, Span, SpanOf, Ready, Absorption
<1>9. ASSUME NEW q \in Queries, NEW b \in BOOLEAN, QueryEnds(q, b)
      PROVE  Lists'
  BY <1>9 DEF QueryEnds, SpanEnds, Lists, Owners, Span, SpanOf, Ready, Absorption
<1>10. CASE ScopeBegins
  BY <1>10 DEF ScopeBegins, Lists, Owners, Span, SpanOf, Ready, Absorption
<1>11. ASSUME NEW i \in 1 .. Len(scopes), ScopeEnds(i)
       PROVE  Lists'
  BY <1>11 DEF ScopeEnds, Lists, Owners, Span, SpanOf, Ready, Absorption
<1>12. CASE Flush
  BY <1>12 DEF Flush, Lists, Owners, Span, SpanOf, Ready, Absorption
<1>13. CASE StartPass
  BY <1>13 DEF StartPass, Lists, Owners, Span, SpanOf, Ready, Absorption
<1>14. CASE Accepted
  BY <1>14 DEF Accepted, Lists, Owners, Span, SpanOf, Ready, Absorption
<1>15. CASE FailsForNow
  BY <1>15 DEF FailsForNow, Lists, Owners, Span, SpanOf, Ready, Absorption
<1>16. ASSUME NEW b \in BOOLEAN, FailsForGood(b)
       PROVE  Lists'
  BY <1>16 DEF FailsForGood, Lists, Owners, Span, SpanOf, Ready, Absorption
<1>17. CASE Disable
  BY <1>17 DEF Disable, EmptiesList, AbsorbedInv, Lists, Owners, Span, SpanOf, Ready, Absorption
<1>18. CASE Capture
  BY <1>18 DEF Capture, MarkError, Lists, Owners, Span, SpanOf, Ready, Absorption
<1>19. CASE UNCHANGED tracer
  BY <1>19 DEF tracer, Lists, Owners, Span, SpanOf, Ready, Absorption
<1>20. ASSUME NEW b \in BOOLEAN, SetRecordQuerySpans(b)
       PROVE  Lists'
  BY <1>20 DEF SetRecordQuerySpans, Lists, Absorption
<1> QED
  BY <1>20, <1>1, <1>2, <1>3, <1>4, <1>5, <1>6, <1>7, <1>8, <1>9, <1>10, <1>11,
     <1>12, <1>13, <1>14, <1>15, <1>16, <1>17, <1>18, <1>19
  DEF Next, OutgoingCall, ModelCall

Types ==
  Switches /\ Bounds /\ AloneFoundOther /\ ScopesRestore /\ Owners /\ Lists /\ AbsorbedInv
    /\ Counters

LEMMA TypesInit == Init => Types
<1> SUFFICES ASSUME Init PROVE Types
  OBVIOUS
<1>1. Switches
  BY DEF Init, Switches
<1>2. Bounds
  BY NodeAssumption DEF Init, Bounds, NodeAssumption
<1>3. AloneFoundOther /\ ScopesRestore
  BY ScopesInit
<1>4. Owners /\ Lists
  BY DEF Init, Owners, Lists
<1>6. AbsorbedInv
  BY DEF Init, AbsorbedInv, AbsorbedArrives
<1>5. Counters
  BY Limits DEF Init, Counters, RoomForOthers
<1> QED
  BY <1>1, <1>2, <1>3, <1>4, <1>5, <1>6 DEF Types

\* Every variable keeps its type, the counters keep to MAX_SPANS and MAX_SQL_SPANS,
\* and a transaction never counts more queries than spans.
THEOREM TypeCorrect == Spec => []TypeOK
<1>1. Types /\ [Next]_tracer => Types'
  BY SwitchesStep, BoundsStep, ScopeStep, OwnersStep, ListsStep, AbsorbedStep, CounterStep
  DEF Types
<1>2. ASSUME Types PROVE TypeOK
  <2>1. count \in 0 .. MaxSpans /\ sqlCount \in 0 .. MaxSql /\ sqlCount <= count
    BY <1>2, Limits DEF Types, Counters
  <2> QED
    BY <1>2, <2>1 
       DEF Types, Switches, Bounds, AloneFoundOther, Owners, Lists, AbsorbedInv, TypeOK
<1> QED
  BY <1>1, <1>2, TypesInit, PTL DEF Spec
=============================================================================
