----------------------------- MODULE BrowserProofs -----------------------------
(***************************************************************************)
(* What holds of the parts of the browser client beside its queues, its    *)
(* tracer and its replays, for every set of documents, failures, paths and *)
(* clicks and for all limits: of the policy (Policy), the network failures *)
(* and the rejections they explain (Network), and the heatmap (Heatmaps).  *)
(***************************************************************************)
EXTENDS Policy, Network, Heatmaps, SequenceTheorems, FiniteSetTheorems, FunctionTheorems,
        WellFoundedInduction, TLAPS

-----------------------------------------------------------------------------
(***************************************************************************)
(* The policy.  No property here is inductive alone: that a page with no   *)
(* policy sends errors only, and that a quiet page sends nothing, both     *)
(* rest on the switches having been closed before the first request could  *)
(* start.                                                                  *)
(***************************************************************************)
\* Before the policy is read nothing is in flight.
NothingBeforePolicy == fetching = "bootstrap" => inflight = {}

\* A quiet page has every switch closed and no answer to wait for.
Closed ==
  silent => /\ inflight = {} /\ fetching = "no"
            /\ ingestDisabled /\ replayDisabled
            /\ tracer # "on" /\ analytics = "killed"

\* Until a document is applied only the switch of events is open, and that of
\* analytics where the site opened it.
OnlyEventsOpen ==
  applied = {} => /\ inflight \subseteq {"events", "analytics"}
                  /\ "analytics" \in inflight => optedIn
                  /\ tracer # "on" /\ ~recording
                  /\ analytics = "on" => optedIn

PolicyInv == TypeOK /\ NothingBeforePolicy /\ Closed /\ OnlyEventsOpen

-----------------------------------------------------------------------------
(* The operators of the policy.                                            *)

LEMMA EntryTypes ==
  /\ NoDocument \in Document
  /\ Nothing \in Entry
  /\ Tombstone \in Entry
  /\ \A d \in Documents : d \in Document /\ Cached(d) \in Entry
BY PolicyAssumption DEF NoDocument, Document, Switch, Nothing, Entry, Tombstone, Cached

\* Stopping closes every switch, and says so in the right types.
LEMMA StopEverythingCloses ==
  ASSUME TypeOK, StopEverything
  PROVE  /\ ingestDisabled' = TRUE /\ replayDisabled' = TRUE
         /\ tracer' \in {"none", "off"} /\ analytics' = "killed"
         /\ recording' = recording
BY DEF TypeOK, StopEverything, StopTracer

\* Applying a document keeps the types and opens neither events nor analytics
\* once they were closed.
LEMMA ApplyKeeps ==
  ASSUME TypeOK, NEW d \in Document, Apply(d)
  PROVE  /\ applied' = {d}
         /\ ingestDisabled' \in BOOLEAN /\ (ingestDisabled => ingestDisabled')
         /\ replayDisabled' \in BOOLEAN /\ recording' \in BOOLEAN
         /\ tracer' \in {"none", "on", "off"}
         /\ analytics' \in {"off", "on", "killed"}
         /\ (analytics = "killed" => analytics' = "killed")
<1>1. CASE ~d.active
  BY <1>1, StopEverythingCloses DEF Apply, TypeOK
<1>2. CASE d.active
  <2>1. d.replay \in Switch
    BY DEF Document
  <2>2. replayDisabled' \in BOOLEAN /\ recording' \in BOOLEAN
    BY <1>2, <2>1 DEF Apply, Follow, FollowReplay, TypeOK, Switch
  <2>3. QED
    BY <1>2, <2>2 DEF Apply, Follow, KeepEvents, TypeOK
<1>3. QED
  BY <1>1, <1>2

\* Stopping one signal opens no switch.
LEMMA StopOneCloses ==
  ASSUME TypeOK, NEW s \in Signal, StopOne(s)
  PROVE  /\ ingestDisabled' \in BOOLEAN /\ (ingestDisabled => ingestDisabled')
         /\ replayDisabled' \in BOOLEAN /\ (replayDisabled => replayDisabled')
         /\ tracer' \in {"none", "on", "off"} /\ (tracer # "on" => tracer' # "on")
         /\ analytics' \in {"off", "on", "killed"}
         /\ (analytics = "killed" => analytics' = "killed")
         /\ (analytics # "on" => analytics' # "on")
         /\ recording' = recording
BY DEF TypeOK, StopOne, StopTracer, Signal

\* So does a permanent refusal, whichever of its branches is taken.
LEMMA RefusedForGoodCloses ==
  ASSUME TypeOK, NEW s \in Signal, NEW key \in BOOLEAN, RefusedForGood(s, key)
  PROVE  /\ ingestDisabled' \in BOOLEAN /\ (ingestDisabled => ingestDisabled')
         /\ replayDisabled' \in BOOLEAN /\ (replayDisabled => replayDisabled')
         /\ tracer' \in {"none", "on", "off"} /\ (tracer # "on" => tracer' # "on")
         /\ analytics' \in {"off", "on", "killed"}
         /\ (analytics = "killed" => analytics' = "killed")
         /\ (analytics # "on" => analytics' # "on")
         /\ recording' = recording
<1>1. CASE StopOne(s)
  BY <1>1, StopOneCloses DEF RefusedForGood, TypeOK
<1>2. CASE StopEverything
  BY <1>2, StopEverythingCloses DEF RefusedForGood, TypeOK
<1>3. CASE UNCHANGED signals
  BY <1>3 DEF RefusedForGood, TypeOK, signals
<1>4. QED
  BY <1>1, <1>2, <1>3 DEF RefusedForGood

-----------------------------------------------------------------------------
(* The invariant of the policy.                                            *)

LEMMA InitInv == Init => PolicyInv
<1> SUFFICES ASSUME Init PROVE PolicyInv
  OBVIOUS
<1>1. TypeOK
  BY EntryTypes DEF Init, TypeOK
<1>2. NothingBeforePolicy /\ Closed /\ OnlyEventsOpen
  BY DEF Init, NothingBeforePolicy, Closed, OnlyEventsOpen
<1>3. QED
  BY <1>1, <1>2 DEF PolicyInv

LEMMA NextInv == PolicyInv /\ [Next]_vars => PolicyInv'
<1> SUFFICES ASSUME PolicyInv, [Next]_vars PROVE PolicyInv'
  OBVIOUS
<1> USE DEF PolicyInv
<1>1. CASE Reload
  <2>1. TypeOK'
    <3>1. Nothing \in Entry /\ cache' \in Entry /\ page' \in Nat
      BY <1>1, EntryTypes DEF Reload, TypeOK
    <3>2. QED
      BY <1>1, <3>1 DEF Reload, TypeOK
  <2>2. NothingBeforePolicy' /\ Closed' /\ OnlyEventsOpen'
    BY <1>1 DEF Reload, NothingBeforePolicy, Closed, OnlyEventsOpen
  <2>3. QED
    BY <2>1, <2>2
<1>2. CASE Bootstrap
  <2>1. CASE Quiet /\ StopEverything /\ fetching' = "no" /\ UNCHANGED <<basis, applied>>
    <3>1. silent' = TRUE /\ inflight' = {}
      BY <1>2, <2>1 DEF Bootstrap, NothingBeforePolicy, Quiet, TypeOK, Entry
    <3>2. TypeOK'
      BY <1>2, <2>1, <3>1, StopEverythingCloses DEF Bootstrap, TypeOK
    <3>3. Closed' /\ NothingBeforePolicy' /\ OnlyEventsOpen'
      BY <1>2, <2>1, <3>1, StopEverythingCloses
         DEF Bootstrap, NothingBeforePolicy, Closed, OnlyEventsOpen
    <3>4. QED
      BY <3>2, <3>3
  <2>2. CASE /\ ~Quiet /\ cache.kind = "document"
             /\ Apply(cache.document)
             /\ fetching' = (IF cache.fresh THEN "no" ELSE "yes")
             /\ basis' = (IF cache.fresh THEN basis ELSE cache)
    <3>1. cache.document \in Document
      BY DEF TypeOK, Entry
    <3>2. applied' = {cache.document} /\ ~silent'
      BY <1>2, <2>2, <3>1, ApplyKeeps DEF Bootstrap
    <3>3. /\ cache' = cache /\ silent' = FALSE
          /\ inflight' = {} /\ UNCHANGED <<page, optedIn>>
      BY <1>2, <2>2 DEF Bootstrap, NothingBeforePolicy
    <3>4. fetching' \in {"yes", "no"} /\ basis' \in Entry
      BY <2>2 DEF TypeOK
    <3>5. TypeOK'
      BY <2>2, <3>1, <3>3, <3>4, ApplyKeeps DEF TypeOK, Signal
    <3>6. NothingBeforePolicy' /\ Closed' /\ OnlyEventsOpen'
      BY <3>2, <3>3 DEF NothingBeforePolicy, Closed, OnlyEventsOpen
    <3>7. QED
      BY <3>5, <3>6
  <2>3. CASE /\ ~Quiet /\ cache.kind # "document"
             /\ fetching' = "yes"
             /\ UNCHANGED <<signals, basis, applied>>
    <3>1. silent' = FALSE /\ inflight' = {}
      BY <1>2, <2>3 DEF Bootstrap, NothingBeforePolicy
    <3>2. TypeOK'
      BY <1>2, <2>3, <3>1 DEF Bootstrap, signals, TypeOK
    <3>3. NothingBeforePolicy' /\ Closed' /\ OnlyEventsOpen'
      BY <1>2, <2>3, <3>1
         DEF Bootstrap, signals, NothingBeforePolicy, Closed, OnlyEventsOpen
    <3>4. QED
      BY <3>2, <3>3
  <2>4. QED
    BY <1>2, <2>1, <2>2, <2>3 DEF Bootstrap
<1>3. CASE Fetched
  <2>1. PICK d \in Documents : Apply(d) /\ cache' = Cached(d)
    BY <1>3 DEF Fetched
  <2>2. d \in Document /\ Cached(d) \in Entry
    BY EntryTypes
  <2>3. TypeOK'
    BY <1>3, <2>1, <2>2, ApplyKeeps DEF Fetched, TypeOK
  <2>4. applied' # {} /\ ~silent' /\ fetching' = "no"
    BY <1>3, <2>1, <2>2, ApplyKeeps DEF Fetched, Closed, TypeOK
  <2>5. QED
    BY <2>3, <2>4 DEF NothingBeforePolicy, Closed, OnlyEventsOpen
<1>4. CASE FetchedUnchanged
  <2>1. Cached(basis.document) \in Entry
    BY DEF TypeOK, Entry, Cached
  <2>2. QED
    BY <1>4, <2>1
       DEF FetchedUnchanged, signals, TypeOK, NothingBeforePolicy, Closed, OnlyEventsOpen
<1>5. CASE FetchRefused
  <2>1. TypeOK'
    BY <1>5, StopEverythingCloses, EntryTypes DEF FetchRefused, TypeOK
  <2>2. ~silent' /\ fetching' = "no"
    BY <1>5 DEF FetchRefused, Closed
  <2>3. OnlyEventsOpen'
    <3>1. UNCHANGED <<inflight, optedIn, applied>> /\ StopEverything
      BY <1>5 DEF FetchRefused
    <3>2. QED
      BY <3>1, StopEverythingCloses DEF OnlyEventsOpen
  <2>4. QED
    BY <2>1, <2>2, <2>3 DEF NothingBeforePolicy, Closed
<1>6. CASE FetchFails
  BY <1>6 DEF FetchFails, signals, TypeOK, NothingBeforePolicy, Closed, OnlyEventsOpen
<1>7. CASE CacheAges
  <2>1. [cache EXCEPT !.fresh = FALSE] \in Entry
    BY DEF TypeOK, Entry
  <2>2. QED
    BY <1>7, <2>1
       DEF CacheAges, signals, TypeOK, NothingBeforePolicy, Closed, OnlyEventsOpen
<1>8. ASSUME NEW s \in Signal, Send(s) PROVE PolicyInv'
  <2>1. s \in Enabled
    BY <1>8 DEF Send, Sendable
  <2>2. ~silent
    BY <2>1 DEF Closed, Enabled
  <2>3. applied = {} => s = "events" \/ (s = "analytics" /\ optedIn)
    BY <2>1 DEF OnlyEventsOpen, Enabled
  <2>4. TypeOK' /\ NothingBeforePolicy'
    BY <1>8 DEF Send, signals, TypeOK, NothingBeforePolicy
  <2>5. QED
    BY <1>8, <2>2, <2>3, <2>4 DEF Send, signals, Closed, OnlyEventsOpen
<1>9. ASSUME NEW s \in Signal, Answered(s) PROVE PolicyInv'
  BY <1>9
     DEF Answered, signals, TypeOK, NothingBeforePolicy, Closed, OnlyEventsOpen
<1>10. ASSUME NEW s \in Signal, RefusedOne(s) PROVE PolicyInv'
  <2>1. ~silent'
    BY <1>10 DEF RefusedOne, Closed
  <2>2. TypeOK'
    BY <1>10, StopOneCloses DEF RefusedOne, TypeOK
  <2>3. QED
    BY <1>10, <2>1, <2>2, StopOneCloses
       DEF RefusedOne, NothingBeforePolicy, Closed, OnlyEventsOpen
<1>11. ASSUME NEW s \in Signal, NEW key \in BOOLEAN, RefusedForGood(s, key) PROVE PolicyInv'
  <2>1. ~silent'
    BY <1>11 DEF RefusedForGood, Closed
  <2>2. cache' \in Entry
    BY <1>11, EntryTypes DEF RefusedForGood, TypeOK
  <2>3. TypeOK'
    BY <1>11, <2>2, RefusedForGoodCloses DEF RefusedForGood, TypeOK
  <2>4. QED
    BY <1>11, <2>1, <2>3, RefusedForGoodCloses
       DEF RefusedForGood, NothingBeforePolicy, Closed, OnlyEventsOpen
<1>12. CASE UNCHANGED vars
  BY <1>12 DEF vars, signals, TypeOK, NothingBeforePolicy, Closed, OnlyEventsOpen
<1>13. CASE SiteOptsIn
  BY <1>13 DEF SiteOptsIn, TypeOK, NothingBeforePolicy, Closed, OnlyEventsOpen
<1>14. CASE SiteOptsOut
  BY <1>14 DEF SiteOptsOut, TypeOK, NothingBeforePolicy, Closed, OnlyEventsOpen
<1>15. QED
  BY <1>1, <1>2, <1>3, <1>4, <1>5, <1>6, <1>7, <1>8, <1>9, <1>10, <1>11, <1>12,
     <1>13, <1>14
     DEF Next

\* The invariant holds in every reachable state.
THEOREM Invariance == Spec => []PolicyInv
BY InitInv, NextInv, PTL DEF Spec

-----------------------------------------------------------------------------
(* What follows of the policy.                                             *)

\* Every switch keeps its type through every document and every refusal.
THEOREM PolicyTypeCorrect == Spec => []TypeOK
<1>1. PolicyInv => TypeOK
  BY DEF PolicyInv
<1>2. QED
  BY <1>1, Invariance, PTL

\* With no policy applied on the page, only errors are ever in flight, and
\* analytics once the site opted in (bootstrapPolicy runs before any signal is
\* sent).
THEOREM ErrorsOnly == Spec => []ErrorsOnlyWithoutPolicy
<1>1. PolicyInv => ErrorsOnlyWithoutPolicy
  <2>1. CASE optedIn
    BY <2>1 DEF PolicyInv, OnlyEventsOpen, ErrorsOnlyWithoutPolicy
  <2>2. CASE ~optedIn
    BY <2>2 DEF PolicyInv, OnlyEventsOpen, ErrorsOnlyWithoutPolicy
  <2>3. QED
    BY <2>1, <2>2
<1>2. QED
  BY <1>1, Invariance, PTL

\* A page that found a quiet tombstone (tombstoneIsQuiet) sends nothing, whatever
\* the site opts in to.
THEOREM QuietForItsLife == Spec => []QuietPage
<1>1. PolicyInv => QuietPage
  BY DEF PolicyInv, Closed, QuietPage
<1>2. QED
  BY <1>1, Invariance, PTL

\* Neither a document (applySdkConfig), a refusal nor the site's opt-in turns
\* events or analytics on again on the same page.
THEOREM StoppedForGood == Spec => StoppedForThePage
<1> DEFINE Kept == /\ ingestDisabled => ingestDisabled'
                   /\ analytics = "killed" => analytics' = "killed"
<1>1. PolicyInv /\ [Next]_vars => [SamePage => Kept]_vars
  <2> SUFFICES ASSUME PolicyInv, Next, SamePage PROVE Kept
    OBVIOUS
  <2>1. TypeOK
    BY DEF PolicyInv
  <2>2. CASE Reload
    BY <2>1, <2>2 DEF Reload, SamePage, TypeOK
  <2>3. CASE Bootstrap
    <3>1. cache.document \in Document
      BY <2>1 DEF TypeOK, Entry
    <3>2. CASE StopEverything
      BY <2>1, <3>2, StopEverythingCloses
    <3>3. CASE Apply(cache.document)
      BY <2>1, <3>1, <3>3, ApplyKeeps
    <3>4. CASE UNCHANGED signals
      BY <3>4 DEF signals
    <3>5. QED
      BY <2>3, <3>2, <3>3, <3>4 DEF Bootstrap, signals
  <2>4. CASE Fetched
    BY <2>1, <2>4, EntryTypes, ApplyKeeps DEF Fetched
  <2>5. CASE FetchedUnchanged \/ FetchFails \/ CacheAges
    BY <2>5 DEF FetchedUnchanged, FetchFails, CacheAges, signals
  <2>6. CASE FetchRefused
    BY <2>1, <2>6, StopEverythingCloses DEF FetchRefused
  <2>7. ASSUME NEW s \in Signal, Send(s) \/ Answered(s) PROVE Kept
    BY <2>7 DEF Send, Answered, signals
  <2>8. ASSUME NEW s \in Signal, RefusedOne(s) PROVE Kept
    BY <2>1, <2>8, StopOneCloses DEF RefusedOne
  <2>9. ASSUME NEW s \in Signal, NEW key \in BOOLEAN, RefusedForGood(s, key) PROVE Kept
    BY <2>1, <2>9, RefusedForGoodCloses
  <2>10. CASE SiteOptsIn \/ SiteOptsOut
    BY <2>10 DEF SiteOptsIn, SiteOptsOut
  <2>11. QED
    BY <2>2, <2>3, <2>4, <2>5, <2>6, <2>7, <2>8, <2>9, <2>10 DEF Next
<1>2. QED
  BY <1>1, Invariance, PTL DEF Spec, StoppedForThePage

\* A refusal of one signal (disableIngestAfterPermanentError) leaves the other
\* signals as they were.
THEOREM RefusalIsLocal == Spec => OthersUntouched
<1>1. ASSUME TypeOK, NEW s \in Signal, RefusedOne(s)
      PROVE  Enabled \ {s} = Enabled' \ {s}
  <2>1. ASSUME NEW t \in Signal, t # s PROVE t \in Enabled <=> t \in Enabled'
    BY <1>1, <2>1 DEF RefusedOne, StopOne, StopTracer, Enabled, Signal, TypeOK
  <2>2. Enabled \subseteq Signal /\ Enabled' \subseteq Signal
    BY DEF Enabled
  <2>3. QED
    BY <2>1, <2>2
<1>2. PolicyInv /\ [Next]_vars =>
        [\A s \in Signal : RefusedOne(s) => Enabled \ {s} = Enabled' \ {s}]_vars
  BY <1>1 DEF PolicyInv
<1>3. QED
  BY <1>2, Invariance, PTL DEF Spec, OthersUntouched

-----------------------------------------------------------------------------
(***************************************************************************)
(* The network failures.                                                   *)
(***************************************************************************)
(* Counting in sequences.                                                  *)

\* How many elements of s are in T.
Count(s, T) == Cardinality({i \in DOMAIN s : s[i] \in T})

\* The positions counted are finitely many.
LEMMA CountType ==
  ASSUME NEW S, NEW s \in Seq(S), NEW T
  PROVE  /\ IsFiniteSet({i \in DOMAIN s : s[i] \in T})
         /\ Count(s, T) \in Nat
         /\ \A i \in DOMAIN s : s[i] \in T => Count(s, T) > 0
<1> DEFINE At == {i \in DOMAIN s : s[i] \in T}
<1>1. Len(s) \in Nat /\ DOMAIN s = 1..Len(s)
  BY LenProperties
<1>2. IsFiniteSet(1..Len(s))
  BY <1>1, FS_Interval
<1>3. At \in SUBSET (1..Len(s))
  BY <1>1
<1> HIDE DEF At
<1>4. IsFiniteSet(At)
  BY <1>2, <1>3, FS_Subset
<1>5. Cardinality(At) \in Nat /\ (Cardinality(At) = 0 => At = {})
  BY <1>4, FS_CardinalityType, FS_EmptySet
<1>6. Count(s, T) = Cardinality(At)
  BY DEF At, Count
<1>7. ASSUME NEW i \in DOMAIN s, s[i] \in T PROVE Count(s, T) > 0
  <2>1. i \in At
    BY <1>7 DEF At
  <2> QED BY <1>5, <1>6, <2>1
<1> QED BY <1>4, <1>5, <1>6, <1>7 DEF At

\* t is s without what it has at i.
IsWithout(t, s, i) ==
  /\ Len(t) = Len(s) - 1
  /\ \A j \in 1..Len(t) : t[j] = IF j < i THEN s[j] ELSE s[j + 1]

\* One element dropped.
LEMMA CountWithout ==
  ASSUME NEW S, NEW s \in Seq(S), NEW t \in Seq(S), NEW T, NEW i \in 1..Len(s),
         IsWithout(t, s, i)
  PROVE  Count(t, T) = IF s[i] \in T THEN Count(s, T) - 1 ELSE Count(s, T)
<1> USE DEF IsWithout
<1> DEFINE A == {j \in DOMAIN s : s[j] \in T}
           B == {j \in DOMAIN t : t[j] \in T}
           f == [j \in B |-> IF j < i THEN j ELSE j + 1]
<1>1. /\ Len(s) \in Nat /\ DOMAIN s = 1..Len(s) /\ DOMAIN t = 1..Len(t)
      /\ IsFiniteSet(A) /\ IsFiniteSet(B)
  BY LenProperties, CountType
<1>2. \A j \in 1..Len(t) : j < i => j \in 1..Len(s) \ {i}
  BY <1>1
<1>3. \A j \in 1..Len(t) : ~(j < i) => j + 1 \in 1..Len(s) \ {i}
  BY <1>1
<1>4. ASSUME NEW j \in B PROVE f[j] \in A \ {i}
  BY <1>1, <1>2, <1>3
<1>5. f \in [B -> A \ {i}]
  BY <1>4
<1>6. \A j, k \in B : f[j] = f[k] => j = k
  BY <1>1
<1>7. ASSUME NEW j \in A \ {i} PROVE \E k \in B : f[k] = j
  <2>1. CASE j < i
    <3>1. j \in B
      BY <1>1, <2>1
    <3> QED BY <2>1, <3>1
  <2>2. CASE ~(j < i)
    <3>1. j > i /\ j - 1 \in 1..Len(t) /\ ~(j - 1 < i) /\ (j - 1) + 1 = j
      BY <1>1, <1>7, <2>2
    <3>2. j - 1 \in B
      BY <1>1, <3>1
    <3>3. f[j - 1] = j
      BY <3>1, <3>2
    <3> QED BY <3>2, <3>3
  <2> QED BY <2>1, <2>2
<1> HIDE DEF f
<1>8. f \in Bijection(B, A \ {i})
  BY <1>5, <1>6, <1>7 DEF Bijection, Injection, IsInjective, Surjection
<1> HIDE DEF A, B, IsWithout
<1>9. Cardinality(A \ {i}) = Cardinality(B)
  BY <1>1, <1>8, FS_Bijection DEF ExistsBijection
<1>10. Cardinality(A \ {i}) = IF i \in A THEN Cardinality(A) - 1 ELSE Cardinality(A)
  BY <1>1, FS_RemoveElement
<1>11. i \in A <=> s[i] \in T
  BY <1>1 DEF A
<1> QED BY <1>9, <1>10, <1>11 DEF A, B, Count

\* One element more, at the end.
LEMMA CountAppended ==
  ASSUME NEW S, NEW s \in Seq(S), NEW e \in S, NEW T
  PROVE  Count(Append(s, e), T) = IF e \in T THEN Count(s, T) + 1 ELSE Count(s, T)
<1> DEFINE t == Append(s, e)
           n == Len(s) + 1
<1>1. /\ t \in Seq(S) /\ Len(t) = n /\ Len(s) \in Nat
      /\ t[n] = e /\ \A j \in 1..Len(s) : t[j] = s[j]
  BY AppendProperties, LenProperties
<1> HIDE DEF t
<1>2. /\ n \in 1..Len(t) /\ Len(s) = Len(t) - 1
      /\ \A j \in 1..Len(s) : s[j] = IF j < n THEN t[j] ELSE t[j + 1]
  BY <1>1
<1> HIDE DEF n
<1>3. IsWithout(s, t, n)
  BY <1>2 DEF IsWithout
<1>4. Count(s, T) = IF t[n] \in T THEN Count(t, T) - 1 ELSE Count(t, T)
  BY <1>1, <1>2, <1>3, CountWithout
<1>5. Count(t, T) \in Nat
  BY <1>1, CountType
<1> QED BY <1>1, <1>4, <1>5 DEF t

\* One element replaced.
LEMMA CountChanged ==
  ASSUME NEW S, NEW s \in Seq(S), NEW i \in 1..Len(s), NEW e \in S, NEW T
  PROVE  /\ (e \in T <=> s[i] \in T) => Count([s EXCEPT ![i] = e], T) = Count(s, T)
         /\ Count([s EXCEPT ![i] = e], T) <= Count(s, T) + 1
<1> DEFINE t == [s EXCEPT ![i] = e]
           A == {j \in DOMAIN s : s[j] \in T}
           B == {j \in DOMAIN t : t[j] \in T}
<1>1. /\ t \in Seq(S) /\ Len(t) = Len(s) /\ Len(s) \in Nat
      /\ DOMAIN s = 1..Len(s) /\ DOMAIN t = 1..Len(s)
      /\ \A j \in 1..Len(s) : t[j] = IF j = i THEN e ELSE s[j]
  BY ExceptSeq, LenProperties
<1>2. IsFiniteSet(A) /\ Count(s, T) \in Nat
  BY CountType
<1>3. (e \in T <=> s[i] \in T) => Count(t, T) = Count(s, T)
  <2> SUFFICES ASSUME e \in T <=> s[i] \in T PROVE Count(t, T) = Count(s, T)
    OBVIOUS
  <2>1. A = B
    BY <1>1
  <2> QED BY <1>2, <2>1 DEF Count
<1>4. Count(t, T) <= Count(s, T) + 1
  <2>1. B \in SUBSET (A \union {i})
    BY <1>1
  <2> HIDE DEF A, B, t
  <2>2. /\ IsFiniteSet(A \union {i})
        /\ Cardinality(A \union {i}) = IF i \in A THEN Cardinality(A) ELSE Cardinality(A) + 1
    BY <1>2, FS_AddElement
  <2>3. Cardinality(B) <= Cardinality(A \union {i}) /\ IsFiniteSet(B)
    BY <2>1, <2>2, FS_Subset
  <2>4. Cardinality(A) \in Nat /\ Cardinality(B) \in Nat
    BY <1>2, <2>3, FS_CardinalityType
  <2>5. Cardinality(B) <= Cardinality(A) + 1
    BY <2>2, <2>3, <2>4
  <2> QED BY <2>5 DEF A, B, Count
<1> HIDE DEF A, B, t
<1> QED BY <1>3, <1>4 DEF t

\* takeAt drops one element.
LEMMA Removed ==
  ASSUME NEW S, NEW s \in Seq(S), NEW i \in 1..Len(s)
  PROVE  /\ RemoveAt(s, i) \in Seq(S)
         /\ Len(RemoveAt(s, i)) = Len(s) - 1
         /\ \A j \in 1..Len(RemoveAt(s, i)) :
              RemoveAt(s, i)[j] = IF j < i THEN s[j] ELSE s[j + 1]
<1> DEFINE a == SubSeq(s, 1, i - 1)
           b == SubSeq(s, i + 1, Len(s))
<1>1. Len(s) \in Nat /\ i \in Nat /\ 1 <= i /\ i <= Len(s)
  BY LenProperties
<1>2. \A j \in 1..Len(s) : s[j] \in S
  BY ElementOfSeq
<1>3. a \in Seq(S) /\ Len(a) = i - 1 /\ \A j \in 1..i - 1 : a[j] = s[j]
  <2>1. \A j \in 1..i - 1 : s[j] \in S
    BY <1>1, <1>2
  <2> QED BY <1>1, <2>1, SubSeqProperties
<1>4. b \in Seq(S) /\ Len(b) = Len(s) - i /\ \A j \in 1..Len(s) - i : b[j] = s[i + j]
  <2>1. \A j \in i + 1..Len(s) : s[j] \in S
    BY <1>1, <1>2
  <2>2. /\ b \in Seq(S) /\ Len(b) = IF i + 1 <= Len(s) THEN Len(s) - (i + 1) + 1 ELSE 0
        /\ \A j \in 1..Len(s) - (i + 1) + 1 : b[j] = s[i + 1 + j - 1]
    BY <1>1, <2>1, SubSeqProperties
  <2> HIDE DEF b
  <2>3. Len(b) = Len(s) - i /\ Len(s) - (i + 1) + 1 = Len(s) - i
    BY <1>1, <2>2
  <2>4. \A j \in 1..Len(s) - i : i + 1 + j - 1 = i + j
    BY <1>1
  <2> QED BY <2>2, <2>3, <2>4
<1>5. RemoveAt(s, i) = a \o b
  BY DEF RemoveAt
<1> HIDE DEF a, b
<1>6. /\ a \o b \in Seq(S) /\ Len(a \o b) = Len(a) + Len(b)
      /\ \A j \in 1..Len(a) + Len(b) : (a \o b)[j] = IF j <= Len(a) THEN a[j] ELSE b[j - Len(a)]
  BY <1>3, <1>4, ConcatProperties
<1>7. Len(a) + Len(b) = Len(s) - 1
  BY <1>1, <1>3, <1>4
<1>8. ASSUME NEW j \in 1..Len(s) - 1 PROVE (a \o b)[j] = IF j < i THEN s[j] ELSE s[j + 1]
  <2>1. CASE j < i
    <3>1. j <= Len(a) /\ j \in 1..i - 1
      BY <1>1, <1>3, <2>1
    <3> QED BY <1>3, <1>6, <1>7, <2>1, <3>1
  <2>2. CASE ~(j < i)
    <3>1. ~(j <= Len(a)) /\ j - Len(a) \in 1..Len(s) - i /\ i + (j - Len(a)) = j + 1
      BY <1>1, <1>3, <2>2
    <3> QED BY <1>4, <1>6, <1>7, <2>2, <3>1
  <2> QED BY <2>1, <2>2
<1> QED BY <1>5, <1>6, <1>7, <1>8

\* The first one leaves.
LEMMA TailDrops ==
  ASSUME NEW S, NEW s \in Seq(S), s # <<>>
  PROVE  /\ Tail(s) \in Seq(S) /\ Len(Tail(s)) = Len(s) - 1
         /\ 1 \in 1..Len(s) /\ Head(s) = s[1]
         /\ \A j \in 1..Len(Tail(s)) : Tail(s)[j] = IF j < 1 THEN s[j] ELSE s[j + 1]
BY HeadTailProperties, EmptySeq, LenProperties

\* The maximum of a set of positions is one of them.
LEMMA MaxIsOne ==
  ASSUME NEW n \in Nat, NEW I \in SUBSET (1..n), I # {}
  PROVE  Max(I) \in I
<1> DEFINE Above == {m \in Nat : \A x \in I : x <= m}
           R == OpToRel(<, Nat)
<1>1. n \in Above
  OBVIOUS
<1>2. PICK m \in Above : \A k \in Above : <<k, m>> \notin R
  <2>1. IsWellFoundedOn(R, Nat) /\ Above \subseteq Nat /\ Above # {}
    BY <1>1, NatLessThanWellFounded
  <2> HIDE DEF R, Above
  <2> QED BY <2>1, WFMin
<1>3. m \in Nat /\ \A x \in I : x <= m
  OBVIOUS
<1>4. m \in I
  <2> SUFFICES ASSUME m \notin I PROVE FALSE
    OBVIOUS
  <2>1. \A x \in I : x <= m - 1 /\ x >= 1
    BY <1>3
  <2>2. m - 1 \in Nat
    <3>1. PICK x \in I : x >= 1 /\ x <= m - 1
      BY <2>1
    <3> QED BY <1>3, <3>1
  <2>3. m - 1 \in Above
    BY <2>1, <2>2
  <2>4. <<m - 1, m>> \in R
    BY <1>3, <2>2 DEF OpToRel
  <2> QED BY <1>2, <2>3, <2>4
<1>5. \E x \in I : \A y \in I : x >= y
  BY <1>3, <1>4
<1> QED BY <1>5 DEF Max

-----------------------------------------------------------------------------
(* Failed requests.                                                        *)

Messages == {"fetch", "xhr", "other"}
Failure == [url : {Url[r] : r \in Requests}, kind : Kinds, message : Messages,
            promoted : BOOLEAN, third : BOOLEAN, young : BOOLEAN]

Stages == {"new", "open", "done"} \union Rejections

\* The types of the module, with the sets whose elements are counted finite.
NetworkTypes ==
  /\ promote \in BOOLEAN /\ capturing \in BOOLEAN /\ tangled \in BOOLEAN
  /\ request \in [Requests -> Stages]
  /\ failures \in Seq(Failure)
  /\ suppressed \in Nat
  /\ remembered \subseteq Requests /\ IsFiniteSet(remembered)

\* Only a request that has failed is remembered.
HeardOf == \A r \in remembered : request[r] \notin {"new", "open"}

\* What an event about a request says of the request.
ReportsAreTrue ==
  \A r \in Requests :
    /\ <<r, "network">> \in reported =>
         promote /\ r \notin Ignored /\ request[r] \notin {"new", "open", "other"}
    /\ <<r, "exception">> \in reported => request[r] \notin {"new", "open"}

\* Where network errors are captured every entry suppresses an exception: it was
\* promoted, or is somebody else's.
EveryEntrySuppresses == promote => \A i \in DOMAIN failures : Suppresses(failures[i])

\* Rejections of this kind, with the browser's message, that are still on their way
\* to a handler.
Coming(kind) == {r \in Requests \ Ignored : request[r] = kind}

Paying == {e \in Failure : Suppresses(e)}
OfKind(kind) == {e \in Failure : e.kind = kind}
Payers == {r \in remembered : ThirdParty(r) \/ promote}

\* There is an entry for every rejection that is to come, until the two are tangled.
EntryForEveryRejection ==
  \A kind \in {"network", "timeout"} :
    /\ Coming(kind) \subseteq remembered
    /\ ~tangled => Cardinality(Coming(kind)) <= Count(failures, OfKind(kind))

\* The inductive invariant.  SuppressionIsPaidFor needs that a request fails once;
\* OneEventPerFailure that the rejection of a failure that became an event finds an
\* entry, any entry of its kind, and that this entry suppresses it.
NetworkInv ==
  /\ NetworkTypes
  /\ HeardOf
  /\ ReportsAreTrue
  /\ EveryEntrySuppresses
  /\ EntryForEveryRejection
  /\ SuppressionIsPaidFor
  /\ OneEventPerFailure

\* SuppressionIsPaidFor in terms of Count, in this state and in the next one.
LEMMA PaidByCount ==
  ASSUME failures \in Seq(Failure)
  PROVE  SuppressionIsPaidFor
           <=> suppressed + Count(failures, Paying) <= Cardinality(Payers)
<1>1. \A i \in DOMAIN failures : failures[i] \in Failure
  BY LenProperties, ElementOfSeq
<1>2. {i \in DOMAIN failures : Suppresses(failures[i])}
        = {i \in DOMAIN failures : failures[i] \in Paying}
  BY <1>1 DEF Paying
<1> QED BY <1>2 DEF SuppressionIsPaidFor, Count, Payers

LEMMA PaidByCountNext ==
  ASSUME failures' \in Seq(Failure)
  PROVE  SuppressionIsPaidFor'
           <=> suppressed' + Count(failures', Paying) <= Cardinality(Payers')
<1>1. \A i \in DOMAIN failures' : failures'[i] \in Failure
  BY LenProperties, ElementOfSeq
<1>2. {i \in DOMAIN failures' : Suppresses(failures'[i])}
        = {i \in DOMAIN failures' : failures'[i] \in Paying}
  BY <1>1 DEF Paying
<1>3. SuppressionIsPaidFor'
        <=> suppressed'
              + Cardinality({i \in DOMAIN failures' : Suppresses(failures'[i])})
            <= Cardinality(Payers')
  BY DEF SuppressionIsPaidFor, Payers, Suppresses
<1> QED BY <1>2, <1>3 DEF Count

LEMMA PayersAreFinite ==
  ASSUME NetworkTypes
  PROVE  /\ IsFiniteSet(Payers) /\ Cardinality(Payers) \in Nat
         /\ suppressed \in Nat
<1>1. Payers \in SUBSET remembered
  BY DEF Payers
<1> QED BY <1>1, FS_Subset, FS_CardinalityType DEF NetworkTypes

LEMMA ComingIsFinite ==
  ASSUME NetworkInv, NEW kind \in {"network", "timeout"}
  PROVE  IsFiniteSet(Coming(kind)) /\ Cardinality(Coming(kind)) \in Nat
BY FS_Subset, FS_CardinalityType DEF NetworkInv, NetworkTypes, EntryForEveryRejection

\* An entry has the types of its record, suppresses an exception when the failure
\* was promoted or is somebody else's, and always does where errors are captured.
LEMMA EntryFacts ==
  ASSUME NEW r \in Requests \ Ignored, NEW kind \in {"network", "timeout"},
         NEW message \in Messages, promote \in BOOLEAN
  PROVE  LET e == FailureEntry(r, kind, message) IN
         /\ e \in Failure /\ e.kind = kind
         /\ Suppresses(e) => ThirdParty(r) \/ promote
         /\ promote => Suppresses(e)
         /\ e.promoted \in BOOLEAN /\ (e.promoted => promote)
BY DEF FailureEntry, Failure, Messages, Kinds, Suppresses, ThirdParty, Promotes, Promotable

\* What remembering a failure does to the entries: one more, or one of them promoted.
LEMMA RememberedFacts ==
  ASSUME failures \in Seq(Failure), NEW e \in Failure, NEW f, f = Remembered(e)
  PROVE  /\ f \in Seq(Failure)
         /\ Count(f, Paying) <= Count(failures, Paying) + (IF Suppresses(e) THEN 1 ELSE 0)
         /\ (promote => Suppresses(e)) /\ EveryEntrySuppresses
              => (promote => \A i \in DOMAIN f : Suppresses(f[i]))
         /\ \A kind \in Kinds :
              /\ Count(f, OfKind(kind)) >= Count(failures, OfKind(kind))
              /\ kind = e.kind /\ Twin(e) = {}
                   => Count(f, OfKind(kind)) = Count(failures, OfKind(kind)) + 1
<1>1. /\ Len(failures) \in Nat /\ DOMAIN failures = 1..Len(failures)
      /\ \A i \in 1..Len(failures) : failures[i] \in Failure
  BY LenProperties, ElementOfSeq
<1>2. /\ Count(failures, Paying) \in Nat
      /\ \A kind \in Kinds : Count(failures, OfKind(kind)) \in Nat
  BY CountType
<1>3. CASE Twin(e) = {}
  <2>1. f = Append(failures, e)
    BY <1>3 DEF Remembered
  <2>2. /\ f \in Seq(Failure) /\ Len(f) = Len(failures) + 1 /\ DOMAIN f = 1..Len(f)
        /\ f[Len(failures) + 1] = e /\ \A i \in 1..Len(failures) : f[i] = failures[i]
    BY <2>1, AppendProperties, LenProperties
  <2>3. \A T : Count(f, T) = IF e \in T THEN Count(failures, T) + 1 ELSE Count(failures, T)
    BY <2>1, CountAppended
  <2>4. e \in Paying <=> Suppresses(e)
    BY DEF Paying
  <2>5. \A kind \in Kinds : e \in OfKind(kind) <=> e.kind = kind
    BY DEF OfKind
  <2>6. ASSUME promote => Suppresses(e), EveryEntrySuppresses, promote,
               NEW i \in DOMAIN f
        PROVE  Suppresses(f[i])
    <3>1. CASE i \in 1..Len(failures)
      BY <1>1, <2>2, <2>6, <3>1 DEF EveryEntrySuppresses
    <3>2. CASE i = Len(failures) + 1
      BY <2>2, <2>6, <3>2
    <3> QED BY <1>1, <2>2, <3>1, <3>2
  <2>7. Count(f, Paying) <= Count(failures, Paying) + (IF Suppresses(e) THEN 1 ELSE 0)
    BY <1>2, <2>3, <2>4
  <2>8. \A kind \in Kinds :
          /\ Count(f, OfKind(kind)) >= Count(failures, OfKind(kind))
          /\ kind = e.kind => Count(f, OfKind(kind)) = Count(failures, OfKind(kind)) + 1
    BY <1>2, <2>3, <2>5
  <2> QED BY <2>2, <2>6, <2>7, <2>8
<1>4. CASE Twin(e) # {}
  <2> DEFINE m == Max(Twin(e))
             g == [failures[m] EXCEPT !.promoted = @ \/ e.promoted]
  <2>1. m \in Twin(e) /\ m \in 1..Len(failures)
    <3>1. Twin(e) \in SUBSET (1..Len(failures))
      BY <1>1 DEF Twin
    <3> QED BY <1>1, <1>4, <3>1, MaxIsOne
  <2> HIDE DEF m
  <2>2. failures[m] \in Failure /\ e.promoted \in BOOLEAN /\ e.third \in BOOLEAN
    BY <1>1, <2>1 DEF Failure
  <2>3. /\ g \in Failure /\ g.kind = failures[m].kind
        /\ g.promoted = (failures[m].promoted \/ e.promoted)
        /\ g.third = failures[m].third
    BY <2>2 DEF Failure
  <2> HIDE DEF g
  <2>4. f = [failures EXCEPT ![m] = g]
    BY <1>4 DEF Remembered, m, g
  <2>5. /\ f \in Seq(Failure) /\ Len(f) = Len(failures) /\ DOMAIN f = 1..Len(f)
        /\ \A i \in 1..Len(failures) : f[i] = IF i = m THEN g ELSE failures[i]
    BY <2>1, <2>3, <2>4, ExceptSeq, LenProperties
  <2>6. \A T : /\ (g \in T <=> failures[m] \in T) => Count(f, T) = Count(failures, T)
               /\ Count(f, T) <= Count(failures, T) + 1
    <3> TAKE T
    <3>1. LET h == [failures EXCEPT ![m] = g] IN
          /\ (g \in T <=> failures[m] \in T) => Count(h, T) = Count(failures, T)
          /\ Count(h, T) <= Count(failures, T) + 1
      BY <2>1, <2>3, CountChanged
    <3> QED BY <2>4, <3>1
  <2>7. \A kind \in Kinds : Count(f, OfKind(kind)) = Count(failures, OfKind(kind))
    <3>1. \A kind \in Kinds : g \in OfKind(kind) <=> failures[m] \in OfKind(kind)
      BY <2>2, <2>3 DEF OfKind
    <3> QED BY <2>6, <3>1
  <2>8. Count(f, Paying) <= Count(failures, Paying) + (IF Suppresses(e) THEN 1 ELSE 0)
    <3>1. CASE e.promoted
      BY <1>2, <2>6, <3>1 DEF Suppresses
    <3>2. CASE ~e.promoted
      <4>1. g \in Paying <=> failures[m] \in Paying
        BY <2>2, <2>3, <3>2 DEF Paying, Suppresses
      <4>2. Count(f, Paying) = Count(failures, Paying)
        BY <2>6, <4>1
      <4> QED BY <1>2, <4>2
    <3> QED BY <3>1, <3>2
  <2>9. ASSUME EveryEntrySuppresses, promote, NEW i \in DOMAIN f
        PROVE  Suppresses(f[i])
    <3>1. i \in DOMAIN failures /\ m \in DOMAIN failures
      BY <1>1, <2>1, <2>5
    <3>2. Suppresses(failures[i]) /\ Suppresses(failures[m])
      BY <2>9, <3>1 DEF EveryEntrySuppresses
    <3> QED BY <1>1, <2>3, <2>5, <3>1, <3>2 DEF Suppresses
  <2> QED BY <1>2, <1>4, <2>5, <2>7, <2>8, <2>9
<1> QED BY <1>3, <1>4

\* An error whose message is that of a failed fetch finds an entry of its kind if
\* there is one.
LEMMA CorrelatedFacts ==
  ASSUME failures \in Seq(Failure), NEW kind \in Kinds, NEW message, message # "other",
         NEW place, place = Correlated(kind, message)
  PROVE  /\ place = 0 \/ place \in 1..Len(failures)
         /\ place # 0 => failures[place].kind = kind
         /\ place = 0 => Count(failures, OfKind(kind)) = 0
<1> DEFINE ofKind == {n \in DOMAIN failures : failures[n].kind = kind}
           same == {n \in ofKind : failures[n].message = message}
<1>1. /\ Len(failures) \in Nat /\ DOMAIN failures = 1..Len(failures)
      /\ \A i \in 1..Len(failures) : failures[i] \in Failure
  BY LenProperties, ElementOfSeq
<1>2. ofKind \in SUBSET (1..Len(failures)) /\ same \in SUBSET (1..Len(failures))
  BY <1>1
<1>3. CASE same # {}
  <2>1. place = Max(same)
    BY <1>3 DEF Correlated
  <2> HIDE DEF same
  <2>2. Max(same) \in same
    BY <1>1, <1>2, <1>3, MaxIsOne
  <2> QED BY <1>1, <2>1, <2>2 DEF same
<1>4. CASE same = {} /\ ofKind # {}
  <2>1. place = Max(ofKind)
    BY <1>4 DEF Correlated
  <2> HIDE DEF ofKind
  <2>2. Max(ofKind) \in ofKind
    BY <1>1, <1>2, <1>4, MaxIsOne
  <2> QED BY <1>1, <2>1, <2>2 DEF ofKind
<1>5. CASE same = {} /\ ofKind = {}
  <2>1. place = 0
    BY <1>5 DEF Correlated
  <2>2. {n \in DOMAIN failures : failures[n] \in OfKind(kind)} = {}
    BY <1>1, <1>5 DEF OfKind
  <2> QED BY <2>1, <2>2, FS_EmptySet DEF Count
<1> QED BY <1>3, <1>4, <1>5

-----------------------------------------------------------------------------
(* The requests.                                                           *)

LEMMA NetworkInitInv == NetworkInit => NetworkInv
<1> SUFFICES ASSUME NetworkInit PROVE NetworkInv
  OBVIOUS
<1> USE DEF NetworkInit
<1>1. failures = <<>> /\ failures \in Seq(Failure) /\ DOMAIN failures = {}
  <2>1. <<>> \in Seq(Failure) /\ Len(<<>>) = 0
    BY EmptySeq
  <2>2. DOMAIN failures = 1..0
    BY <2>1, LenProperties
  <2> QED BY <2>1, <2>2
<1>2. IsFiniteSet({}) /\ Cardinality({}) = 0
  BY FS_EmptySet
<1>3. NetworkTypes
  BY <1>1, <1>2 DEF NetworkTypes, Stages
<1>4. HeardOf /\ ReportsAreTrue /\ EveryEntrySuppresses /\ OneEventPerFailure
  BY <1>1 DEF HeardOf, ReportsAreTrue, EveryEntrySuppresses, OneEventPerFailure
<1>5. \A T : Count(failures, T) = 0
  <2> TAKE T
  <2>1. {i \in DOMAIN failures : failures[i] \in T} = {}
    BY <1>1
  <2> QED BY <1>2, <2>1 DEF Count
<1>6. EntryForEveryRejection
  <2>1. \A kind \in {"network", "timeout"} : Coming(kind) = {}
    BY DEF Coming
  <2>2. \A kind \in {"network", "timeout"} : Count(failures, OfKind(kind)) = 0
    BY <1>5
  <2>3. \A kind \in {"network", "timeout"} : Cardinality(Coming(kind)) = 0
    BY <1>2, <2>1
  <2> QED BY <2>1, <2>2, <2>3 DEF EntryForEveryRejection
<1>7. SuppressionIsPaidFor
  <2>1. Payers = {}
    BY DEF Payers
  <2> QED BY <1>1, <1>2, <1>5, <2>1, PaidByCount
<1> QED BY <1>3, <1>4, <1>6, <1>7 DEF NetworkInv

\* What no request takes part in.
LEMMA AsideKeeps ==
  ASSUME NetworkInv, UNCHANGED <<promote, request, failures, suppressed, remembered, tangled>>,
         capturing' \in BOOLEAN,
         \A r \in Requests : \A what : <<r, what>> \in reported' <=> <<r, what>> \in reported
  PROVE  NetworkInv'
<1>1. NetworkTypes' /\ HeardOf' /\ EveryEntrySuppresses'
  BY DEF NetworkInv, NetworkTypes, HeardOf, EveryEntrySuppresses
<1>2. ReportsAreTrue'
  BY DEF NetworkInv, ReportsAreTrue
<1>3. OneEventPerFailure'
  BY DEF NetworkInv, OneEventPerFailure
<1>4. EntryForEveryRejection'
  <2>1. \A kind \in {"network", "timeout"} : Coming(kind)' = Coming(kind)
    BY DEF Coming
  <2> QED BY <2>1 DEF NetworkInv, EntryForEveryRejection
<1>5. SuppressionIsPaidFor'
  BY DEF NetworkInv, SuppressionIsPaidFor
<1> QED BY <1>1, <1>2, <1>3, <1>4, <1>5 DEF NetworkInv

\* A request moves on, and nothing else changes.
LEMMA MovesOn ==
  ASSUME NetworkInv, NEW r \in Requests, NEW to \in {"open", "done"},
         request[r] \in {"new", "open"} \union Rejections,
         request[r] = "new" <=> to = "open",
         request' = [request EXCEPT ![r] = to],
         UNCHANGED <<promote, failures, suppressed, remembered, tangled>>,
         reported' = reported \/ (reported' = reported \union {<<r, "http">>}),
         capturing' \in BOOLEAN
  PROVE  NetworkInv'
<1>1. request \in [Requests -> Stages] /\ r \in Requests
  BY DEF NetworkInv, NetworkTypes
<1>2. \A q \in Requests : request'[q] = IF q = r THEN to ELSE request[q]
  BY <1>1
<1>3. NetworkTypes'
  BY <1>1 DEF NetworkInv, NetworkTypes, Stages, Rejections
<1>4. HeardOf'
  BY <1>2 DEF NetworkInv, NetworkTypes, HeardOf, Rejections, Kinds
<1>5. \A q \in Requests :
        /\ <<q, "network">> \in reported' <=> <<q, "network">> \in reported
        /\ <<q, "exception">> \in reported' <=> <<q, "exception">> \in reported
  OBVIOUS
<1>6. ReportsAreTrue'
  BY <1>2, <1>5 DEF NetworkInv, ReportsAreTrue, Rejections, Kinds
<1>7. EveryEntrySuppresses'
  BY DEF NetworkInv, EveryEntrySuppresses
<1>8. OneEventPerFailure'
  BY <1>5 DEF NetworkInv, OneEventPerFailure
<1>9. EntryForEveryRejection'
  <2> SUFFICES ASSUME NEW kind \in {"network", "timeout"}
               PROVE  /\ Coming(kind)' \subseteq remembered
                      /\ ~tangled => Cardinality(Coming(kind)') <= Count(failures, OfKind(kind))
    BY DEF EntryForEveryRejection
  <2>1. Coming(kind)' \in SUBSET Coming(kind)
    BY <1>2 DEF Coming
  <2>2. Cardinality(Coming(kind)') <= Cardinality(Coming(kind)) /\ IsFiniteSet(Coming(kind)')
    BY <2>1, ComingIsFinite, FS_Subset
  <2>3. Cardinality(Coming(kind)') \in Nat /\ Cardinality(Coming(kind)) \in Nat
    BY <2>2, ComingIsFinite, FS_CardinalityType
  <2>4. Count(failures, OfKind(kind)) \in Nat
    BY CountType DEF NetworkInv, NetworkTypes
  <2> QED BY <2>1, <2>2, <2>3, <2>4 DEF NetworkInv, EntryForEveryRejection
<1>10. SuppressionIsPaidFor'
  BY DEF NetworkInv, SuppressionIsPaidFor
<1> QED BY <1>3, <1>4, <1>6, <1>7, <1>8, <1>9, <1>10 DEF NetworkInv

\* A request that nobody promotes or remembers fails: an abort, or one that is ignored.
LEMMA FailsUnheard ==
  ASSUME NetworkInv, NEW r \in Requests, NEW kind \in Kinds, request[r] = "open",
         NEW to \in {kind, "done", "other"}, kind = "abort" \/ r \in Ignored,
         request' = [request EXCEPT ![r] = to],
         UNCHANGED <<promote, failures, suppressed, remembered, tangled, reported, capturing>>
  PROVE  NetworkInv'
<1>1. request \in [Requests -> Stages]
  BY DEF NetworkInv, NetworkTypes
<1>2. \A q \in Requests : request'[q] = IF q = r THEN to ELSE request[q]
  BY <1>1
<1>3. to \in Rejections \union {"done"} /\ to \notin {"new", "open"}
  BY DEF Rejections, Kinds
<1>4. NetworkTypes'
  BY <1>1, <1>3 DEF NetworkInv, NetworkTypes, Stages
<1>5. HeardOf' /\ ReportsAreTrue'
  BY <1>2, <1>3 DEF NetworkInv, NetworkTypes, HeardOf, ReportsAreTrue
<1>6. EntryForEveryRejection'
  <2>1. \A k \in {"network", "timeout"} : Coming(k)' = Coming(k)
    BY <1>2 DEF Coming
  <2> QED BY <2>1 DEF NetworkInv, EntryForEveryRejection
<1> QED BY <1>4, <1>5, <1>6
        DEF NetworkInv, EveryEntrySuppresses, SuppressionIsPaidFor, OneEventPerFailure

\* A request fails and its failure is remembered: one payer more, at most one paying
\* entry more, and an entry for the rejection that comes if one comes.
LEMMA FailsHeard ==
  ASSUME NetworkInv, NEW r \in Requests \ Ignored, NEW kind \in {"network", "timeout"},
         NEW message \in Messages, request[r] = "open", Handled(r, kind, message),
         NEW to, to = (IF message = "fetch" THEN kind
                       ELSE IF message = "other" THEN "other" ELSE "done"),
         request' = [request EXCEPT ![r] = to],
         UNCHANGED <<promote, suppressed, capturing>>
  PROVE  NetworkInv'
<1> DEFINE e == FailureEntry(r, kind, message)
<1>1. /\ failures' = Remembered(e)
      /\ reported' = IF e.promoted THEN reported \union {<<r, EventOf(message)>>} ELSE reported
      /\ remembered' = remembered \union {r}
      /\ tangled' = (tangled \/ Twin(e) # {})
  BY DEF Handled
<1>2. NetworkTypes
  BY DEF NetworkInv
<1>3. /\ e \in Failure /\ e.kind = kind
      /\ Suppresses(e) => ThirdParty(r) \/ promote
      /\ promote => Suppresses(e)
      /\ e.promoted \in BOOLEAN /\ (e.promoted => promote)
  BY <1>2, EntryFacts DEF NetworkTypes
<1> HIDE DEF e
<1>4. /\ failures' \in Seq(Failure)
      /\ Count(failures', Paying) <= Count(failures, Paying) + (IF Suppresses(e) THEN 1 ELSE 0)
      /\ EveryEntrySuppresses'
      /\ \A k \in Kinds :
           /\ Count(failures', OfKind(k)) >= Count(failures, OfKind(k))
           /\ k = kind /\ Twin(e) = {}
                => Count(failures', OfKind(k)) = Count(failures, OfKind(k)) + 1
  <2>1. failures \in Seq(Failure) /\ EveryEntrySuppresses
    BY DEF NetworkInv, NetworkTypes
  <2>2. promote => \A i \in DOMAIN failures' : Suppresses(failures'[i])
    BY <1>1, <1>3, <2>1, RememberedFacts
  <2>3. EveryEntrySuppresses'
    BY <2>2 DEF EveryEntrySuppresses, Suppresses
  <2> QED BY <1>1, <1>3, <2>1, <2>3, RememberedFacts
<1>5. \A q \in Requests : request'[q] = IF q = r THEN to ELSE request[q]
  BY <1>2 DEF NetworkTypes
<1>6. r \notin remembered
  BY DEF NetworkInv, HeardOf
<1>7. /\ IsFiniteSet(remembered')
      /\ remembered' \subseteq Requests
  BY <1>1, <1>2, FS_AddElement DEF NetworkTypes
<1>8. NetworkTypes'
  <2>1. request' \in [Requests -> Stages] /\ tangled' \in BOOLEAN
    BY <1>1, <1>2 DEF NetworkTypes, Stages, Rejections, Kinds
  <2> QED BY <1>2, <1>4, <1>7, <2>1 DEF NetworkTypes
<1>9. HeardOf'
  BY <1>1, <1>2, <1>5 DEF NetworkInv, NetworkTypes, HeardOf
<1>10. ReportsAreTrue'
  <2> SUFFICES ASSUME NEW q \in Requests
               PROVE  /\ <<q, "network">> \in reported' =>
                           promote /\ q \notin Ignored /\ request'[q] \notin {"new", "open", "other"}
                      /\ <<q, "exception">> \in reported' => request'[q] \notin {"new", "open"}
    BY DEF ReportsAreTrue
  <2>1. /\ <<q, "network">> \in reported =>
             promote /\ q \notin Ignored /\ request[q] \notin {"new", "open", "other"}
        /\ <<q, "exception">> \in reported => request[q] \notin {"new", "open"}
    BY DEF NetworkInv, ReportsAreTrue
  <2>2. <<q, "exception">> \in reported' => <<q, "exception">> \in reported
    BY <1>1 DEF EventOf
  <2>3. <<q, "network">> \in reported' =>
          <<q, "network">> \in reported \/ (q = r /\ e.promoted /\ message # "other")
    BY <1>1 DEF EventOf
  <2>4. CASE q = r
    <3>1. request'[q] = to /\ to \notin {"new", "open"}
      BY <1>5, <2>4
    <3>2. message # "other" => to # "other"
      OBVIOUS
    <3> QED BY <1>3, <2>1, <2>2, <2>3, <2>4, <3>1, <3>2
  <2>5. CASE q # r
    BY <1>5, <2>1, <2>2, <2>3, <2>5
  <2> QED BY <2>4, <2>5
<1>11. OneEventPerFailure'
  <2> SUFFICES ASSUME ~tangled', NEW q \in Requests
               PROVE  ~({<<q, "network">>, <<q, "exception">>} \subseteq reported')
    BY DEF OneEventPerFailure
  <2>1. ~tangled
    BY <1>1
  <2>2. <<q, "exception">> \in reported' => <<q, "exception">> \in reported
    BY <1>1 DEF EventOf
  <2>3. CASE q = r
    BY <2>2, <2>3 DEF NetworkInv, ReportsAreTrue
  <2>4. CASE q # r
    BY <1>1, <2>1, <2>4 DEF NetworkInv, OneEventPerFailure, EventOf
  <2> QED BY <2>3, <2>4
<1>12. EntryForEveryRejection'
  <2> SUFFICES ASSUME NEW k \in {"network", "timeout"}
               PROVE  /\ Coming(k)' \subseteq remembered'
                      /\ ~tangled' => Cardinality(Coming(k)') <= Count(failures', OfKind(k))
    BY DEF EntryForEveryRejection
  <2>0. IsFiniteSet(Coming(k)) /\ Cardinality(Coming(k)) \in Nat
    BY ComingIsFinite
  <2>1. /\ Count(failures, OfKind(k)) \in Nat /\ Count(failures', OfKind(k)) \in Nat
        /\ Coming(k) \subseteq remembered
        /\ ~tangled => Cardinality(Coming(k)) <= Count(failures, OfKind(k))
        /\ Count(failures', OfKind(k)) >= Count(failures, OfKind(k))
    BY <1>2, <1>4, CountType DEF NetworkInv, NetworkTypes, EntryForEveryRejection, Kinds
  <2>2. CASE message = "fetch" /\ k = kind
    <3>1. Coming(k)' = Coming(k) \union {r}
      BY <1>5, <2>2 DEF Coming
    <3>2. Coming(k)' \subseteq remembered'
      BY <1>1, <2>1, <3>1
    <3>3. Cardinality(Coming(k) \union {r})
            = IF r \in Coming(k) THEN Cardinality(Coming(k)) ELSE Cardinality(Coming(k)) + 1
      BY <2>0, FS_AddElement
    <3>4. r \notin Coming(k)
      BY DEF Coming
    <3>5. Cardinality(Coming(k)') = Cardinality(Coming(k)) + 1
      BY <3>1, <3>3, <3>4
    <3>6. ASSUME ~tangled' PROVE Cardinality(Coming(k)') <= Count(failures', OfKind(k))
      <4>1. ~tangled /\ Twin(e) = {}
        BY <1>1, <3>6
      <4>2. Count(failures', OfKind(k)) = Count(failures, OfKind(k)) + 1
        BY <1>4, <2>2, <4>1 DEF Kinds
      <4> QED BY <2>0, <2>1, <3>5, <4>1, <4>2
    <3> QED BY <3>2, <3>6
  <2>3. CASE ~(message = "fetch" /\ k = kind)
    <3>1. Coming(k)' = Coming(k)
      BY <1>5, <2>3 DEF Coming
    <3>2. Coming(k)' \subseteq remembered'
      BY <1>1, <2>1, <3>1
    <3>3. ASSUME ~tangled' PROVE Cardinality(Coming(k)') <= Count(failures', OfKind(k))
      <4>1. ~tangled
        BY <1>1, <3>3
      <4> QED BY <2>0, <2>1, <3>1, <4>1
    <3> QED BY <3>2, <3>3
  <2> QED BY <2>2, <2>3
<1>13. SuppressionIsPaidFor'
  <2>1. /\ Count(failures, Paying) \in Nat /\ Count(failures', Paying) \in Nat
        /\ suppressed + Count(failures, Paying) <= Cardinality(Payers)
        /\ IsFiniteSet(Payers) /\ Cardinality(Payers) \in Nat /\ suppressed \in Nat
    BY <1>2, <1>4, CountType, PaidByCount, PayersAreFinite DEF NetworkInv, NetworkTypes
  <2>2. CASE ThirdParty(r) \/ promote
    <3>1. Payers' = Payers \union {r} /\ r \notin Payers
      BY <1>1, <1>6, <2>2 DEF Payers, ThirdParty
    <3>2. Cardinality(Payers') = Cardinality(Payers) + 1
      BY <2>1, <3>1, FS_AddElement
    <3>3. suppressed' + Count(failures', Paying) <= Cardinality(Payers')
      BY <1>4, <2>1, <3>2
    <3> QED BY <1>4, <3>3, PaidByCountNext
  <2>3. CASE ~(ThirdParty(r) \/ promote)
    <3>1. Payers' = Payers
      BY <1>1, <2>3 DEF Payers, ThirdParty
    <3>2. suppressed' + Count(failures', Paying) <= Cardinality(Payers')
      BY <1>3, <1>4, <2>1, <2>3, <3>1
    <3> QED BY <1>4, <3>2, PaidByCountNext
  <2> QED BY <2>2, <2>3
<1> QED BY <1>4, <1>8, <1>9, <1>10, <1>11, <1>12, <1>13 DEF NetworkInv

-----------------------------------------------------------------------------
(* An entry leaves, or changes.                                            *)

\* What the entries without the one at i are.
LEMMA WithoutEntry ==
  ASSUME NetworkInv, NEW i \in 1..Len(failures), NEW t \in Seq(Failure),
         IsWithout(t, failures, i)
  PROVE  /\ promote => \A j \in DOMAIN t : Suppresses(t[j])
         /\ Count(failures, Paying) \in Nat /\ Count(t, Paying) \in Nat
         /\ Count(t, Paying) =
              IF Suppresses(failures[i]) THEN Count(failures, Paying) - 1
              ELSE Count(failures, Paying)
         /\ \A kind \in Kinds :
              /\ Count(failures, OfKind(kind)) \in Nat /\ Count(t, OfKind(kind)) \in Nat
              /\ Count(t, OfKind(kind)) =
                   IF failures[i].kind = kind THEN Count(failures, OfKind(kind)) - 1
                   ELSE Count(failures, OfKind(kind))
<1>1. failures \in Seq(Failure) /\ EveryEntrySuppresses
  BY DEF NetworkInv, NetworkTypes
<1>2. /\ Len(failures) \in Nat /\ DOMAIN failures = 1..Len(failures)
      /\ DOMAIN t = 1..Len(t) /\ failures[i] \in Failure
  BY <1>1, LenProperties, ElementOfSeq
<1>3. \A T : /\ Count(failures, T) \in Nat /\ Count(t, T) \in Nat
             /\ Count(t, T) = IF failures[i] \in T THEN Count(failures, T) - 1
                              ELSE Count(failures, T)
  <2> TAKE T
  <2>1. Count(failures, T) \in Nat /\ Count(t, T) \in Nat
    BY <1>1, CountType
  <2>2. Count(t, T) = IF failures[i] \in T THEN Count(failures, T) - 1 ELSE Count(failures, T)
    BY <1>1, CountWithout
  <2> QED BY <2>1, <2>2
<1>4. failures[i] \in Paying <=> Suppresses(failures[i])
  BY <1>2 DEF Paying
<1>5. \A kind \in Kinds : failures[i] \in OfKind(kind) <=> failures[i].kind = kind
  BY <1>2 DEF OfKind
<1>6. ASSUME promote, NEW j \in DOMAIN t PROVE Suppresses(t[j])
  <2>1. /\ j < i => j \in DOMAIN failures
        /\ j + 1 \in DOMAIN failures
    BY <1>2 DEF IsWithout
  <2> QED BY <1>1, <1>2, <1>6, <2>1 DEF EveryEntrySuppresses, IsWithout
<1> QED BY <1>3, <1>4, <1>5, <1>6

\* A rejection takes an entry: one of its kind, so that both sides of
\* EntryForEveryRejection lose one, and a paying one if it is suppressed for it.
LEMMA TakesAnEntry ==
  ASSUME NetworkInv, NEW x, x \in Requests => request[x] \notin {"new", "open"},
         NEW sort \in {"network", "timeout"},
         NEW i \in 1..Len(failures), failures[i].kind = sort, Taken(i),
         \/ /\ Suppresses(failures[i])
            /\ suppressed' = suppressed + 1 /\ reported' = reported
         \/ /\ ~Suppresses(failures[i])
            /\ suppressed' = suppressed
            /\ reported' = reported \union {<<x, "exception">>},
         request' \in [Requests -> Stages],
         \A q \in Requests : request'[q] = request[q] \/ (q = x /\ request'[q] = "done"),
         tangled' \in BOOLEAN, tangled => tangled',
         ~tangled' => /\ x \in Requests \ Ignored
                      /\ request[x] = sort /\ request'[x] = "done",
         UNCHANGED <<promote, remembered>>, capturing' \in BOOLEAN
  PROVE  NetworkInv'
<1>1. failures \in Seq(Failure) /\ NetworkTypes
  BY DEF NetworkInv, NetworkTypes
<1>2. sort \in Kinds
  BY DEF Kinds
<1>3. /\ failures' \in Seq(Failure) /\ Len(failures') = Len(failures) - 1
      /\ \A j \in 1..Len(failures') :
           failures'[j] = IF j < i THEN failures[j] ELSE failures[j + 1]
  BY <1>1, <1>2, Removed DEF Taken
<1>4. /\ promote => \A j \in DOMAIN failures' : Suppresses(failures'[j])
      /\ Count(failures, Paying) \in Nat /\ Count(failures', Paying) \in Nat
      /\ Count(failures', Paying) =
           IF Suppresses(failures[i]) THEN Count(failures, Paying) - 1
           ELSE Count(failures, Paying)
      /\ \A kind \in Kinds :
           /\ Count(failures, OfKind(kind)) \in Nat /\ Count(failures', OfKind(kind)) \in Nat
           /\ Count(failures', OfKind(kind)) =
                IF sort = kind THEN Count(failures, OfKind(kind)) - 1
                ELSE Count(failures, OfKind(kind))
  <2> DEFINE t == failures'
  <2> HIDE DEF t
  <2>1. t \in Seq(Failure) /\ IsWithout(t, failures, i)
    BY <1>3 DEF t, IsWithout
  <2>2. /\ promote => \A j \in DOMAIN t : Suppresses(t[j])
        /\ Count(failures, Paying) \in Nat /\ Count(t, Paying) \in Nat
        /\ Count(t, Paying) =
             IF Suppresses(failures[i]) THEN Count(failures, Paying) - 1
             ELSE Count(failures, Paying)
        /\ \A kind \in Kinds :
             /\ Count(failures, OfKind(kind)) \in Nat /\ Count(t, OfKind(kind)) \in Nat
             /\ Count(t, OfKind(kind)) =
                  IF failures[i].kind = kind THEN Count(failures, OfKind(kind)) - 1
                  ELSE Count(failures, OfKind(kind))
    BY <1>2, <2>1, WithoutEntry
  <2> QED BY <1>2, <2>2 DEF t
<1>6. NetworkTypes'
  BY <1>1, <1>3 DEF NetworkTypes
<1>7. HeardOf'
  BY <1>1 DEF NetworkInv, NetworkTypes, HeardOf
<1>8. \A q \in Requests :
        /\ <<q, "network">> \in reported' => <<q, "network">> \in reported
        /\ <<q, "exception">> \in reported' => <<q, "exception">> \in reported \/ q = x
  OBVIOUS
<1>9. ReportsAreTrue'
  <2> SUFFICES ASSUME NEW q \in Requests
               PROVE  /\ <<q, "network">> \in reported' =>
                           promote /\ q \notin Ignored /\ request'[q] \notin {"new", "open", "other"}
                      /\ <<q, "exception">> \in reported' => request'[q] \notin {"new", "open"}
    BY DEF ReportsAreTrue
  <2>1. /\ <<q, "network">> \in reported =>
             promote /\ q \notin Ignored /\ request[q] \notin {"new", "open", "other"}
        /\ <<q, "exception">> \in reported => request[q] \notin {"new", "open"}
    BY DEF NetworkInv, ReportsAreTrue
  <2>2. request'[q] \in {request[q], "done"} /\ (q = x => request[q] \notin {"new", "open"})
    OBVIOUS
  <2> QED BY <1>8, <2>1, <2>2
<1>10. EveryEntrySuppresses'
  BY <1>4 DEF EveryEntrySuppresses, Suppresses
<1>11. EntryForEveryRejection'
  <2> SUFFICES ASSUME NEW kind \in {"network", "timeout"}
               PROVE  /\ Coming(kind)' \subseteq remembered'
                      /\ ~tangled' =>
                           Cardinality(Coming(kind)') <= Count(failures', OfKind(kind))
    BY DEF EntryForEveryRejection
  <2>1. /\ IsFiniteSet(Coming(kind)) /\ Cardinality(Coming(kind)) \in Nat
        /\ Coming(kind) \subseteq remembered /\ kind \in Kinds
        /\ ~tangled => Cardinality(Coming(kind)) <= Count(failures, OfKind(kind))
    BY ComingIsFinite DEF NetworkInv, EntryForEveryRejection, Kinds
  <2>2. Coming(kind)' \subseteq Coming(kind)
    BY DEF Coming
  <2>3. Cardinality(Coming(kind) \ {x}) = IF x \in Coming(kind) THEN Cardinality(Coming(kind)) - 1
                                          ELSE Cardinality(Coming(kind))
    BY <2>1, FS_RemoveElement
  <2>4. ASSUME ~tangled'
        PROVE  Cardinality(Coming(kind)') <= Count(failures', OfKind(kind))
    <3>1. /\ ~tangled /\ x \in Requests \ Ignored
          /\ request[x] = sort /\ request'[x] = "done"
      BY <2>4
    <3>2. Coming(kind)' = Coming(kind) \ {x}
      BY <3>1 DEF Coming
    <3>3. x \in Coming(kind) <=> sort = kind
      BY <3>1 DEF Coming
    <3> QED BY <1>4, <2>1, <2>3, <3>1, <3>2, <3>3
  <2> QED BY <2>1, <2>2, <2>4
<1>12. SuppressionIsPaidFor'
  <2>1. /\ suppressed + Count(failures, Paying) <= Cardinality(Payers)
        /\ Cardinality(Payers) \in Nat /\ suppressed \in Nat
    BY <1>1, PaidByCount, PayersAreFinite DEF NetworkInv
  <2>2. Payers' = Payers
    BY DEF Payers, ThirdParty
  <2>3. CASE Suppresses(failures[i])
    <3>2. suppressed' = suppressed + 1
      BY <2>3
    <3>3. suppressed' + Count(failures', Paying) <= Cardinality(Payers')
      BY <1>4, <2>1, <2>2, <2>3, <3>2
    <3> QED BY <1>3, <3>3, PaidByCountNext
  <2>4. CASE ~Suppresses(failures[i])
    <3>1. suppressed' + Count(failures', Paying) <= Cardinality(Payers')
      BY <1>4, <2>1, <2>2, <2>4
    <3> QED BY <1>3, <3>1, PaidByCountNext
  <2> QED BY <2>3, <2>4
<1>13. OneEventPerFailure'
  <2> SUFFICES ASSUME ~tangled', NEW q \in Requests,
                      <<q, "network">> \in reported', <<q, "exception">> \in reported'
               PROVE  FALSE
    BY DEF OneEventPerFailure
  <2>1. ~tangled /\ <<q, "network">> \in reported
    BY <1>8
  <2>2. <<q, "exception">> \notin reported
    BY <2>1 DEF NetworkInv, OneEventPerFailure
  <2>3. q = x /\ ~Suppresses(failures[i])
    BY <1>8, <2>2
  <2>4. promote
    BY <2>1 DEF NetworkInv, ReportsAreTrue
  <2>5. Suppresses(failures[i])
    BY <1>1, <2>4, LenProperties DEF NetworkInv, EveryEntrySuppresses
  <2> QED BY <2>3, <2>5
<1> QED BY <1>6, <1>7, <1>9, <1>10, <1>11, <1>12, <1>13 DEF NetworkInv

\* An error finds no entry: it is no rejection, or its message is not looked up, or
\* its failure was never heard of, or all is tangled.
LEMMA FindsNoEntry ==
  ASSUME NetworkInv, NEW x,
         x \in Requests =>
           \/ request[x] = "other"
           \/ /\ request[x] \in {"network", "timeout"}
              /\ Count(failures, OfKind(request[x])) = 0,
         request' \in [Requests -> Stages],
         \A q \in Requests : request'[q] = request[q] \/ (q = x /\ request'[q] = "done"),
         reported' = reported \union {<<x, "exception">>},
         UNCHANGED <<promote, failures, suppressed, remembered, tangled>>,
         capturing' \in BOOLEAN
  PROVE  NetworkInv'
<1>1. failures \in Seq(Failure) /\ NetworkTypes
  BY DEF NetworkInv, NetworkTypes
<1>3. NetworkTypes'
  BY <1>1 DEF NetworkTypes
<1>4. HeardOf'
  BY <1>1 DEF NetworkInv, NetworkTypes, HeardOf
<1>5. \A q \in Requests :
        /\ <<q, "network">> \in reported' => <<q, "network">> \in reported
        /\ <<q, "exception">> \in reported' => <<q, "exception">> \in reported \/ q = x
  OBVIOUS
<1>6. ReportsAreTrue'
  <2> SUFFICES ASSUME NEW q \in Requests
               PROVE  /\ <<q, "network">> \in reported' =>
                           promote /\ q \notin Ignored /\ request'[q] \notin {"new", "open", "other"}
                      /\ <<q, "exception">> \in reported' => request'[q] \notin {"new", "open"}
    BY DEF ReportsAreTrue
  <2>1. /\ <<q, "network">> \in reported =>
             promote /\ q \notin Ignored /\ request[q] \notin {"new", "open", "other"}
        /\ <<q, "exception">> \in reported => request[q] \notin {"new", "open"}
    BY DEF NetworkInv, ReportsAreTrue
  <2>2. request'[q] \in {request[q], "done"} /\ (q = x => request[q] \notin {"new", "open"})
    OBVIOUS
  <2> QED BY <1>5, <2>1, <2>2
<1>7. EntryForEveryRejection'
  <2> SUFFICES ASSUME NEW kind \in {"network", "timeout"}
               PROVE  /\ Coming(kind)' \subseteq remembered
                      /\ ~tangled => Cardinality(Coming(kind)') <= Count(failures, OfKind(kind))
    BY DEF EntryForEveryRejection
  <2>1. Coming(kind)' \in SUBSET Coming(kind)
    BY DEF Coming
  <2>2. Cardinality(Coming(kind)') <= Cardinality(Coming(kind)) /\ IsFiniteSet(Coming(kind)')
    BY <2>1, ComingIsFinite, FS_Subset
  <2>3. Cardinality(Coming(kind)') \in Nat /\ Cardinality(Coming(kind)) \in Nat
    BY <2>2, ComingIsFinite, FS_CardinalityType
  <2>4. Count(failures, OfKind(kind)) \in Nat
    BY <1>1, CountType
  <2> QED BY <2>1, <2>2, <2>3, <2>4 DEF NetworkInv, EntryForEveryRejection
<1>8. OneEventPerFailure'
  <2> SUFFICES ASSUME ~tangled, NEW q \in Requests,
                      <<q, "network">> \in reported', <<q, "exception">> \in reported'
               PROVE  FALSE
    BY DEF OneEventPerFailure
  <2>1. <<q, "network">> \in reported
    BY <1>5
  <2>2. <<q, "exception">> \notin reported
    BY <2>1 DEF NetworkInv, OneEventPerFailure
  <2>3. q = x /\ x \in Requests \ Ignored /\ request[x] # "other"
    BY <1>5, <2>1, <2>2 DEF NetworkInv, ReportsAreTrue
  <2> DEFINE kind == request[x]
  <2>4. /\ kind \in {"network", "timeout"} /\ Count(failures, OfKind(kind)) = 0
        /\ x \in Coming(kind)
    BY <2>3 DEF Coming
  <2> HIDE DEF kind
  <2>5. Cardinality(Coming(kind)) <= 0
    BY <2>4 DEF NetworkInv, EntryForEveryRejection
  <2>6. /\ IsFiniteSet(Coming(kind)) /\ Cardinality(Coming(kind)) \in Nat
    BY <2>4, ComingIsFinite
  <2>7. Coming(kind) = {}
    BY <2>5, <2>6, FS_EmptySet
  <2> QED BY <2>4, <2>7
<1>9. EveryEntrySuppresses' /\ SuppressionIsPaidFor'
  BY DEF NetworkInv, EveryEntrySuppresses, SuppressionIsPaidFor
<1> QED BY <1>3, <1>4, <1>6, <1>7, <1>8, <1>9 DEF NetworkInv

\* The capture of a rejection with the browser's message, or of an error that sounds
\* like one.
LEMMA CapturedKeeps ==
  ASSUME NetworkInv, NEW x, NEW sort \in {"network", "timeout"}, NEW message, message # "other",
         NEW lost \in BOOLEAN, CaptureOf(x, Correlated(sort, message), lost), ~capturing,
         x \in Requests => request[x] = sort,
         ~lost => x \in Requests \ Ignored /\ request'[x] = "done",
         request' \in [Requests -> Stages],
         \A q \in Requests : request'[q] = request[q] \/ (q = x /\ request'[q] = "done"),
         UNCHANGED <<promote, remembered>>
  PROVE  NetworkInv'
<1> DEFINE i == Correlated(sort, message)
<1>1. failures \in Seq(Failure) /\ NetworkTypes /\ sort \in Kinds
  BY DEF NetworkInv, NetworkTypes, Kinds
<1>2. /\ i = 0 \/ i \in 1..Len(failures)
      /\ i # 0 => failures[i].kind = sort
      /\ i = 0 => Count(failures, OfKind(sort)) = 0
  <2> HIDE DEF i
  <2>1. i = Correlated(sort, message)
    BY DEF i
  <2> QED BY <1>1, <2>1, CorrelatedFacts
<1>3. tangled' = (tangled \/ (i # 0 /\ lost)) /\ tangled \in BOOLEAN
  BY <1>1 DEF CaptureOf, NetworkTypes
<1>4. CASE i # 0 /\ Suppresses(failures[i])
  <2>1. Taken(i) /\ suppressed' = suppressed + 1 /\ UNCHANGED <<capturing, reported>>
    BY <1>4 DEF CaptureOf, Suppresses
  <2>2. capturing' \in BOOLEAN
    BY <1>1, <2>1 DEF NetworkTypes
  <2> HIDE DEF i
  <2> QED BY <1>2, <1>3, <1>4, <2>1, <2>2, TakesAnEntry
<1>5. CASE i # 0 /\ ~Suppresses(failures[i])
  <2>1. /\ Taken(i) /\ capturing' = TRUE /\ suppressed' = suppressed
        /\ reported' = reported \union {<<x, "exception">>}
    BY <1>5 DEF CaptureOf, Suppresses
  <2> HIDE DEF i
  <2> QED BY <1>2, <1>3, <1>5, <2>1, TakesAnEntry
<1>6. CASE i = 0
  <2>1. /\ UNCHANGED <<failures, suppressed>> /\ capturing' = TRUE
        /\ reported' = reported \union {<<x, "exception">>}
    BY <1>6 DEF CaptureOf
  <2>2. tangled' = tangled
    BY <1>3, <1>6
  <2> HIDE DEF i
  <2> QED BY <1>2, <1>6, <2>1, <2>2, FindsNoEntry
<1> QED BY <1>4, <1>5, <1>6

LEMMA SurfacesKeeps ==
  ASSUME NetworkInv, NEW r \in Requests, NEW again \in BOOLEAN, Surfaces(r, again)
  PROVE  NetworkInv'
<1>1. /\ request[r] \in Rejections
      /\ request' = IF again THEN request ELSE [request EXCEPT ![r] = "done"]
      /\ UNCHANGED <<promote, remembered>>
  BY DEF Surfaces
<1>2. capturing \in BOOLEAN /\ tangled \in BOOLEAN /\ request \in [Requests -> Stages]
  BY DEF NetworkInv, NetworkTypes
<1>3. CASE request[r] = "abort" \/ capturing
  <2>1. UNCHANGED <<failures, capturing, reported, suppressed, tangled>>
    BY <1>2, <1>3 DEF Surfaces, CaptureOf
  <2>2. CASE again
    BY <1>1, <1>2, <2>1, <2>2, AsideKeeps
  <2>3. CASE ~again
    BY <1>1, <1>2, <2>1, <2>3, MovesOn DEF Rejections, Kinds
  <2> QED BY <2>2, <2>3
<1>4. CASE ~(request[r] = "abort" \/ capturing)
  <2>1. /\ request' \in [Requests -> Stages]
        /\ \A q \in Requests : request'[q] = request[q] \/ (q = r /\ request'[q] = "done")
        /\ ~again => request'[r] = "done"
    BY <1>1, <1>2 DEF Stages
  <2>2. CaptureOf(r, Correlated(KindOf(request[r]), MessageOf(request[r])),
                 again \/ r \in Ignored)
    BY <1>4 DEF Surfaces
  <2>3. CASE request[r] \in {"network", "timeout"}
    <3> DEFINE sort == request[r]
               lost == (again \/ r \in Ignored)
    <3>1. sort \in {"network", "timeout"} /\ request[r] = sort
      BY <2>3
    <3>2. lost \in BOOLEAN /\ (~lost => r \in Requests \ Ignored /\ request'[r] = "done")
      BY <2>1
    <3>3. CaptureOf(r, Correlated(sort, "fetch"), lost)
      BY <2>2, <2>3 DEF KindOf, MessageOf
    <3> HIDE DEF sort, lost
    <3> QED BY <1>1, <1>4, <2>1, <3>1, <3>2, <3>3, CapturedKeeps
  <2>4. CASE request[r] = "other"
    <3>1. Correlated(KindOf(request[r]), MessageOf(request[r])) = 0
      BY <2>4 DEF MessageOf, Correlated
    <3>2. /\ UNCHANGED <<failures, suppressed>> /\ capturing' = TRUE /\ tangled' = tangled
          /\ reported' = reported \union {<<r, "exception">>}
      BY <1>2, <1>4, <2>2, <3>1 DEF CaptureOf
    <3> QED BY <1>1, <2>1, <2>4, <3>2, FindsNoEntry
  <2> QED BY <1>1, <1>4, <2>3, <2>4 DEF Rejections, Kinds
<1> QED BY <1>3, <1>4

\* An error of the application.
LEMMA ThrowsKeeps ==
  ASSUME NetworkInv, NEW e \in Errors, Throws(e)
  PROVE  NetworkInv'
<1>1. /\ UNCHANGED <<promote, request, remembered>> /\ e \notin Requests
      /\ CaptureOf(e, IF e \in Likely THEN Correlated("network", "import") ELSE 0, TRUE)
  BY NetworkAssumption DEF Throws
<1>2. capturing \in BOOLEAN /\ tangled \in BOOLEAN /\ request' \in [Requests -> Stages]
  BY <1>1 DEF NetworkInv, NetworkTypes
<1>3. CASE capturing
  <2>1. UNCHANGED <<failures, capturing, reported, suppressed, tangled>>
    BY <1>1, <1>2, <1>3 DEF CaptureOf
  <2> QED BY <1>1, <1>2, <2>1, AsideKeeps
<1>4. CASE ~capturing /\ e \in Likely
  <2>1. CaptureOf(e, Correlated("network", "import"), TRUE)
    BY <1>1, <1>4
  <2> QED BY <1>1, <1>2, <1>4, <2>1, CapturedKeeps
<1>5. CASE ~capturing /\ e \notin Likely
  <2>1. /\ UNCHANGED <<failures, suppressed>> /\ capturing' = TRUE /\ tangled' = tangled
        /\ reported' = reported \union {<<e, "exception">>}
    BY <1>1, <1>2, <1>5 DEF CaptureOf
  <2> QED BY <1>1, <1>2, <2>1, FindsNoEntry
<1> QED BY <1>3, <1>4, <1>5

-----------------------------------------------------------------------------
(* The entries.                                                            *)

\* An entry becomes old: what is counted is not.
LEMMA AgesKeeps ==
  ASSUME NetworkInv, NEW i \in DOMAIN failures, EntryAges(i)
  PROVE  NetworkInv'
<1> DEFINE g == [failures[i] EXCEPT !.young = FALSE]
<1>1. failures \in Seq(Failure) /\ NetworkTypes
  BY DEF NetworkInv, NetworkTypes
<1>2. /\ Len(failures) \in Nat /\ DOMAIN failures = 1..Len(failures)
      /\ i \in 1..Len(failures) /\ failures[i] \in Failure
  BY <1>1, LenProperties, ElementOfSeq
<1>3. /\ g \in Failure /\ g.kind = failures[i].kind
      /\ g.promoted = failures[i].promoted /\ g.third = failures[i].third
  BY <1>2 DEF Failure
<1>4. /\ failures' = [failures EXCEPT ![i] = g]
      /\ UNCHANGED <<promote, request, capturing, reported, suppressed, remembered, tangled>>
  BY DEF EntryAges
<1> HIDE DEF g
<1>5. /\ failures' \in Seq(Failure) /\ DOMAIN failures' = DOMAIN failures
      /\ \A j \in DOMAIN failures : failures'[j] = IF j = i THEN g ELSE failures[j]
  BY <1>1, <1>2, <1>3, <1>4, ExceptSeq, LenProperties
<1>6. \A T : (g \in T <=> failures[i] \in T) => Count(failures', T) = Count(failures, T)
  <2> TAKE T
  <2>1. (g \in T <=> failures[i] \in T)
          => Count([failures EXCEPT ![i] = g], T) = Count(failures, T)
    <3>1. failures \in Seq(Failure) /\ i \in 1..Len(failures) /\ g \in Failure
      BY <1>1, <1>2, <1>3
    <3> QED BY <3>1, CountChanged
  <2> QED BY <1>4, <2>1
<1>7. Count(failures', Paying) = Count(failures, Paying)
  <2>1. g \in Paying <=> failures[i] \in Paying
    BY <1>2, <1>3 DEF Paying, Suppresses
  <2> QED BY <1>6, <2>1
<1>8. \A kind \in Kinds : Count(failures', OfKind(kind)) = Count(failures, OfKind(kind))
  <2>1. \A kind \in Kinds : g \in OfKind(kind) <=> failures[i] \in OfKind(kind)
    BY <1>2, <1>3 DEF OfKind
  <2> QED BY <1>6, <2>1
<1>9. NetworkTypes' /\ HeardOf' /\ ReportsAreTrue' /\ OneEventPerFailure'
  BY <1>1, <1>4, <1>5
     DEF NetworkInv, NetworkTypes, HeardOf, ReportsAreTrue, OneEventPerFailure
<1>10. EveryEntrySuppresses'
  <2> SUFFICES ASSUME promote, NEW j \in DOMAIN failures PROVE Suppresses(failures'[j])
    BY <1>4, <1>5 DEF EveryEntrySuppresses
  <2>1. Suppresses(failures[j]) /\ Suppresses(failures[i])
    BY DEF NetworkInv, EveryEntrySuppresses
  <2> QED BY <1>3, <1>5, <2>1 DEF Suppresses
<1>11. EntryForEveryRejection'
  <2>1. \A kind \in {"network", "timeout"} :
          /\ Coming(kind)' = Coming(kind)
          /\ Count(failures', OfKind(kind)) = Count(failures, OfKind(kind))
    BY <1>4, <1>8 DEF Coming, Kinds
  <2> QED BY <1>4, <2>1 DEF NetworkInv, EntryForEveryRejection
<1>12. SuppressionIsPaidFor'
  <2>1. suppressed + Count(failures, Paying) <= Cardinality(Payers)
    BY <1>1, PaidByCount DEF NetworkInv
  <2>2. Payers' = Payers
    BY <1>4 DEF Payers, ThirdParty
  <2> QED BY <1>4, <1>5, <1>7, <2>1, <2>2, PaidByCountNext
<1> QED BY <1>9, <1>10, <1>11, <1>12 DEF NetworkInv

\* The oldest entry leaves.
LEMMA ExpiresKeeps ==
  ASSUME NetworkInv, Expires
  PROVE  NetworkInv'
<1>1. failures \in Seq(Failure) /\ NetworkTypes
  BY DEF NetworkInv, NetworkTypes
<1>2. /\ failures # <<>> /\ failures' = Tail(failures)
      /\ tangled' = (tangled \/ \E r \in Requests : request[r] = Head(failures).kind)
      /\ UNCHANGED <<promote, request, capturing, reported, suppressed, remembered>>
  BY DEF Expires
<1>3. /\ failures' \in Seq(Failure) /\ Len(failures') = Len(failures) - 1
      /\ 1 \in 1..Len(failures) /\ Head(failures) = failures[1]
      /\ \A j \in 1..Len(failures') :
           failures'[j] = IF j < 1 THEN failures[j] ELSE failures[j + 1]
  BY <1>1, <1>2, TailDrops
<1>4. /\ promote => \A j \in DOMAIN failures' : Suppresses(failures'[j])
      /\ Count(failures, Paying) \in Nat /\ Count(failures', Paying) \in Nat
      /\ Count(failures', Paying) =
           IF Suppresses(failures[1]) THEN Count(failures, Paying) - 1
           ELSE Count(failures, Paying)
      /\ \A kind \in Kinds :
           /\ Count(failures, OfKind(kind)) \in Nat /\ Count(failures', OfKind(kind)) \in Nat
           /\ Count(failures', OfKind(kind)) =
                IF failures[1].kind = kind THEN Count(failures, OfKind(kind)) - 1
                ELSE Count(failures, OfKind(kind))
  <2>1. IsWithout(failures', failures, 1)
    BY <1>3 DEF IsWithout
  <2> QED BY <1>3, <2>1, WithoutEntry
<1>5. NetworkTypes'
  BY <1>1, <1>2, <1>3 DEF NetworkTypes
<1>6. HeardOf' /\ ReportsAreTrue'
  BY <1>2 DEF NetworkInv, HeardOf, ReportsAreTrue
<1>7. OneEventPerFailure'
  BY <1>2 DEF NetworkInv, OneEventPerFailure
<1>8. EveryEntrySuppresses'
  BY <1>2, <1>4 DEF EveryEntrySuppresses, Suppresses
<1>9. EntryForEveryRejection'
  <2> SUFFICES ASSUME NEW kind \in {"network", "timeout"}
               PROVE  /\ Coming(kind)' \subseteq remembered'
                      /\ ~tangled' =>
                           Cardinality(Coming(kind)') <= Count(failures', OfKind(kind))
    BY DEF EntryForEveryRejection
  <2>1. /\ Coming(kind) \subseteq remembered /\ kind \in Kinds
        /\ ~tangled => Cardinality(Coming(kind)) <= Count(failures, OfKind(kind))
    BY DEF NetworkInv, EntryForEveryRejection, Kinds
  <2>2. Coming(kind)' = Coming(kind)
    BY <1>2 DEF Coming
  <2>3. ASSUME ~tangled', failures[1].kind = kind
        PROVE  Cardinality(Coming(kind)) = 0
    <3>1. Coming(kind) = {}
      BY <1>2, <1>3, <2>3 DEF Coming
    <3> QED BY <3>1, FS_EmptySet
  <2>4. ASSUME ~tangled'
        PROVE  Cardinality(Coming(kind)) <= Count(failures', OfKind(kind))
    <3>1. ~tangled
      BY <1>2, <2>4
    <3>2. CASE failures[1].kind = kind
      BY <1>4, <2>1, <2>3, <2>4, <3>2
    <3>3. CASE failures[1].kind # kind
      BY <1>4, <2>1, <3>1, <3>3
    <3> QED BY <3>2, <3>3
  <2> QED BY <1>2, <2>1, <2>2, <2>4
<1>10. SuppressionIsPaidFor'
  <2>1. /\ suppressed + Count(failures, Paying) <= Cardinality(Payers)
        /\ Cardinality(Payers) \in Nat /\ suppressed \in Nat
    BY <1>1, PaidByCount, PayersAreFinite DEF NetworkInv
  <2>2. Payers' = Payers
    BY <1>2 DEF Payers, ThirdParty
  <2>3. suppressed' + Count(failures', Paying) <= Cardinality(Payers')
    BY <1>2, <1>4, <2>1, <2>2
  <2> QED BY <1>3, <2>3, PaidByCountNext
<1> QED BY <1>5, <1>6, <1>7, <1>8, <1>9, <1>10 DEF NetworkInv

LEMMA FailsKeeps ==
  ASSUME NetworkInv, NEW r \in Requests, NEW kind \in Kinds, NEW message \in Messages,
         request[r] = "open", Handled(r, kind, message),
         NEW to, to = (IF message = "fetch" THEN kind
                       ELSE IF message = "other" THEN "other" ELSE "done"),
         request' = [request EXCEPT ![r] = to],
         UNCHANGED <<promote, capturing, suppressed>>
  PROVE  NetworkInv'
<1>1. CASE kind = "abort" \/ r \in Ignored
  <2>1. UNCHANGED <<failures, reported, remembered, tangled>>
    BY <1>1 DEF Handled
  <2>2. to \in {kind, "done", "other"}
    OBVIOUS
  <2> QED BY <1>1, <2>1, <2>2, FailsUnheard
<1>2. CASE ~(kind = "abort" \/ r \in Ignored)
  <2>1. r \in Requests \ Ignored /\ kind \in {"network", "timeout"}
    BY <1>2 DEF Kinds
  <2> QED BY <2>1, FailsHeard
<1> QED BY <1>1, <1>2

LEMMA NetworkNextInv == NetworkInv /\ [NetworkNext]_networkVars => NetworkInv'
<1> SUFFICES ASSUME NetworkInv, [NetworkNext]_networkVars PROVE NetworkInv'
  OBVIOUS
<1>0. capturing \in BOOLEAN /\ tangled \in BOOLEAN
  BY DEF NetworkInv, NetworkTypes
<1>1. ASSUME NEW r \in Requests, Sends(r) PROVE NetworkInv'
  BY <1>0, <1>1, MovesOn DEF Sends
<1>2. ASSUME NEW r \in Requests, Catches(r) PROVE NetworkInv'
  BY <1>0, <1>2, MovesOn DEF Catches, Rejections, Kinds
<1>3. ASSUME NEW r \in Requests, NEW b \in BOOLEAN, Surfaces(r, b) PROVE NetworkInv'
  BY <1>3, SurfacesKeeps
<1>4. ASSUME NEW r \in Requests, NEW b \in BOOLEAN, Responds(r, b) PROVE NetworkInv'
  <2>1. (reported' = reported) \/ (reported' = reported \union {<<r, "http">>})
    BY <1>4 DEF Responds
  <2> QED BY <1>0, <1>4, <2>1, MovesOn DEF Responds
<1>5. ASSUME NEW r \in Requests, NEW how \in Rejections, FetchRejects(r, how) PROVE NetworkInv'
  <2> DEFINE kind == KindOf(how)
             message == MessageOf(how)
  <2>1. /\ kind \in Kinds /\ message \in Messages
        /\ how = IF message = "fetch" THEN kind ELSE IF message = "other" THEN "other" ELSE "done"
    BY DEF KindOf, MessageOf, Rejections, Kinds, Messages
  <2>2. /\ request[r] = "open" /\ request' = [request EXCEPT ![r] = how]
        /\ Handled(r, kind, message) /\ UNCHANGED <<promote, capturing, suppressed>>
    BY <1>5 DEF FetchRejects
  <2> HIDE DEF kind, message
  <2> QED BY <2>1, <2>2, FailsKeeps
<1>6. ASSUME NEW r \in Requests, NEW k \in Kinds, XhrFails(r, k) PROVE NetworkInv'
  <2>1. "xhr" \in Messages /\ "done" = IF "xhr" = "fetch" THEN k
                                      ELSE IF "xhr" = "other" THEN "other" ELSE "done"
    BY DEF Messages
  <2> QED BY <1>6, <2>1, FailsKeeps DEF XhrFails
<1>7. ASSUME NEW i \in DOMAIN failures, EntryAges(i) PROVE NetworkInv'
  BY <1>7, AgesKeeps
<1>8. ASSUME Expires PROVE NetworkInv'
  BY <1>8, ExpiresKeeps
<1>9. ASSUME NEW e \in Errors, Throws(e) PROVE NetworkInv'
  BY <1>9, ThrowsKeeps
<1>10. ASSUME CaptureEnds PROVE NetworkInv'
  BY <1>10, AsideKeeps DEF CaptureEnds
<1>11. ASSUME UNCHANGED networkVars PROVE NetworkInv'
  BY <1>0, <1>11, AsideKeeps DEF networkVars
<1> QED BY <1>1, <1>2, <1>3, <1>4, <1>5, <1>6, <1>7, <1>8, <1>9, <1>10, <1>11
        DEF NetworkNext

\* The inductive invariant of the failures and their rejections.
THEOREM NetworkInductive == NetworkSpec => []NetworkInv
BY NetworkInitInv, NetworkNextInv, PTL DEF NetworkSpec

\* No more exceptions are suppressed than failures were reported, or are others':
\* the errors that consumeCorrelatedNetworkFailure drops, counted against the
\* failures that rememberNetworkFailure has been told of.
THEOREM Paid == NetworkSpec => []SuppressionIsPaidFor
<1>1. NetworkInv => SuppressionIsPaidFor
  BY DEF NetworkInv
<1> QED BY <1>1, NetworkInductive, PTL

\* Until failures merge, an entry expires too early or another error takes one, a
\* failure with the browser's own message that became an event is not captured as an
\* exception as well.
THEOREM OneEvent == NetworkSpec => []OneEventPerFailure
<1>1. NetworkInv => OneEventPerFailure
  BY DEF NetworkInv
<1> QED BY <1>1, NetworkInductive, PTL

-----------------------------------------------------------------------------
(***************************************************************************)
(* The heatmap.                                                            *)
(***************************************************************************)
(* Induction.                                                              *)

\* A set of naturals that holds 0 and with each number the next one holds all: the
\* induction that what is said of the recursive functions rests on.
LEMMA Induction ==
  ASSUME NEW P \in SUBSET Nat, 0 \in P, \A n \in P : n + 1 \in P
  PROVE  P = Nat
<1> SUFFICES ASSUME Nat \ P # {} PROVE FALSE
  OBVIOUS
<1> DEFINE R == OpToRel(<, Nat)
<1>1. PICK m \in Nat \ P : \A k \in Nat \ P : <<k, m>> \notin R
  <2>1. IsWellFoundedOn(R, Nat)
    BY NatLessThanWellFounded
  <2> HIDE DEF R
  <2> QED BY <2>1, WFMin
<1>2. m # 0 /\ m - 1 \in Nat
  OBVIOUS
<1>3. <<m - 1, m>> \in R
  BY <1>2 DEF OpToRel
<1> HIDE DEF R
<1>4. m - 1 \in P
  BY <1>1, <1>2, <1>3
<1>5. (m - 1) + 1 \in P
  BY <1>4
<1> QED BY <1>5

\* A step function defines a function on 0..n.
Iterates(f, n, S, base, step) ==
  f \in [0..n -> S] /\ f[0] = base /\ \A i \in 1..n : f[i] = step[<<i, f[i - 1]>>]

\* A step function and a first value determine a function on 0..m.
LEMMA Recursion ==
  ASSUME NEW S, NEW base \in S, NEW step \in [Nat \X S -> S], NEW m \in Nat
  PROVE  \E f : Iterates(f, m, S, base, step)
<1> USE DEF Iterates
<1> DEFINE P == {n \in Nat : \E f \in [0..n -> S] :
                   f[0] = base /\ \A i \in 1..n : f[i] = step[<<i, f[i - 1]>>]}
<1>1. 0 \in P
  <2> DEFINE f == [i \in 0..0 |-> base]
  <2>1. f \in [0..0 -> S] /\ f[0] = base /\ \A i \in 1..0 : f[i] = step[<<i, f[i - 1]>>]
    OBVIOUS
  <2> QED BY <2>1
<1>2. ASSUME NEW n \in P PROVE n + 1 \in P
  <2>1. PICK f \in [0..n -> S] :
          f[0] = base /\ \A i \in 1..n : f[i] = step[<<i, f[i - 1]>>]
    OBVIOUS
  <2>2. f[n] \in S /\ n \in Nat
    OBVIOUS
  <2> DEFINE g == [i \in 0..n + 1 |-> IF i <= n THEN f[i] ELSE step[<<n + 1, f[n]>>]]
  <2>3. step[<<n + 1, f[n]>>] \in S
    BY <2>2
  <2>4. g \in [0..n + 1 -> S]
    BY <2>2, <2>3
  <2>5. g[0] = base
    BY <2>1, <2>2
  <2>6. ASSUME NEW i \in 1..n + 1 PROVE g[i] = step[<<i, g[i - 1]>>]
    <3>1. CASE i = n + 1
      <4>1. n + 1 \in 0..n + 1 /\ n \in 0..n + 1 /\ n <= n /\ ~(n + 1 <= n) /\ (n + 1) - 1 = n
        BY <2>2
      <4>2. g[n + 1] = step[<<n + 1, f[n]>>] /\ g[n] = f[n]
        BY <4>1
      <4> QED BY <3>1, <4>1, <4>2
    <3>2. CASE i \in 1..n
      <4>1. i \in 0..n + 1 /\ i - 1 \in 0..n + 1 /\ i <= n /\ i - 1 <= n
        BY <2>2, <3>2
      <4>2. g[i] = f[i] /\ g[i - 1] = f[i - 1]
        BY <4>1
      <4> QED BY <2>1, <3>2, <4>2
    <3> QED BY <2>2, <3>1, <3>2
  <2> HIDE DEF g
  <2> QED BY <2>2, <2>4, <2>5, <2>6
<1> HIDE DEF P
<1>3. P \in SUBSET Nat
  BY DEF P
<1>4. P = Nat
  BY <1>1, <1>2, <1>3, Induction
<1> QED BY <1>4 DEF P

-----------------------------------------------------------------------------
(* Clicks of the heatmap.                                                  *)

\* A sequence holds nothing twice.
Once(s) == \A i, j \in DOMAIN s : s[i] = s[j] => i = j

View == [id : Nat, clicks : Seq(Clicks), count : 0..MaxClicks, sentOnce : BOOLEAN,
         dirty : BOOLEAN]
BatchEntry == [view : Nat, clicks : Seq(Clicks)]
Batch == Seq(BatchEntry)
Post == [click : Clicks, view : Nat]
Shot == [view : Nat, step : {"settle", "load", "gzip"}, of : Paths \union {NoPath},
         withdrawn : BOOLEAN]
Shown == [view : Nat, of : Paths \union {NoPath}, withdrawn : BOOLEAN]

\* The open page view is of the page that was seen last, and with consent that is the
\* one shown; a recorder that is disabled has none.
CurrentIsShown ==
  /\ current # <<>> => /\ CurrentId \in 1..Len(pages) /\ pages[CurrentId] = lastPath
                       /\ ~killed
  /\ consent => lastPath = path

\* A page view is of the page on which its clicks were made.
ViewRight(view) ==
  /\ view.id \in 1..Len(pages)
  /\ \A c \in Range(view.clicks) : at[c] = pages[view.id]

\* So are all of the buffer, and the clicks to come into the open one.
BufferRight ==
  /\ \A i \in DOMAIN waiting : ViewRight(waiting[i])
  /\ \A i \in DOMAIN current : ViewRight(current[i])
  /\ \A c \in Range(pending) :
       at[c] # NoPath /\ (current # <<>> => at[c] = pages[CurrentId])

\* No two of the page views have a click in common, and none of them one twice.
Distinct(views) ==
  \A i, j \in DOMAIN views :
    /\ Once(views[i].clicks)
    /\ i # j => Range(views[i].clicks) \intersect Range(views[j].clicks) = {}

\* A click is held in one place.
HeldOnce ==
  /\ Once(pending) /\ Distinct(waiting) /\ Distinct(current)
  /\ ClicksIn(waiting) \intersect ClicksIn(current) = {}
  /\ Range(pending) \intersect (ClicksIn(waiting) \union ClicksIn(current)) = {}

\* A click goes, or went, to the page on which it was made.
PostRight(p) ==
  p.view \in 1..Len(pages) /\ at[p.click] \in Paths /\ pages[p.view] = at[p.click]

\* A click goes to one page view.
OneView(posts) == \A p, q \in posts : p.click = q.click => p.view = q.view

\* What one batch keeps.
BatchFits(batch) == Len(batch) <= BatchViews /\ ClicksOf(batch) <= BatchClicks

\* The batches that are still to come have none of the clicks that are held, posted, or
\* in another one of them.
BatchesRight ==
  \A i \in DOMAIN batches :
    /\ BatchFits(batches[i])
    /\ OneView(PostsOf(batches[i]))
    /\ \A p \in PostsOf(batches[i]) : PostRight(p)
    /\ i # 1 => \A p \in PostsOf(batches[i]) :
                  p.click \notin Held /\ \A q \in posted : q.click # p.click
    /\ \A j \in DOMAIN batches : i # j =>
         \A p \in PostsOf(batches[i]), q \in PostsOf(batches[j]) : p.click # q.click

PostedRight ==
  /\ OneView(posted)
  /\ \A p \in posted : PostRight(p) /\ p.click \notin Held

\* A snapshot under way is of a page view there was; one that was not withdrawn was
\* begun with consent, and shows the page of the page view if that is still open.
ShotsRight ==
  \A s \in shots :
    /\ s.view \in 1..Len(pages)
    /\ s.step = "load" /\ ~s.withdrawn => consent
    /\ s.step = "gzip" /\ ~s.withdrawn /\ s.view = CurrentId => s.of = pages[s.view]

UploadsRight ==
  \A u \in uploaded : u.view \in 1..Len(pages) /\ (u.of = pages[u.view] \/ u.withdrawn)

\* What is shown and held, what is sent, and the snapshots: with their types as far as
\* the properties rest on them.
BufferInv ==
  /\ path \in Paths /\ lastPath \in Paths \union {NoPath} /\ pages \in Seq(Paths)
  /\ consent \in BOOLEAN /\ killed \in BOOLEAN
  /\ at \in [Clicks -> Paths \union {NoPath}]
  /\ pending \in Seq(Clicks) /\ due \in 0..Len(pending)
  /\ waiting \in Seq(View) /\ current \in Seq(View) /\ Len(current) <= 1
  /\ CurrentIsShown /\ BufferRight /\ HeldOnce

SentInv ==
  /\ batches \in Seq(Batch) /\ posted \subseteq Post
  /\ BatchesRight /\ PostedRight

ShotsInv ==
  /\ shots \subseteq Shot /\ uploaded \subseteq Shown
  /\ ShotsRight /\ UploadsRight

\* The inductive invariant.
HeatmapsInv == BufferInv /\ SentInv /\ ShotsInv

-----------------------------------------------------------------------------
(* Batches.                                                                *)

\* What holds of 0 and carries over to the next one holds of all up to n.
LEMMA Climbs ==
  ASSUME NEW n \in Nat, NEW f, NEW G, f[0] \in G[0],
         \A i \in 1..n : f[i - 1] \in G[i - 1] => f[i] \in G[i]
  PROVE  \A i \in 0..n : f[i] \in G[i]
<1> DEFINE P == {i \in Nat : i <= n => f[i] \in G[i]}
<1>1. 0 \in P
  OBVIOUS
<1>2. ASSUME NEW i \in P PROVE i + 1 \in P
  <2> SUFFICES ASSUME i + 1 <= n PROVE f[i + 1] \in G[i + 1]
    OBVIOUS
  <2>1. i \in Nat /\ i <= n /\ i + 1 \in 1..n /\ (i + 1) - 1 = i
    OBVIOUS
  <2>2. f[i] \in G[i]
    BY <2>1
  <2> QED BY <2>1, <2>2
<1> HIDE DEF P
<1>3. P \in SUBSET Nat
  BY DEF P
<1>4. P = Nat
  BY <1>1, <1>2, <1>3, Induction
<1> QED BY <1>4 DEF P

\* The places of the clicks of a batch.
Places(batch) == UNION {{i} \X DOMAIN batch[i].clicks : i \in DOMAIN batch}

LEMMA PlacesFacts ==
  ASSUME NEW batch
  PROVE  /\ ClicksOf(batch) = Cardinality(Places(batch))
         /\ \A x : x \in Places(batch)
              <=> \E i \in DOMAIN batch : \E a \in DOMAIN batch[i].clicks : x = <<i, a>>
         /\ \A p : p \in PostsOf(batch)
              <=> \E i \in DOMAIN batch : \E a \in DOMAIN batch[i].clicks :
                    p = [click |-> batch[i].clicks[a], view |-> batch[i].view]
<1>1. ClicksOf(batch) = Cardinality(Places(batch))
  BY DEF ClicksOf, Places
<1>2. ASSUME NEW x
      PROVE  x \in Places(batch)
               <=> \E i \in DOMAIN batch : \E a \in DOMAIN batch[i].clicks : x = <<i, a>>
  BY DEF Places
<1>3. ASSUME NEW p
      PROVE  p \in PostsOf(batch)
               <=> \E i \in DOMAIN batch : \E a \in DOMAIN batch[i].clicks :
                     p = [click |-> batch[i].clicks[a], view |-> batch[i].view]
  BY DEF PostsOf, Range
<1> QED BY <1>1, <1>2, <1>3

\* A page view without clicks opens in a batch.
LEMMA EntryOpens ==
  ASSUME NEW batch \in Batch, NEW v \in Nat
  PROVE  LET b == Append(batch, [view |-> v, clicks |-> <<>>]) IN
         /\ b \in Batch /\ Len(b) = Len(batch) + 1 /\ b # <<>>
         /\ Last(b) = [view |-> v, clicks |-> <<>>]
         /\ Places(b) = Places(batch) /\ PostsOf(b) = PostsOf(batch)
<1> DEFINE e == [view |-> v, clicks |-> <<>>]
           b == Append(batch, e)
<1>1. <<>> \in Seq(Clicks) /\ DOMAIN <<>> = {}
  BY EmptySeq, LenProperties
<1>2. e \in BatchEntry /\ e.clicks = <<>>
  BY <1>1 DEF BatchEntry
<1>3. /\ b \in Seq(BatchEntry) /\ b # <<>> /\ Len(b) = Len(batch) + 1 /\ Len(batch) \in Nat
      /\ DOMAIN b = 1..Len(b) /\ DOMAIN batch = 1..Len(batch)
      /\ b[Len(b)] = e /\ \A i \in 1..Len(batch) : b[i] = batch[i]
  BY <1>2, AppendProperties, LenProperties DEF Batch
<1> HIDE DEF b
<1>4. DOMAIN batch \subseteq DOMAIN b /\ \A i \in DOMAIN b : i \in DOMAIN batch \/ b[i] = e
  BY <1>3
<1>5. Places(b) = Places(batch)
  <2>1. ASSUME NEW x \in Places(b) PROVE x \in Places(batch)
    <3>1. PICK i \in DOMAIN b : \E a \in DOMAIN b[i].clicks : x = <<i, a>>
      BY PlacesFacts
    <3>2. i \in DOMAIN batch /\ b[i] = batch[i]
      BY <1>1, <1>2, <1>3, <1>4, <3>1
    <3> QED BY <3>1, <3>2, PlacesFacts
  <2>2. ASSUME NEW x \in Places(batch) PROVE x \in Places(b)
    <3>1. PICK i \in DOMAIN batch : \E a \in DOMAIN batch[i].clicks : x = <<i, a>>
      BY PlacesFacts
    <3>2. i \in DOMAIN b /\ b[i] = batch[i]
      BY <1>3, <1>4
    <3> QED BY <3>1, <3>2, PlacesFacts
  <2> QED BY <2>1, <2>2
<1>6. PostsOf(b) = PostsOf(batch)
  <2>1. ASSUME NEW p \in PostsOf(b) PROVE p \in PostsOf(batch)
    <3>1. PICK i \in DOMAIN b : \E a \in DOMAIN b[i].clicks :
                 p = [click |-> b[i].clicks[a], view |-> b[i].view]
      BY PlacesFacts
    <3>2. i \in DOMAIN batch /\ b[i] = batch[i]
      BY <1>1, <1>2, <1>3, <1>4, <3>1
    <3> QED BY <3>1, <3>2, PlacesFacts
  <2>2. ASSUME NEW p \in PostsOf(batch) PROVE p \in PostsOf(b)
    <3>1. PICK i \in DOMAIN batch : \E a \in DOMAIN batch[i].clicks :
                 p = [click |-> batch[i].clicks[a], view |-> batch[i].view]
      BY PlacesFacts
    <3>2. i \in DOMAIN b /\ b[i] = batch[i]
      BY <1>3, <1>4
    <3> QED BY <3>1, <3>2, PlacesFacts
  <2> QED BY <2>1, <2>2
<1> QED BY <1>3, <1>5, <1>6 DEF b, Batch, Last

\* A click joins the last entry of a batch.
LEMMA ClickJoins ==
  ASSUME NEW batch \in Batch, batch # <<>>, NEW c \in Clicks
  PROVE  LET b == ReplaceAt(batch, Len(batch),
                            [Last(batch) EXCEPT !.clicks = Append(@, c)]) IN
         /\ b \in Batch /\ b # <<>> /\ Len(b) = Len(batch)
         /\ Last(b).view = Last(batch).view
         /\ \E x : Places(b) = Places(batch) \union {x}
         /\ PostsOf(b) = PostsOf(batch) \union {[click |-> c, view |-> Last(batch).view]}
<1> DEFINE n == Len(batch)
           last == Last(batch)
           e == [last EXCEPT !.clicks = Append(@, c)]
           b == ReplaceAt(batch, n, e)
           m == Len(last.clicks)
<1>1. n \in Nat \ {0} /\ n \in 1..n /\ DOMAIN batch = 1..n /\ last = batch[n]
  BY EmptySeq, LenProperties DEF Batch, Last
<1>2. last \in BatchEntry /\ last.clicks \in Seq(Clicks) /\ last.view \in Nat
  <2>1. batch[n] \in BatchEntry
    BY <1>1, ElementOfSeq DEF Batch
  <2> QED BY <1>1, <2>1 DEF BatchEntry
<1> HIDE DEF last
<1>3. /\ e.clicks = Append(last.clicks, c) /\ e.view = last.view
      /\ e.clicks \in Seq(Clicks) /\ Len(e.clicks) = m + 1 /\ m \in Nat
      /\ DOMAIN e.clicks = 1..m + 1 /\ DOMAIN last.clicks = 1..m
      /\ e.clicks[m + 1] = c /\ \A a \in 1..m : e.clicks[a] = last.clicks[a]
  <2>1. e.clicks = Append(last.clicks, c) /\ e.view = last.view
    BY <1>2 DEF BatchEntry
  <2> HIDE DEF e
  <2> QED BY <1>2, <2>1, AppendProperties, LenProperties
<1>4. e \in BatchEntry
  BY <1>2, <1>3 DEF BatchEntry
<1> HIDE DEF e, m
<1>5. /\ b \in Seq(BatchEntry) /\ Len(b) = n /\ DOMAIN b = 1..n
      /\ \A i \in 1..n : b[i] = IF i = n THEN e ELSE batch[i]
  <2>1. /\ [batch EXCEPT ![n] = e] \in Seq(BatchEntry) /\ Len([batch EXCEPT ![n] = e]) = n
        /\ \A i \in 1..n : [batch EXCEPT ![n] = e][i] = IF i = n THEN e ELSE batch[i]
    BY <1>1, <1>4, ExceptSeq DEF Batch
  <2>2. b \in Seq(BatchEntry) /\ Len(b) = n
    BY <2>1 DEF ReplaceAt
  <2> HIDE DEF b
  <2>3. DOMAIN b = 1..n
    BY <2>2, LenProperties
  <2> QED BY <2>1, <2>2, <2>3 DEF b, ReplaceAt
<1> HIDE DEF b, n
<1>6. b # <<>>
  BY <1>1, <1>5, EmptySeq
<1>7. Last(b) = e
  BY <1>1, <1>5 DEF Last
<1>11. /\ DOMAIN b = DOMAIN batch /\ n \in DOMAIN batch
       /\ b[n] = e /\ batch[n] = last
       /\ \A i \in DOMAIN batch : i # n => b[i] = batch[i]
  BY <1>1, <1>5
<1>12. /\ \A a : a \in DOMAIN e.clicks <=> a \in DOMAIN last.clicks \/ a = m + 1
       /\ \A a \in DOMAIN last.clicks : e.clicks[a] = last.clicks[a]
  BY <1>3
<1>13. \A i \in DOMAIN batch : \A a :
         /\ b[i].view = batch[i].view
         /\ a \in DOMAIN batch[i].clicks =>
              a \in DOMAIN b[i].clicks /\ b[i].clicks[a] = batch[i].clicks[a]
         /\ a \in DOMAIN b[i].clicks /\ ~(i = n /\ a = m + 1) =>
              a \in DOMAIN batch[i].clicks
  <2> TAKE i \in DOMAIN batch
  <2> TAKE a
  <2>1. CASE i = n
    BY <1>3, <1>11, <1>12, <2>1
  <2>2. CASE i # n
    BY <1>11, <2>2
  <2> QED BY <2>1, <2>2
<1>8. Places(b) = Places(batch) \union {<<n, m + 1>>}
  <2>1. ASSUME NEW x \in Places(b) PROVE x \in Places(batch) \union {<<n, m + 1>>}
    <3>1. PICK i, a : i \in DOMAIN b /\ a \in DOMAIN b[i].clicks /\ x = <<i, a>>
      BY PlacesFacts
    <3>2. CASE i = n /\ a = m + 1
      BY <3>1, <3>2
    <3>3. CASE ~(i = n /\ a = m + 1)
      <4>1. i \in DOMAIN batch /\ a \in DOMAIN batch[i].clicks
        BY <1>11, <1>13, <3>1, <3>3
      <4> QED BY <3>1, <4>1, PlacesFacts
    <3> QED BY <3>2, <3>3
  <2>2. ASSUME NEW x \in Places(batch) PROVE x \in Places(b)
    <3>1. PICK i, a : i \in DOMAIN batch /\ a \in DOMAIN batch[i].clicks /\ x = <<i, a>>
      BY PlacesFacts
    <3>2. i \in DOMAIN b /\ a \in DOMAIN b[i].clicks
      BY <1>11, <1>13, <3>1
    <3> QED BY <3>1, <3>2, PlacesFacts
  <2>3. <<n, m + 1>> \in Places(b)
    <3>1. n \in DOMAIN b /\ m + 1 \in DOMAIN b[n].clicks
      BY <1>1, <1>3, <1>5
    <3> QED BY <3>1, PlacesFacts
  <2> QED BY <2>1, <2>2, <2>3
<1>9. PostsOf(b) = PostsOf(batch) \union {[click |-> c, view |-> last.view]}
  <2>1. ASSUME NEW p \in PostsOf(b)
        PROVE  p \in PostsOf(batch) \union {[click |-> c, view |-> last.view]}
    <3>1. PICK i, a : i \in DOMAIN b /\ a \in DOMAIN b[i].clicks /\
                 p = [click |-> b[i].clicks[a], view |-> b[i].view]
      BY PlacesFacts
    <3>2. CASE i = n /\ a = m + 1
      <4>1. b[i] = e
        BY <1>1, <1>5, <3>2
      <4> QED BY <1>3, <3>1, <3>2, <4>1
    <3>3. CASE ~(i = n /\ a = m + 1)
      <4>1. /\ i \in DOMAIN batch /\ a \in DOMAIN batch[i].clicks
            /\ b[i].clicks[a] = batch[i].clicks[a] /\ b[i].view = batch[i].view
        BY <1>11, <1>13, <3>1, <3>3
      <4> QED BY <3>1, <4>1, PlacesFacts
    <3> QED BY <3>2, <3>3
  <2>2. ASSUME NEW p \in PostsOf(batch) PROVE p \in PostsOf(b)
    <3>1. PICK i, a : i \in DOMAIN batch /\ a \in DOMAIN batch[i].clicks /\
                 p = [click |-> batch[i].clicks[a], view |-> batch[i].view]
      BY PlacesFacts
    <3>2. /\ i \in DOMAIN b /\ a \in DOMAIN b[i].clicks
          /\ b[i].clicks[a] = batch[i].clicks[a] /\ b[i].view = batch[i].view
      BY <1>11, <1>13, <3>1
    <3> QED BY <3>1, <3>2, PlacesFacts
  <2>3. [click |-> c, view |-> last.view] \in PostsOf(b)
    <3>1. /\ n \in DOMAIN b /\ m + 1 \in DOMAIN b[n].clicks
          /\ b[n].clicks[m + 1] = c /\ b[n].view = last.view
      BY <1>1, <1>3, <1>5
    <3> QED BY <3>1, PlacesFacts
  <2> QED BY <2>1, <2>2, <2>3
<1>10. e.view = last.view
  BY <1>3
<1> QED BY <1>5, <1>6, <1>7, <1>8, <1>9, <1>10 DEF b, e, n, last, Batch

\* A batch of one page view with one click.
LEMMA ClickAlone ==
  ASSUME NEW e \in BatchEntry, NEW c \in Clicks
  PROVE  LET b == <<[e EXCEPT !.clicks = <<c>>]>> IN
         /\ b \in Batch /\ b # <<>> /\ Len(b) = 1 /\ Last(b).view = e.view
         /\ Places(b) = {<<1, 1>>}
         /\ PostsOf(b) = {[click |-> c, view |-> e.view]}
<1> DEFINE g == [e EXCEPT !.clicks = <<c>>]
           b == <<g>>
<1>1. /\ g \in BatchEntry /\ g.clicks = <<c>> /\ g.view = e.view
      /\ DOMAIN g.clicks = {1} /\ g.clicks[1] = c
  <2>1. <<c>> \in Seq(Clicks) /\ DOMAIN <<c>> = {1} /\ <<c>>[1] = c
    OBVIOUS
  <2>2. g.clicks = <<c>> /\ g.view = e.view
    BY DEF BatchEntry
  <2>3. g \in BatchEntry
    BY <2>1 DEF BatchEntry
  <2> QED BY <2>1, <2>2, <2>3
<1> HIDE DEF g
<1>2. b \in Seq(BatchEntry) /\ Len(b) = 1 /\ DOMAIN b = {1} /\ b[1] = g /\ b # <<>>
  BY <1>1
<1> HIDE DEF b
<1>3. Places(b) = {<<1, 1>>}
  <2>1. \A x : x \in Places(b) <=> x = <<1, 1>>
    BY <1>1, <1>2, PlacesFacts
  <2> QED BY <2>1
<1>4. PostsOf(b) = {[click |-> c, view |-> e.view]}
  <2>1. \A p : p \in PostsOf(b) <=> p = [click |-> c, view |-> e.view]
    <3> TAKE p
    <3>1. p \in PostsOf(b) <=> \E i \in DOMAIN b : \E a \in DOMAIN b[i].clicks :
                 p = [click |-> b[i].clicks[a], view |-> b[i].view]
      BY PlacesFacts
    <3> QED BY <1>1, <1>2, <3>1
  <2> QED BY <2>1
<1> QED BY <1>1, <1>2, <1>3, <1>4 DEF b, g, Batch, Last

-----------------------------------------------------------------------------
(* The batches of a flush.                                                 *)

\* Batches of some posts, no two of them with a click in common.
Chunked(done, posts) ==
  /\ done \in Seq(Batch) /\ done # <<>>
  /\ \A i \in DOMAIN done :
       /\ IsFiniteSet(Places(done[i])) /\ BatchFits(done[i])
       /\ PostsOf(done[i]) \subseteq posts
       /\ \A j \in DOMAIN done : i # j =>
            \A p \in PostsOf(done[i]), q \in PostsOf(done[j]) : p.click # q.click

\* The last entry is of page view v.
Open(done, v) == Last(done) # <<>> /\ Last(Last(done)).view = v

\* None of these posts is of a click of those.
Fresh(more, posts) == \A p \in more, q \in posts : p.click # q.click

LEMMA LastOfDone ==
  ASSUME NEW done, NEW posts, Chunked(done, posts)
  PROVE  /\ Len(done) \in Nat \ {0} /\ Len(done) \in 1..Len(done)
         /\ DOMAIN done = 1..Len(done)
         /\ Last(done) = done[Len(done)] /\ Last(done) \in Batch
         /\ IsFiniteSet(Places(Last(done))) /\ BatchFits(Last(done))
         /\ PostsOf(Last(done)) \subseteq posts
<1>1. done \in Seq(Batch) /\ done # <<>>
  BY DEF Chunked
<1>2. Len(done) \in Nat \ {0} /\ Len(done) \in 1..Len(done) /\ DOMAIN done = 1..Len(done)
  BY <1>1, EmptySeq, LenProperties
<1>3. Last(done) = done[Len(done)] /\ Last(done) \in Batch
  BY <1>1, <1>2, ElementOfSeq DEF Last
<1> QED BY <1>2, <1>3 DEF Chunked

\* The last batch is replaced by one with more posts.
LEMMA LastReplaced ==
  ASSUME NEW done, NEW posts, Chunked(done, posts), NEW b \in Batch, NEW more,
         IsFiniteSet(Places(b)), BatchFits(b), Fresh(more, posts),
         PostsOf(b) \subseteq PostsOf(Last(done)) \union more
  PROVE  LET d == ReplaceAt(done, Len(done), b) IN
         Chunked(d, posts \union more) /\ Last(d) = b
<1> DEFINE n == Len(done)
           d == ReplaceAt(done, n, b)
<1>1. /\ done \in Seq(Batch) /\ n \in Nat \ {0} /\ n \in 1..n /\ DOMAIN done = 1..n
      /\ Last(done) = done[n] /\ PostsOf(Last(done)) \subseteq posts
  BY LastOfDone DEF Chunked
<1>2. /\ d \in Seq(Batch) /\ Len(d) = n
      /\ \A i \in 1..n : d[i] = IF i = n THEN b ELSE done[i]
  BY <1>1, ExceptSeq DEF ReplaceAt
<1> HIDE DEF d, n
<1>3. DOMAIN d = 1..n /\ d # <<>>
  BY <1>1, <1>2, LenProperties, EmptySeq
<1>4. Last(d) = b
  BY <1>1, <1>2 DEF Last
<1>5. ASSUME NEW i \in DOMAIN d
      PROVE  /\ IsFiniteSet(Places(d[i])) /\ BatchFits(d[i])
             /\ PostsOf(d[i]) \subseteq PostsOf(done[i]) \union more
             /\ i # n => PostsOf(d[i]) = PostsOf(done[i])
             /\ i \in DOMAIN done /\ PostsOf(done[i]) \subseteq posts
  <2>1. i \in DOMAIN done
    BY <1>1, <1>3
  <2>2. /\ IsFiniteSet(Places(done[i])) /\ BatchFits(done[i])
        /\ PostsOf(done[i]) \subseteq posts
    BY <2>1 DEF Chunked
  <2>3. CASE i = n
    <3>1. d[i] = b
      BY <1>1, <1>2, <2>3
    <3> QED BY <1>1, <2>1, <2>2, <2>3, <3>1
  <2>4. CASE i # n
    <3>1. d[i] = done[i]
      BY <1>2, <1>3, <2>4
    <3> QED BY <2>1, <2>2, <2>4, <3>1
  <2> QED BY <2>3, <2>4
<1>6. ASSUME NEW i \in DOMAIN d, NEW j \in DOMAIN d, i # j,
             NEW p \in PostsOf(d[i]), NEW q \in PostsOf(d[j])
      PROVE  p.click # q.click
  <2>1. \A x \in PostsOf(done[i]), y \in PostsOf(done[j]) : x.click # y.click
    BY <1>5, <1>6 DEF Chunked
  <2>2. CASE p \in PostsOf(done[i]) /\ q \in PostsOf(done[j])
    BY <2>1, <2>2
  <2>3. CASE p \notin PostsOf(done[i])
    <3>1. p \in more /\ i = n
      BY <1>5, <2>3
    <3>2. q \in posts
      BY <1>5, <1>6, <3>1
    <3> QED BY <3>1, <3>2 DEF Fresh
  <2>4. CASE q \notin PostsOf(done[j])
    <3>1. q \in more /\ j = n
      BY <1>5, <2>4
    <3>2. p \in posts
      BY <1>5, <1>6, <3>1
    <3> QED BY <3>1, <3>2 DEF Fresh
  <2> QED BY <2>2, <2>3, <2>4
<1>7. Chunked(d, posts \union more)
  <2>1. \A i \in DOMAIN d :
          /\ IsFiniteSet(Places(d[i])) /\ BatchFits(d[i])
          /\ PostsOf(d[i]) \subseteq posts \union more
    BY <1>5
  <2>2. \A i \in DOMAIN d : \A j \in DOMAIN d : i # j =>
          \A p \in PostsOf(d[i]), q \in PostsOf(d[j]) : p.click # q.click
    BY <1>6
  <2> QED BY <1>2, <1>3, <2>1, <2>2 DEF Chunked
<1> QED BY <1>4, <1>7 DEF d, n

\* A batch more.
LEMMA BatchAdded ==
  ASSUME NEW done, NEW posts, Chunked(done, posts), NEW b \in Batch, NEW more,
         IsFiniteSet(Places(b)), BatchFits(b), Fresh(more, posts), PostsOf(b) \subseteq more
  PROVE  LET d == Append(done, b) IN Chunked(d, posts \union more) /\ Last(d) = b
<1> DEFINE n == Len(done)
           d == Append(done, b)
<1>1. done \in Seq(Batch) /\ n \in Nat \ {0} /\ DOMAIN done = 1..n
  BY LastOfDone DEF Chunked
<1>2. /\ d \in Seq(Batch) /\ Len(d) = n + 1 /\ d # <<>>
      /\ d[n + 1] = b /\ \A i \in 1..n : d[i] = done[i]
  BY <1>1, AppendProperties
<1> HIDE DEF d, n
<1>3. DOMAIN d = 1..n + 1
  BY <1>1, <1>2, LenProperties
<1>4. Last(d) = b
  BY <1>1, <1>2 DEF Last
<1>5. ASSUME NEW i \in DOMAIN d
      PROVE  \/ i = n + 1 /\ d[i] = b
             \/ i \in DOMAIN done /\ d[i] = done[i]
  BY <1>1, <1>2, <1>3
<1>6. ASSUME NEW i \in DOMAIN d
      PROVE  /\ IsFiniteSet(Places(d[i])) /\ BatchFits(d[i])
             /\ PostsOf(d[i]) \subseteq posts \union more
  <2>1. CASE i = n + 1 /\ d[i] = b
    BY <2>1
  <2>2. CASE i \in DOMAIN done /\ d[i] = done[i]
    BY <2>2 DEF Chunked
  <2> QED BY <1>5, <2>1, <2>2
<1>7. ASSUME NEW i \in DOMAIN d, NEW j \in DOMAIN d, i # j,
             NEW p \in PostsOf(d[i]), NEW q \in PostsOf(d[j])
      PROVE  p.click # q.click
  <2>1. CASE i \in DOMAIN done /\ d[i] = done[i] /\ j \in DOMAIN done /\ d[j] = done[j]
    BY <1>7, <2>1 DEF Chunked
  <2>2. CASE i = n + 1 /\ d[i] = b /\ j \in DOMAIN done /\ d[j] = done[j]
    <3>1. p \in more /\ q \in posts
      BY <2>2 DEF Chunked
    <3> QED BY <3>1 DEF Fresh
  <2>3. CASE j = n + 1 /\ d[j] = b /\ i \in DOMAIN done /\ d[i] = done[i]
    <3>1. q \in more /\ p \in posts
      BY <2>3 DEF Chunked
    <3> QED BY <3>1 DEF Fresh
  <2> QED BY <1>5, <1>7, <2>1, <2>2, <2>3
<1>8. Chunked(d, posts \union more)
  <2>1. \A i \in DOMAIN d : \A j \in DOMAIN d : i # j =>
          \A p \in PostsOf(d[i]), q \in PostsOf(d[j]) : p.click # q.click
    BY <1>7
  <2> QED BY <1>2, <1>6, <2>1 DEF Chunked
<1> QED BY <1>4, <1>8 DEF d

LEMMA OpenedKeeps ==
  ASSUME NEW done, NEW posts, Chunked(done, posts), NEW view \in View, NEW limit
  PROVE  /\ Chunked(Opened(done, view, limit), posts)
         /\ Open(Opened(done, view, limit), view.id)
<1> DEFINE last == Last(done)
           e == [view |-> view.id, clicks |-> <<>>]
           full == last # <<>> /\ (Len(last) >= BatchViews \/ Size(last) + 1 > limit)
<1>1. /\ last \in Batch /\ IsFiniteSet(Places(last)) /\ BatchFits(last)
      /\ Len(last) \in Nat /\ (last = <<>> => Len(last) = 0)
  BY LastOfDone, LenProperties, EmptySeq DEF Batch
<1>2. view.id \in Nat
  BY DEF View
<1>3. Fresh({}, posts)
  BY DEF Fresh
<1>4. BatchViews \in Nat \ {0} /\ BatchClicks \in Nat \ {0}
  BY HeatmapsAssumption
<1>5. CASE full
  <2> DEFINE b == <<e>>
  <2>1. DOMAIN e.clicks = {} /\ e \in BatchEntry
    BY <1>2, EmptySeq DEF BatchEntry
  <2> HIDE DEF e
  <2>2. b \in Batch /\ Len(b) = 1 /\ b # <<>> /\ Last(b) = e /\ DOMAIN b = {1} /\ b[1] = e
    BY <2>1 DEF Batch, Last
  <2> HIDE DEF b
  <2>3. Places(b) = {} /\ PostsOf(b) = {}
    BY <2>1, <2>2, PlacesFacts
  <2>4. IsFiniteSet(Places(b)) /\ BatchFits(b)
    <3>1. IsFiniteSet(Places(b)) /\ ClicksOf(b) = 0
      BY <2>3, FS_EmptySet, PlacesFacts
    <3> QED BY <1>4, <2>2, <3>1 DEF BatchFits
  <2>5. LET d == Append(done, b) IN Chunked(d, posts \union {}) /\ Last(d) = b
    BY <1>3, <2>2, <2>3, <2>4, BatchAdded
  <2>6. Opened(done, view, limit) = Append(done, b)
    BY <1>5 DEF Opened, b, e
  <2>7. Last(b).view = view.id
    BY <2>2 DEF e
  <2> QED BY <2>2, <2>5, <2>6, <2>7 DEF Open
<1>6. CASE ~full
  <2> DEFINE b == Append(last, e)
  <2>1. /\ b \in Batch /\ Len(b) = Len(last) + 1 /\ b # <<>> /\ Last(b) = e
        /\ Places(b) = Places(last) /\ PostsOf(b) = PostsOf(last)
    BY <1>1, <1>2, EntryOpens
  <2> HIDE DEF b
  <2>2. IsFiniteSet(Places(b)) /\ BatchFits(b)
    <3>1. IsFiniteSet(Places(b)) /\ ClicksOf(b) = ClicksOf(last)
      BY <1>1, <2>1, PlacesFacts
    <3> QED BY <1>1, <1>4, <1>6, <2>1, <3>1 DEF BatchFits
  <2>3. LET d == ReplaceAt(done, Len(done), b) IN Chunked(d, posts \union {}) /\ Last(d) = b
    BY <1>3, <2>1, <2>2, LastReplaced
  <2>4. Opened(done, view, limit) = ReplaceAt(done, Len(done), b)
    BY <1>6 DEF Opened, b
  <2> QED BY <2>1, <2>3, <2>4 DEF Open
<1> QED BY <1>5, <1>6

LEMMA JoinedKeeps ==
  ASSUME NEW done, NEW posts, Chunked(done, posts), NEW v \in Nat, Open(done, v),
         NEW c \in Clicks, Fresh({[click |-> c, view |-> v]}, posts), NEW limit
  PROVE  /\ Chunked(Joined(done, c, limit), posts \union {[click |-> c, view |-> v]})
         /\ Open(Joined(done, c, limit), v)
<1> DEFINE last == Last(done)
           entry == Last(last)
           alone == Len(last) = 1 /\ entry.clicks = <<>>
           fits == ClicksOf(last) < BatchClicks /\ (alone \/ Size(last) + 1 <= limit)
           more == {[click |-> c, view |-> v]}
<1>1. last \in Batch /\ IsFiniteSet(Places(last)) /\ BatchFits(last) /\ last # <<>>
  BY LastOfDone DEF Open
<1>2. entry \in BatchEntry /\ entry.view = v
  <2>1. Len(last) \in 1..Len(last)
    BY <1>1, LenProperties, EmptySeq DEF Batch
  <2> QED BY <1>1, <2>1, ElementOfSeq DEF Open, Last, Batch
<1>3. BatchViews \in Nat \ {0} /\ BatchClicks \in Nat \ {0}
  BY HeatmapsAssumption
<1>4. CASE fits
  <2> DEFINE b == ReplaceAt(last, Len(last), [entry EXCEPT !.clicks = Append(@, c)])
  <2>1. /\ b \in Batch /\ b # <<>> /\ Len(b) = Len(last) /\ Last(b).view = v
        /\ \E x : Places(b) = Places(last) \union {x}
        /\ PostsOf(b) = PostsOf(last) \union more
    BY <1>1, <1>2, ClickJoins
  <2> HIDE DEF b
  <2>2. IsFiniteSet(Places(b)) /\ Cardinality(Places(b)) <= Cardinality(Places(last)) + 1
    <3>1. PICK x : Places(b) = Places(last) \union {x}
      BY <2>1
    <3>2. /\ IsFiniteSet(Places(b))
          /\ Cardinality(Places(b)) = IF x \in Places(last) THEN Cardinality(Places(last))
                                      ELSE Cardinality(Places(last)) + 1
      BY <1>1, <3>1, FS_AddElement
    <3>3. Cardinality(Places(last)) \in Nat
      BY <1>1, FS_CardinalityType
    <3> QED BY <3>2, <3>3
  <2>3. BatchFits(b)
    <3>1. Cardinality(Places(b)) \in Nat /\ Cardinality(Places(last)) \in Nat
      BY <1>1, <2>2, FS_CardinalityType
    <3>2. ClicksOf(b) = Cardinality(Places(b)) /\ ClicksOf(last) = Cardinality(Places(last))
      BY PlacesFacts
    <3> QED BY <1>1, <1>3, <1>4, <2>1, <2>2, <3>1, <3>2 DEF BatchFits
  <2>4. LET d == ReplaceAt(done, Len(done), b) IN Chunked(d, posts \union more) /\ Last(d) = b
    BY <2>1, <2>2, <2>3, LastReplaced
  <2>5. Joined(done, c, limit) = ReplaceAt(done, Len(done), b)
    BY <1>4 DEF Joined, b
  <2> QED BY <2>1, <2>4, <2>5 DEF Open
<1>5. CASE ~fits
  <2> DEFINE b == <<[entry EXCEPT !.clicks = <<c>>]>>
  <2>1. /\ b \in Batch /\ b # <<>> /\ Len(b) = 1 /\ Last(b).view = v
        /\ Places(b) = {<<1, 1>>} /\ PostsOf(b) = more
    BY <1>2, ClickAlone
  <2> HIDE DEF b
  <2>2. IsFiniteSet(Places(b)) /\ BatchFits(b)
    <3>0. IsFiniteSet({<<1, 1>>}) /\ Cardinality({<<1, 1>>}) = 1
      BY FS_Singleton
    <3>1. IsFiniteSet(Places(b)) /\ ClicksOf(b) = 1
      BY <2>1, <3>0, PlacesFacts
    <3> QED BY <1>3, <2>1, <3>1 DEF BatchFits
  <2>3. LET d == Append(done, b) IN Chunked(d, posts \union more) /\ Last(d) = b
    BY <2>1, <2>2, BatchAdded
  <2>4. Joined(done, c, limit) = Append(done, b)
    BY <1>5 DEF Joined, b
  <2> QED BY <2>1, <2>3, <2>4 DEF Open
<1> QED BY <1>4, <1>5

-----------------------------------------------------------------------------
(* chunkHeatmapPageViews.                                                  *)

\* The posts of a page view, of its first n clicks, and of the first n page views.
PostsOfView(view) == {[click |-> c, view |-> view.id] : c \in Range(view.clicks)}
FirstPosts(view, n) == {[click |-> view.clicks[a], view |-> view.id] : a \in 1..n}
PostsOfViews(views, n) == UNION {PostsOfView(views[i]) : i \in 1..n}

\* The clicks of a page view are placed one after the other.
LEMMA PlacedKeeps ==
  ASSUME NEW done, NEW posts, Chunked(done, posts), NEW view \in View, NEW limit,
         Once(view.clicks), Fresh(PostsOfView(view), posts)
  PROVE  Chunked(Placed(done, view, limit), posts \union PostsOfView(view))
<1> DEFINE n == Len(view.clicks)
           Done == Seq(Batch)
           base == Opened(done, view, limit)
           body(g) == [k \in 0..Len(view.clicks) |->
                         IF k = 0 THEN Opened(done, view, limit)
                         ELSE Joined(g[k - 1], view.clicks[k], limit)]
           step == [x \in Nat \X Done |->
                      IF x[1] \in 1..n /\ Joined(x[2], view.clicks[x[1]], limit) \in Done
                      THEN Joined(x[2], view.clicks[x[1]], limit) ELSE x[2]]
           G == [k \in 0..n |-> {d \in Done : /\ Chunked(d, posts \union FirstPosts(view, k))
                                              /\ Open(d, view.id)}]
<1>1. /\ n \in Nat /\ view.clicks \in Seq(Clicks) /\ view.id \in Nat
      /\ DOMAIN view.clicks = 1..n /\ \A k \in 1..n : view.clicks[k] \in Clicks
  <2>1. view.clicks \in Seq(Clicks) /\ view.id \in Nat
    BY DEF View
  <2> QED BY <2>1, LenProperties, ElementOfSeq
<1>2. base \in G[0]
  <2>1. FirstPosts(view, 0) = {}
    BY DEF FirstPosts
  <2>2. Chunked(base, posts) /\ Open(base, view.id)
    BY OpenedKeeps
  <2>3. base \in Done /\ posts \union FirstPosts(view, 0) = posts
    BY <2>1, <2>2 DEF Chunked
  <2> QED BY <1>1, <2>2, <2>3
<1>3. ASSUME NEW k \in 1..n, NEW d \in G[k - 1]
      PROVE  Joined(d, view.clicks[k], limit) \in G[k]
  <2> DEFINE c == view.clicks[k]
             more == {[click |-> c, view |-> view.id]}
             j == Joined(d, c, limit)
  <2>1. k - 1 \in 0..n /\ k \in 0..n /\ c \in Clicks
    BY <1>1
  <2>2. Chunked(d, posts \union FirstPosts(view, k - 1)) /\ Open(d, view.id)
    BY <2>1
  <2>3. FirstPosts(view, k) = FirstPosts(view, k - 1) \union more
    <3>1. \A a : a \in 1..k <=> a \in 1..k - 1 \/ a = k
      BY <1>1
    <3> QED BY <3>1 DEF FirstPosts
  <2>4. Fresh(more, posts \union FirstPosts(view, k - 1))
    <3>1. [click |-> c, view |-> view.id] \in PostsOfView(view)
      BY <1>1 DEF PostsOfView, Range
    <3>2. \A q \in posts : c # q.click
      BY <3>1 DEF Fresh
    <3>3. ASSUME NEW a \in 1..k - 1 PROVE view.clicks[a] # c
      <4>1. a \in 1..n /\ a # k
        BY <1>1
      <4> QED BY <1>1, <4>1 DEF Once
    <3>4. \A q \in FirstPosts(view, k - 1) : c # q.click
      BY <3>3 DEF FirstPosts
    <3> QED BY <3>2, <3>4 DEF Fresh
  <2> HIDE DEF c, G
  <2>5. /\ Chunked(j, (posts \union FirstPosts(view, k - 1)) \union more)
        /\ Open(j, view.id)
    BY <1>1, <2>1, <2>2, <2>4, JoinedKeeps
  <2> HIDE DEF more, j
  <2>6. (posts \union FirstPosts(view, k - 1)) \union more = posts \union FirstPosts(view, k)
    BY <2>3
  <2>7. j \in Done /\ Chunked(j, posts \union FirstPosts(view, k))
    BY <2>5, <2>6 DEF Chunked
  <2>8. j \in G[k]
    BY <2>1, <2>5, <2>7 DEF G
  <2> QED BY <2>8 DEF j, c
<1>4. step \in [Nat \X Done -> Done]
  OBVIOUS
<1>5. base \in Done
  BY <1>1, <1>2
<1>6. G \in [0..n -> SUBSET Done]
  OBVIOUS
<1> HIDE DEF G, base, n, Done
<1>7. PICK f : Iterates(f, n, Done, base, step)
  <2> HIDE DEF step
  <2> QED BY <1>1, <1>4, <1>5, Recursion
<1>8. ASSUME NEW k \in 1..n, f[k - 1] \in G[k - 1]
      PROVE  f[k] = Joined(f[k - 1], view.clicks[k], limit) /\ f[k] \in G[k]
  <2>1. k - 1 \in 0..n /\ k \in 0..n /\ k \in Nat
    BY <1>1
  <2>2. f[k - 1] \in Done /\ <<k, f[k - 1]>> \in Nat \X Done
    BY <1>6, <1>8, <2>1
  <2>3. Joined(f[k - 1], view.clicks[k], limit) \in G[k]
    BY <1>3, <1>8
  <2>4. Joined(f[k - 1], view.clicks[k], limit) \in Done
    BY <1>6, <2>1, <2>3
  <2>5. f[k] = step[<<k, f[k - 1]>>]
    BY <1>7 DEF Iterates
  <2> QED BY <2>2, <2>3, <2>4, <2>5
<1>9. \A k \in 0..n : f[k] \in G[k]
  <2>1. f[0] \in G[0]
    BY <1>2, <1>7 DEF Iterates
  <2> HIDE DEF step
  <2> QED BY <1>1, <1>8, <2>1, Climbs
<1>10. f = body(f)
  <2>1. ASSUME NEW k \in 1..n PROVE f[k] = Joined(f[k - 1], view.clicks[k], limit)
    <3>1. k - 1 \in 0..n
      BY <1>1
    <3> QED BY <1>8, <1>9, <3>1
  <2>2. DOMAIN f = 0..n /\ f[0] = base /\ f = [k \in 0..n |-> f[k]]
    BY <1>7 DEF Iterates
  <2>3. \A k \in 0..n : f[k] = IF k = 0 THEN Opened(done, view, limit)
                                ELSE Joined(f[k - 1], view.clicks[k], limit)
    <3> TAKE k \in 0..n
    <3>1. CASE k = 0
      BY <2>2, <3>1 DEF base
    <3>2. CASE k # 0
      <4>1. k \in 1..n
        BY <1>1, <3>2
      <4> QED BY <2>1, <3>2, <4>1
    <3> QED BY <3>1, <3>2
  <2> QED BY <2>2, <2>3 DEF n
<1> DEFINE after == CHOOSE g : g = body(g)
<1>11. after = body(after)
  BY <1>10
<1>12. Placed(done, view, limit) = after[n]
  BY DEF Placed, n
<1> HIDE DEF after
<1>13. /\ after[0] = base
       /\ \A k \in 1..n : after[k] = Joined(after[k - 1], view.clicks[k], limit)
  <2>1. after = [k \in 0..n |-> IF k = 0 THEN base
                                ELSE Joined(after[k - 1], view.clicks[k], limit)]
    BY <1>11 DEF n, base
  <2> QED BY <1>1, <2>1
<1>14. \A k \in 0..n : after[k] \in G[k]
  <2>1. \A k \in 1..n : after[k - 1] \in G[k - 1] => after[k] \in G[k]
    BY <1>3, <1>13
  <2>2. after[0] \in G[0]
    BY <1>2, <1>13
  <2> QED BY <1>1, <2>1, <2>2, Climbs
<1>15. Chunked(after[n], posts \union FirstPosts(view, n))
  BY <1>1, <1>14 DEF G
<1>16. FirstPosts(view, n) = PostsOfView(view)
  BY <1>1 DEF FirstPosts, PostsOfView, Range
<1> QED BY <1>12, <1>15, <1>16

\* The batches of a flush have the posts of its page views, each click once.
LEMMA ChunkKeeps ==
  ASSUME NEW views \in Seq(View), Distinct(views), NEW limit
  PROVE  Chunked(Chunk(views, limit), PostsOfViews(views, Len(views)))
<1> DEFINE n == Len(views)
           Done == Seq(Batch)
           base == <<<<>>>>
           turn(d, k) == IF IsSendable(views[k]) THEN Placed(d, views[k], limit) ELSE d
           body(g) == [k \in 0..Len(views) |->
                         IF k = 0 THEN <<<<>>>>
                         ELSE IF IsSendable(views[k]) THEN Placed(g[k - 1], views[k], limit)
                         ELSE g[k - 1]]
           step == [x \in Nat \X Done |->
                      IF x[1] \in 1..n /\ turn(x[2], x[1]) \in Done
                      THEN turn(x[2], x[1]) ELSE x[2]]
           G == [k \in 0..n |-> {d \in Done : Chunked(d, PostsOfViews(views, k))}]
<1>1. n \in Nat /\ DOMAIN views = 1..n /\ \A k \in 1..n : views[k] \in View
  BY LenProperties, ElementOfSeq
<1>2. base \in G[0]
  <2>1. <<>> \in Batch /\ Len(<<>>) = 0 /\ DOMAIN <<>> = {}
    BY EmptySeq, LenProperties DEF Batch
  <2>2. Places(<<>>) = {} /\ PostsOf(<<>>) = {}
    <3>1. \A x : x \notin Places(<<>>)
      BY <2>1, PlacesFacts
    <3>2. \A p : p \notin PostsOf(<<>>)
      BY <2>1, PlacesFacts
    <3> QED BY <3>1, <3>2
  <2>3. IsFiniteSet(Places(<<>>)) /\ BatchFits(<<>>)
    <3>1. IsFiniteSet(Places(<<>>)) /\ ClicksOf(<<>>) = 0
      BY <2>2, FS_EmptySet, PlacesFacts
    <3>2. BatchViews \in Nat /\ BatchClicks \in Nat
      BY HeatmapsAssumption
    <3> QED BY <2>1, <3>1, <3>2 DEF BatchFits
  <2>4. /\ base \in Done /\ base # <<>> /\ DOMAIN base = {1} /\ base[1] = <<>>
    BY <2>1
  <2> HIDE DEF base
  <2>5. Chunked(base, PostsOfViews(views, 0))
    BY <2>2, <2>3, <2>4 DEF Chunked
  <2> QED BY <1>1, <2>4, <2>5
<1>3. ASSUME NEW k \in 1..n, NEW d \in G[k - 1]
      PROVE  turn(d, k) \in G[k]
  <2>1. k - 1 \in 0..n /\ k \in 0..n /\ views[k] \in View
    BY <1>1
  <2>2. Chunked(d, PostsOfViews(views, k - 1))
    BY <2>1
  <2>3. PostsOfViews(views, k) = PostsOfViews(views, k - 1) \union PostsOfView(views[k])
    <3>1. \A i : i \in 1..k <=> i \in 1..k - 1 \/ i = k
      BY <1>1
    <3> QED BY <3>1 DEF PostsOfViews
  <2>4. CASE IsSendable(views[k])
    <3>1. Once(views[k].clicks)
      BY <1>1 DEF Distinct
    <3>2. Fresh(PostsOfView(views[k]), PostsOfViews(views, k - 1))
      <4> SUFFICES ASSUME NEW p \in PostsOfView(views[k]), NEW i \in 1..k - 1,
                          NEW q \in PostsOfView(views[i])
                   PROVE  p.click # q.click
        BY DEF Fresh, PostsOfViews
      <4>1. i \in DOMAIN views /\ k \in DOMAIN views /\ i # k
        BY <1>1
      <4>2. Range(views[k].clicks) \intersect Range(views[i].clicks) = {}
        BY <4>1 DEF Distinct
      <4>3. p.click \in Range(views[k].clicks) /\ q.click \in Range(views[i].clicks)
        BY DEF PostsOfView
      <4> QED BY <4>2, <4>3
    <3>3. Chunked(Placed(d, views[k], limit), PostsOfViews(views, k))
      BY <2>1, <2>2, <2>3, <3>1, <3>2, PlacedKeeps
    <3>4. Placed(d, views[k], limit) \in Done
      BY <3>3 DEF Chunked
    <3> QED BY <2>1, <2>4, <3>3, <3>4
  <2>5. CASE ~IsSendable(views[k])
    <3>1. views[k].clicks = <<>>
      BY <2>5 DEF IsSendable
    <3>2. PostsOfView(views[k]) = {}
      BY <3>1 DEF PostsOfView, Range
    <3>3. PostsOfViews(views, k) = PostsOfViews(views, k - 1) /\ d \in Done
      BY <2>1, <2>3, <3>2
    <3> QED BY <2>1, <2>2, <2>5, <3>3
  <2> QED BY <2>4, <2>5
<1>4. step \in [Nat \X Done -> Done]
  OBVIOUS
<1>5. base \in Done
  BY <1>1, <1>2
<1>6. G \in [0..n -> SUBSET Done]
  OBVIOUS
<1> HIDE DEF G, base, n, Done, turn
<1>7. PICK f : Iterates(f, n, Done, base, step)
  <2> HIDE DEF step
  <2> QED BY <1>1, <1>4, <1>5, Recursion
<1>8. ASSUME NEW k \in 1..n, f[k - 1] \in G[k - 1]
      PROVE  f[k] = turn(f[k - 1], k) /\ f[k] \in G[k]
  <2>1. k - 1 \in 0..n /\ k \in 0..n /\ k \in Nat
    BY <1>1
  <2>2. f[k - 1] \in Done /\ <<k, f[k - 1]>> \in Nat \X Done
    BY <1>6, <1>8, <2>1
  <2>3. turn(f[k - 1], k) \in G[k]
    BY <1>3, <1>8
  <2>4. turn(f[k - 1], k) \in Done
    BY <1>6, <2>1, <2>3
  <2>5. f[k] = step[<<k, f[k - 1]>>]
    BY <1>7 DEF Iterates
  <2> QED BY <2>2, <2>3, <2>4, <2>5
<1>9. \A k \in 0..n : f[k] \in G[k]
  <2>1. f[0] \in G[0]
    BY <1>2, <1>7 DEF Iterates
  <2> HIDE DEF step
  <2> QED BY <1>1, <1>8, <2>1, Climbs
<1>10. f = body(f)
  <2>1. ASSUME NEW k \in 1..n PROVE f[k] = turn(f[k - 1], k)
    <3>1. k - 1 \in 0..n
      BY <1>1
    <3> QED BY <1>8, <1>9, <3>1
  <2>2. DOMAIN f = 0..n /\ f[0] = base /\ f = [k \in 0..n |-> f[k]]
    BY <1>7 DEF Iterates
  <2>3. \A k \in 0..n : f[k] = IF k = 0 THEN <<<<>>>>
                                ELSE IF IsSendable(views[k])
                                THEN Placed(f[k - 1], views[k], limit) ELSE f[k - 1]
    <3> TAKE k \in 0..n
    <3>1. CASE k = 0
      BY <2>2, <3>1 DEF base
    <3>2. CASE k # 0
      <4>1. k \in 1..n
        BY <1>1, <3>2
      <4> QED BY <2>1, <3>2, <4>1 DEF turn
    <3> QED BY <3>1, <3>2
  <2> QED BY <2>2, <2>3 DEF n
<1> DEFINE after == CHOOSE g : g = body(g)
<1>11. after = body(after)
  BY <1>10
<1>12. Chunk(views, limit) = after[n]
  BY DEF Chunk, n
<1> HIDE DEF after
<1>13. /\ after[0] = base
       /\ \A k \in 1..n : after[k] = turn(after[k - 1], k)
  <2>1. after = [k \in 0..n |-> IF k = 0 THEN base
                                ELSE IF IsSendable(views[k])
                                THEN Placed(after[k - 1], views[k], limit) ELSE after[k - 1]]
    BY <1>11 DEF n, base
  <2> QED BY <1>1, <2>1 DEF turn
<1>14. \A k \in 0..n : after[k] \in G[k]
  <2>1. \A k \in 1..n : after[k - 1] \in G[k - 1] => after[k] \in G[k]
    BY <1>3, <1>13
  <2>2. after[0] \in G[0]
    BY <1>2, <1>13
  <2> QED BY <1>1, <2>1, <2>2, Climbs
<1>15. Chunked(after[n], PostsOfViews(views, n))
  BY <1>1, <1>14 DEF G
<1> QED BY <1>12, <1>15 DEF n

-----------------------------------------------------------------------------
(* The buffer.                                                             *)

LEMMA RangeFacts ==
  ASSUME NEW S, NEW s \in Seq(S)
  PROVE  /\ Range(s) \subseteq S
         /\ \A x : x \in Range(s) <=> \E i \in 1..Len(s) : x = s[i]
<1>1. DOMAIN s = 1..Len(s) /\ \A i \in 1..Len(s) : s[i] \in S
  BY LenProperties, ElementOfSeq
<1> QED BY <1>1 DEF Range

LEMMA ClicksInFacts ==
  ASSUME NEW views
  PROVE  \A c : c \in ClicksIn(views) <=> \E i \in DOMAIN views : c \in Range(views[i].clicks)
BY DEF ClicksIn

\* A part of a sequence that holds nothing twice, and what is before it.
LEMMA PartsOnce ==
  ASSUME NEW S, NEW s \in Seq(S), Once(s), NEW n \in 0..Len(s)
  PROVE  LET a == SubSeq(s, 1, n)
             b == SubSeq(s, n + 1, Len(s)) IN
         /\ a \in Seq(S) /\ Len(a) = n /\ \A i \in 1..n : a[i] = s[i]
         /\ b \in Seq(S) /\ Once(a) /\ Once(b)
         /\ Range(a) \subseteq Range(s) /\ Range(b) \subseteq Range(s)
         /\ Range(a) \intersect Range(b) = {}
<1> DEFINE a == SubSeq(s, 1, n)
           b == SubSeq(s, n + 1, Len(s))
<1>1. Len(s) \in Nat /\ DOMAIN s = 1..Len(s) /\ \A i \in 1..Len(s) : s[i] \in S
  BY LenProperties, ElementOfSeq
<1>2. a \in Seq(S) /\ Len(a) = n /\ \A i \in 1..n : a[i] = s[i]
  <2>1. \A i \in 1..n : s[i] \in S
    BY <1>1
  <2>2. /\ a \in Seq(S) /\ Len(a) = IF 1 <= n THEN n - 1 + 1 ELSE 0
        /\ \A i \in 1..n - 1 + 1 : a[i] = s[1 + i - 1]
    BY <1>1, <2>1, SubSeqProperties
  <2> HIDE DEF a
  <2> QED BY <1>1, <2>2
<1>3. b \in Seq(S) /\ Len(b) = Len(s) - n /\ \A i \in 1..Len(s) - n : b[i] = s[n + i]
  <2>1. \A i \in n + 1..Len(s) : s[i] \in S
    BY <1>1
  <2>2. /\ b \in Seq(S) /\ Len(b) = IF n + 1 <= Len(s) THEN Len(s) - (n + 1) + 1 ELSE 0
        /\ \A i \in 1..Len(s) - (n + 1) + 1 : b[i] = s[n + 1 + i - 1]
    BY <1>1, <2>1, SubSeqProperties
  <2> HIDE DEF b
  <2>3. Len(b) = Len(s) - n /\ Len(s) - (n + 1) + 1 = Len(s) - n
    <3>1. Len(s) \in Nat /\ n \in Nat /\ n <= Len(s)
      BY <1>1
    <3>2. CASE n + 1 <= Len(s)
      BY <2>2, <3>1, <3>2
    <3>3. CASE ~(n + 1 <= Len(s))
      BY <2>2, <3>1, <3>3
    <3> QED BY <3>2, <3>3
  <2>4. \A i \in 1..Len(s) - n : n + 1 + i - 1 = n + i
    BY <1>1
  <2> QED BY <2>2, <2>3, <2>4
<1> HIDE DEF a, b
<1>4. DOMAIN a = 1..n /\ DOMAIN b = 1..Len(s) - n
  BY <1>2, <1>3, LenProperties
<1>5. \A i \in 1..n : i \in 1..Len(s)
  BY <1>1
<1>6. \A i \in 1..Len(s) - n : n + i \in 1..Len(s)
  BY <1>1
<1>7. Once(a)
  BY <1>1, <1>2, <1>4, <1>5 DEF Once
<1>8. Once(b)
  <2> SUFFICES ASSUME NEW i \in 1..Len(s) - n, NEW j \in 1..Len(s) - n, b[i] = b[j]
               PROVE  i = j
    BY <1>4 DEF Once
  <2>1. s[n + i] = s[n + j] /\ n + i \in DOMAIN s /\ n + j \in DOMAIN s
    BY <1>1, <1>3, <1>6
  <2>2. n + i = n + j
    BY <2>1 DEF Once
  <2> QED BY <1>1, <2>2
<1>9. /\ \A x \in Range(a) : \E i \in 1..n : x = s[i]
      /\ \A x \in Range(b) : \E i \in 1..Len(s) - n : x = s[n + i]
  <2>1. \A x \in Range(a) : \E i \in 1..n : x = s[i]
    BY <1>2, <1>4 DEF Range
  <2>2. \A x \in Range(b) : \E i \in 1..Len(s) - n : x = b[i]
    BY <1>4 DEF Range
  <2> QED BY <1>3, <2>1, <2>2
<1>10. Range(a) \subseteq Range(s) /\ Range(b) \subseteq Range(s)
  BY <1>1, <1>5, <1>6, <1>9 DEF Range
<1>11. \A i \in 1..n : \A j \in 1..Len(s) - n : s[i] # s[n + j]
  <2>1. \A i \in 1..n : \A j \in 1..Len(s) - n : i # n + j
    OBVIOUS
  <2> QED BY <1>1, <1>5, <1>6, <2>1 DEF Once
<1>12. Range(a) \intersect Range(b) = {}
  BY <1>9, <1>11
<1> QED BY <1>2, <1>3, <1>7, <1>8, <1>10, <1>12 DEF a, b

\* Two sequences that hold nothing twice and nothing in common, one after the other.
LEMMA ConcatOnce ==
  ASSUME NEW S, NEW s \in Seq(S), NEW t \in Seq(S), Once(s), Once(t),
         Range(s) \intersect Range(t) = {}
  PROVE  Once(s \o t) /\ Range(s \o t) \subseteq Range(s) \union Range(t)
<1> DEFINE u == s \o t
<1>1. /\ u \in Seq(S) /\ Len(u) = Len(s) + Len(t) /\ Len(s) \in Nat /\ Len(t) \in Nat
      /\ DOMAIN s = 1..Len(s) /\ DOMAIN t = 1..Len(t)
      /\ \A i \in 1..Len(s) + Len(t) : u[i] = IF i <= Len(s) THEN s[i] ELSE t[i - Len(s)]
  BY ConcatProperties, LenProperties
<1> HIDE DEF u
<1>2. DOMAIN u = 1..Len(s) + Len(t)
  BY <1>1, LenProperties
<1>3. ASSUME NEW i \in DOMAIN u
      PROVE  \/ i <= Len(s) /\ i \in DOMAIN s /\ u[i] = s[i]
             \/ ~(i <= Len(s)) /\ i - Len(s) \in DOMAIN t /\ u[i] = t[i - Len(s)]
  BY <1>1, <1>2
<1>4. \A i \in DOMAIN s, j \in DOMAIN t : s[i] # t[j]
  BY DEF Range
<1>5. ASSUME NEW i \in DOMAIN u, NEW j \in DOMAIN u, u[i] = u[j] PROVE i = j
  <2>1. CASE i <= Len(s) /\ j <= Len(s)
    BY <1>3, <1>5, <2>1 DEF Once
  <2>2. CASE ~(i <= Len(s)) /\ ~(j <= Len(s))
    <3>1. i - Len(s) = j - Len(s)
      BY <1>3, <1>5, <2>2 DEF Once
    <3> QED BY <1>1, <1>2, <3>1
  <2>3. CASE ~(i <= Len(s) <=> j <= Len(s))
    BY <1>3, <1>4, <1>5, <2>3
  <2> QED BY <2>1, <2>2, <2>3
<1>6. Range(u) \subseteq Range(s) \union Range(t)
  BY <1>3 DEF Range
<1> QED BY <1>5, <1>6 DEF u, Once

\* addClick: a page view takes some of the clicks.
LEMMA WithClicksFacts ==
  ASSUME NEW view \in View, NEW cs \in Seq(Clicks), Once(view.clicks), Once(cs),
         Range(view.clicks) \intersect Range(cs) = {}
  PROVE  LET w == WithClicks(view, cs) IN
         /\ w \in View /\ w.id = view.id /\ Once(w.clicks)
         /\ Range(w.clicks) \subseteq Range(view.clicks) \union Range(cs)
<1> DEFINE n == IF view.count + Len(cs) > MaxClicks THEN MaxClicks - view.count ELSE Len(cs)
           part == SubSeq(cs, 1, n)
           w == WithClicks(view, cs)
<1>1. /\ view.clicks \in Seq(Clicks) /\ view.count \in 0..MaxClicks /\ MaxClicks \in Nat
      /\ Len(cs) \in Nat
  BY HeatmapsAssumption, LenProperties DEF View
<1>2. n \in 0..Len(cs) /\ view.count + n \in 0..MaxClicks
  BY <1>1
<1>3. w = [view EXCEPT !.clicks = @ \o part, !.count = @ + n]
  BY DEF WithClicks
<1> HIDE DEF n
<1>4. part \in Seq(Clicks) /\ Once(part) /\ Range(part) \subseteq Range(cs)
  BY <1>2, PartsOnce
<1> HIDE DEF part, w
<1>5. view.clicks \o part \in Seq(Clicks)
  BY <1>1, <1>4, ConcatProperties
<1>6. /\ w.clicks = view.clicks \o part /\ w.id = view.id
      /\ w \in View
  BY <1>1, <1>2, <1>3, <1>5 DEF View
<1>7. /\ Once(view.clicks \o part)
      /\ Range(view.clicks \o part) \subseteq Range(view.clicks) \union Range(part)
  <2>1. Range(view.clicks) \intersect Range(part) = {}
    BY <1>4
  <2> QED BY <1>1, <1>4, <2>1, ConcatOnce
<1> QED BY <1>4, <1>6, <1>7 DEF w

LEMMA CurrentFacts ==
  ASSUME HeatmapsInv
  PROVE  \/ current = <<>> /\ DOMAIN current = {} /\ CurrentId = 0
         \/ /\ current # <<>> /\ Len(current) = 1 /\ DOMAIN current = {1}
            /\ current[1] \in View /\ CurrentId = current[1].id
            /\ CurrentId \in 1..Len(pages) /\ Once(current[1].clicks)
            /\ ClicksIn(current) = Range(current[1].clicks)
<1>1. current \in Seq(View) /\ Len(current) <= 1
  BY DEF HeatmapsInv, BufferInv
<1>2. Len(current) \in Nat /\ DOMAIN current = 1..Len(current)
  BY <1>1, LenProperties
<1>3. CASE current = <<>>
  <2>1. Len(current) = 0
    BY <1>3, EmptySeq
  <2> QED BY <1>2, <1>3, <2>1 DEF CurrentId
<1>4. CASE current # <<>>
  <2>1. Len(current) = 1
    BY <1>1, <1>2, <1>4, EmptySeq
  <2>2. DOMAIN current = {1} /\ 1 \in 1..Len(current)
    BY <1>2, <2>1
  <2>3. current[1] \in View
    BY <1>1, <2>2, ElementOfSeq
  <2>4. CurrentId = current[1].id /\ CurrentId \in 1..Len(pages)
    BY <1>4 DEF CurrentId, HeatmapsInv, BufferInv, CurrentIsShown
  <2>5. Once(current[1].clicks)
    BY <2>2 DEF HeatmapsInv, BufferInv, HeldOnce, Distinct
  <2>6. \A c : c \in ClicksIn(current) <=> c \in Range(current[1].clicks)
    BY <2>2, ClicksInFacts
  <2> QED BY <1>4, <2>1, <2>2, <2>3, <2>4, <2>5, <2>6
<1> QED BY <1>3, <1>4

\* onFinalized: the open page view takes clicks that were pending.
LEMMA AddedFacts ==
  ASSUME HeatmapsInv, NEW cs \in Seq(Clicks), Once(cs), Range(cs) \subseteq Range(pending),
         NEW cur, cur = Added(cs)
  PROVE  /\ cur \in Seq(View) /\ Len(cur) <= 1 /\ DOMAIN cur = DOMAIN current
         /\ cur = <<>> <=> current = <<>>
         /\ cur # <<>> => cur[1].id = CurrentId
         /\ Distinct(cur) /\ ClicksIn(cur) \subseteq ClicksIn(current) \union Range(cs)
         /\ \A i \in DOMAIN cur : ViewRight(cur[i])
<1>1. cur = [i \in DOMAIN current |-> WithClicks(current[i], cs)]
  BY DEF Added
<1>2. CASE current = <<>>
  <2>1. DOMAIN current = {}
    BY <1>2, EmptySeq, LenProperties
  <2>2. cur = <<>>
    BY <1>1, <2>1
  <2>3. cur \in Seq(View) /\ Len(cur) = 0
    BY <2>2, EmptySeq
  <2> QED BY <1>1, <1>2, <2>1, <2>2, <2>3 DEF Distinct, ClicksIn
<1>3. CASE current # <<>>
  <2>1. /\ Len(current) = 1 /\ DOMAIN current = {1}
        /\ current[1] \in View /\ CurrentId = current[1].id
        /\ CurrentId \in 1..Len(pages) /\ Once(current[1].clicks)
        /\ ClicksIn(current) = Range(current[1].clicks)
    BY <1>3, CurrentFacts
  <2> DEFINE w == WithClicks(current[1], cs)
  <2>2. Range(current[1].clicks) \intersect Range(cs) = {}
    BY <2>1 DEF HeatmapsInv, BufferInv, HeldOnce
  <2>3. /\ w \in View /\ w.id = CurrentId /\ Once(w.clicks)
        /\ Range(w.clicks) \subseteq Range(current[1].clicks) \union Range(cs)
    BY <2>1, <2>2, WithClicksFacts
  <2>4. DOMAIN cur = {1} /\ cur[1] = w
    BY <1>1, <2>1
  <2>5. cur = <<w>>
    BY <1>1, <2>1
  <2> HIDE DEF w
  <2>6. cur \in Seq(View) /\ Len(cur) = 1 /\ cur # <<>>
    BY <2>3, <2>5
  <2>7. Distinct(cur)
    BY <2>3, <2>4 DEF Distinct
  <2>8. \A c : c \in ClicksIn(cur) <=> c \in Range(w.clicks)
    BY <2>4, ClicksInFacts
  <2>9. ViewRight(w)
    <3>1. \A c \in Range(current[1].clicks) : at[c] = pages[CurrentId]
      BY <2>1 DEF HeatmapsInv, BufferInv, BufferRight, ViewRight
    <3>2. \A c \in Range(cs) : at[c] = pages[CurrentId]
      BY <1>3 DEF HeatmapsInv, BufferInv, BufferRight
    <3> QED BY <2>1, <2>3, <3>1, <3>2 DEF ViewRight
  <2> QED BY <1>3, <2>1, <2>3, <2>4, <2>6, <2>7, <2>8, <2>9
<1> QED BY <1>2, <1>3

\* Page views one after the other.
LEMMA ConcatViews ==
  ASSUME NEW a \in Seq(View), NEW b \in Seq(View), Distinct(a), Distinct(b),
         ClicksIn(a) \intersect ClicksIn(b) = {}
  PROVE  /\ a \o b \in Seq(View) /\ Distinct(a \o b)
         /\ ClicksIn(a \o b) = ClicksIn(a) \union ClicksIn(b)
         /\ \A i \in DOMAIN (a \o b) :
              \/ \E j \in DOMAIN a : (a \o b)[i] = a[j]
              \/ \E j \in DOMAIN b : (a \o b)[i] = b[j]
<1> DEFINE u == a \o b
<1>1. /\ u \in Seq(View) /\ Len(u) = Len(a) + Len(b) /\ Len(a) \in Nat /\ Len(b) \in Nat
      /\ DOMAIN a = 1..Len(a) /\ DOMAIN b = 1..Len(b)
      /\ \A i \in 1..Len(a) + Len(b) : u[i] = IF i <= Len(a) THEN a[i] ELSE b[i - Len(a)]
  BY ConcatProperties, LenProperties
<1> HIDE DEF u
<1>2. DOMAIN u = 1..Len(a) + Len(b)
  BY <1>1, LenProperties
<1>3. ASSUME NEW i \in DOMAIN u
      PROVE  \/ i <= Len(a) /\ i \in DOMAIN a /\ u[i] = a[i]
             \/ ~(i <= Len(a)) /\ i - Len(a) \in DOMAIN b /\ u[i] = b[i - Len(a)]
  BY <1>1, <1>2
<1>4. \A i \in DOMAIN a, j \in DOMAIN b : Range(a[i].clicks) \intersect Range(b[j].clicks) = {}
  BY ClicksInFacts
<1>5. ASSUME NEW i \in DOMAIN u, NEW j \in DOMAIN u
      PROVE  /\ Once(u[i].clicks)
             /\ i # j => Range(u[i].clicks) \intersect Range(u[j].clicks) = {}
  <2>1. Once(u[i].clicks)
    BY <1>3 DEF Distinct
  <2>2. ASSUME i # j PROVE Range(u[i].clicks) \intersect Range(u[j].clicks) = {}
    <3>1. CASE i <= Len(a) /\ j <= Len(a)
      BY <1>3, <2>2, <3>1 DEF Distinct
    <3>2. CASE ~(i <= Len(a)) /\ ~(j <= Len(a))
      <4>1. i - Len(a) # j - Len(a)
        BY <1>1, <1>2, <2>2
      <4> QED BY <1>3, <3>2, <4>1 DEF Distinct
    <3>3. CASE ~(i <= Len(a) <=> j <= Len(a))
      BY <1>3, <1>4, <3>3
    <3> QED BY <3>1, <3>2, <3>3
  <2> QED BY <2>1, <2>2
<1>6. ASSUME NEW c PROVE c \in ClicksIn(u) <=> c \in ClicksIn(a) \/ c \in ClicksIn(b)
  <2>1. ASSUME c \in ClicksIn(u) PROVE c \in ClicksIn(a) \/ c \in ClicksIn(b)
    BY <1>3, <2>1, ClicksInFacts
  <2>2. ASSUME c \in ClicksIn(a) PROVE c \in ClicksIn(u)
    <3>1. PICK i \in DOMAIN a : c \in Range(a[i].clicks)
      BY <2>2, ClicksInFacts
    <3>2. i \in DOMAIN u /\ u[i] = a[i]
      BY <1>1, <1>2
    <3> QED BY <3>1, <3>2, ClicksInFacts
  <2>3. ASSUME c \in ClicksIn(b) PROVE c \in ClicksIn(u)
    <3>1. PICK i \in DOMAIN b : c \in Range(b[i].clicks)
      BY <2>3, ClicksInFacts
    <3>2. i + Len(a) \in DOMAIN u /\ ~(i + Len(a) <= Len(a)) /\ i + Len(a) - Len(a) = i
      BY <1>1, <1>2
    <3>3. u[i + Len(a)] = b[i]
      BY <1>1, <1>2, <3>2
    <3> QED BY <3>1, <3>2, <3>3, ClicksInFacts
  <2> QED BY <2>1, <2>2, <2>3
<1> QED BY <1>1, <1>3, <1>5, <1>6 DEF u, Distinct

-----------------------------------------------------------------------------
(* The parts of the invariant, from step to step.                          *)

\* Page views are only added.
PagesGrow ==
  /\ pages' \in Seq(Paths) /\ Len(pages) <= Len(pages')
  /\ \A v \in 1..Len(pages) : pages'[v] = pages[v]

\* Nothing is held that was not, but for new clicks; the page of a click stays.
HeldShrinks ==
  /\ \A c \in Clicks : at[c] \in Paths => at'[c] = at[c]
  /\ \A c \in Held' : c \in Held \/ at[c] = NoPath

\* The open page view stays, or is none of those before.
OpenMoves == CurrentId' = CurrentId \/ CurrentId' \notin 1..Len(pages)

LEMMA ViewNumbers ==
  ASSUME HeatmapsInv, PagesGrow
  PROVE  /\ Len(pages) \in Nat /\ Len(pages') \in Nat
         /\ \A v \in 1..Len(pages) : v \in 1..Len(pages') /\ pages[v] \in Paths
  BY LenProperties, ElementOfSeq DEF HeatmapsInv, BufferInv, PagesGrow

\* A post stays right while page views are added and clicks keep their pages.
LEMMA PostsStayRight ==
  ASSUME HeatmapsInv, PagesGrow, HeldShrinks
  PROVE  \A p \in Post : PostRight(p) => PostRight(p)'
<1> SUFFICES ASSUME NEW p \in Post, PostRight(p) PROVE PostRight(p)'
  OBVIOUS
<1>1. p.click \in Clicks
  BY DEF Post
<1> QED BY <1>1, ViewNumbers DEF PostRight, PagesGrow, HeldShrinks

LEMMA BatchPosts ==
  ASSUME NEW batch \in Batch
  PROVE  /\ PostsOf(batch) \subseteq Post
         /\ \A c : c \in ClicksIn(batch) <=> \E p \in PostsOf(batch) : p.click = c
<1>1. ASSUME NEW p \in PostsOf(batch) PROVE p \in Post
  <2>1. PICK i, a : /\ i \in DOMAIN batch /\ a \in DOMAIN batch[i].clicks
                    /\ p = [click |-> batch[i].clicks[a], view |-> batch[i].view]
    BY PlacesFacts
  <2>2. batch[i] \in BatchEntry
    BY <2>1, LenProperties, ElementOfSeq DEF Batch
  <2>3. batch[i].clicks[a] \in Clicks /\ batch[i].view \in Nat
    BY <2>1, <2>2, LenProperties, ElementOfSeq DEF BatchEntry
  <2> QED BY <2>1, <2>3 DEF Post
<1>2. ASSUME NEW c
      PROVE  c \in ClicksIn(batch) <=> \E p \in PostsOf(batch) : p.click = c
  <2>1. ASSUME c \in ClicksIn(batch) PROVE \E p \in PostsOf(batch) : p.click = c
    <3>1. PICK i \in DOMAIN batch : c \in Range(batch[i].clicks)
      BY <2>1, ClicksInFacts
    <3>2. PICK a \in DOMAIN batch[i].clicks : c = batch[i].clicks[a]
      BY <3>1 DEF Range
    <3>3. [click |-> c, view |-> batch[i].view] \in PostsOf(batch)
      BY <3>1, <3>2, PlacesFacts
    <3> QED BY <3>3
  <2>2. ASSUME NEW p \in PostsOf(batch), p.click = c PROVE c \in ClicksIn(batch)
    <3>1. PICK i, a : /\ i \in DOMAIN batch /\ a \in DOMAIN batch[i].clicks
                      /\ p = [click |-> batch[i].clicks[a], view |-> batch[i].view]
      BY PlacesFacts
    <3>2. c \in Range(batch[i].clicks)
      BY <2>2, <3>1 DEF Range
    <3> QED BY <3>1, <3>2, ClicksInFacts
  <2> QED BY <2>1, <2>2
<1> QED BY <1>1, <1>2

LEMMA BatchesRightNext ==
  ASSUME \A i \in DOMAIN batches' :
           /\ BatchFits(batches'[i]) /\ OneView(PostsOf(batches'[i]))
           /\ \A p \in PostsOf(batches'[i]) : PostRight(p)'
           /\ i # 1 => \A p \in PostsOf(batches'[i]) :
                p.click \notin Held' /\ \A q \in posted' : q.click # p.click
           /\ \A j \in DOMAIN batches' : i # j =>
                \A p \in PostsOf(batches'[i]), q \in PostsOf(batches'[j]) : p.click # q.click
  PROVE  BatchesRight'
BY DEF BatchesRight, BatchFits, ClicksOf, PostsOf, OneView

\* What is sent stays right while nothing is sent.
LEMMA SentKept ==
  ASSUME HeatmapsInv, PagesGrow, HeldShrinks, UNCHANGED <<batches, posted>>
  PROVE  SentInv'
<1>1. /\ batches \in Seq(Batch) /\ posted \subseteq Post
      /\ \A i \in DOMAIN batches : batches[i] \in Batch
  BY LenProperties, ElementOfSeq DEF HeatmapsInv, SentInv
<1>2. \A p : PostRight(p) => at[p.click] # NoPath
  BY NoPathAssumption DEF PostRight
<1>3. BatchesRight'
  <2> SUFFICES ASSUME NEW i \in DOMAIN batches
               PROVE  /\ BatchFits(batches[i]) /\ OneView(PostsOf(batches[i]))
                      /\ \A p \in PostsOf(batches[i]) : PostRight(p)'
                      /\ i # 1 => \A p \in PostsOf(batches[i]) :
                           p.click \notin Held' /\ \A q \in posted : q.click # p.click
                      /\ \A j \in DOMAIN batches : i # j =>
                           \A p \in PostsOf(batches[i]), q \in PostsOf(batches[j]) :
                             p.click # q.click
    BY BatchesRightNext
  <2>1. /\ BatchFits(batches[i]) /\ OneView(PostsOf(batches[i]))
        /\ \A p \in PostsOf(batches[i]) : PostRight(p)
        /\ i # 1 => \A p \in PostsOf(batches[i]) :
             p.click \notin Held /\ \A q \in posted : q.click # p.click
        /\ \A j \in DOMAIN batches : i # j =>
             \A p \in PostsOf(batches[i]), q \in PostsOf(batches[j]) : p.click # q.click
    BY DEF HeatmapsInv, SentInv, BatchesRight
  <2>2. PostsOf(batches[i]) \subseteq Post
    BY <1>1, BatchPosts
  <2>3. \A p \in PostsOf(batches[i]) : PostRight(p)'
    BY <2>1, <2>2, PostsStayRight
  <2>4. \A p \in PostsOf(batches[i]) : p.click \notin Held => p.click \notin Held'
    BY <1>2, <2>1 DEF HeldShrinks
  <2> QED BY <2>1, <2>3, <2>4
<1>4. PostedRight'
  <2> SUFFICES ASSUME NEW p \in posted PROVE PostRight(p)' /\ p.click \notin Held'
    BY DEF HeatmapsInv, SentInv, PostedRight, OneView
  <2>1. PostRight(p) /\ p.click \notin Held
    BY DEF HeatmapsInv, SentInv, PostedRight
  <2> QED BY <1>1, <1>2, <2>1, PostsStayRight DEF HeldShrinks
<1> QED BY <1>1, <1>3, <1>4 DEF SentInv

\* The snapshots stay right while none of them moves on.
LEMMA ShotsKept ==
  ASSUME HeatmapsInv, PagesGrow, OpenMoves, uploaded' = uploaded, shots' \subseteq Shot,
         \A s \in shots' : \/ s \in shots
                           \/ /\ s.view \in 1..Len(pages)
                              /\ s.step = "settle" \/ s.withdrawn,
         \/ consent => consent'
         \/ \A s \in shots' : s.withdrawn
  PROVE  ShotsInv'
<1>1. UploadsRight'
  <2> SUFFICES ASSUME NEW u \in uploaded
               PROVE  u.view \in 1..Len(pages') /\ (u.of = pages'[u.view] \/ u.withdrawn)
    BY DEF UploadsRight
  <2>1. u.view \in 1..Len(pages) /\ (u.of = pages[u.view] \/ u.withdrawn)
    BY DEF HeatmapsInv, ShotsInv, UploadsRight
  <2> QED BY <2>1, ViewNumbers DEF PagesGrow
<1>2. ShotsRight'
  <2> SUFFICES ASSUME NEW s \in shots'
               PROVE  /\ s.view \in 1..Len(pages')
                      /\ s.step = "load" /\ ~s.withdrawn => consent'
                      /\ s.step = "gzip" /\ ~s.withdrawn /\ s.view = CurrentId'
                           => s.of = pages'[s.view]
    BY DEF ShotsRight
  <2>1. CASE s \in shots
    <3>1. /\ s.view \in 1..Len(pages)
          /\ s.step = "load" /\ ~s.withdrawn => consent
          /\ s.step = "gzip" /\ ~s.withdrawn /\ s.view = CurrentId => s.of = pages[s.view]
      BY <2>1 DEF HeatmapsInv, ShotsInv, ShotsRight
    <3>2. s.view \in 1..Len(pages') /\ pages'[s.view] = pages[s.view]
      BY <3>1, ViewNumbers DEF PagesGrow
    <3>3. s.view = CurrentId' => s.view = CurrentId
      BY <3>1 DEF OpenMoves
    <3> QED BY <3>1, <3>2, <3>3
  <2>2. CASE s \notin shots
    BY <2>2, ViewNumbers
  <2> QED BY <2>1, <2>2
<1> QED BY <1>1, <1>2 DEF HeatmapsInv, ShotsInv

LEMMA HeldOnceNext ==
  ASSUME Once(pending'), Distinct(waiting'), Distinct(current'),
         ClicksIn(waiting') \intersect ClicksIn(current') = {},
         Range(pending') \intersect (ClicksIn(waiting') \union ClicksIn(current')) = {}
  PROVE  HeldOnce'
BY DEF HeldOnce, Distinct, ClicksIn, Once

\* Nothing is shown or held otherwise than before.
LEMMA BufferKept ==
  ASSUME HeatmapsInv, UNCHANGED <<shown, pending, waiting, current, at, killed>>,
         consent' \in BOOLEAN, consent' => consent, due' \in 0..Len(pending)
  PROVE  /\ BufferInv' /\ PagesGrow /\ HeldShrinks /\ OpenMoves
         /\ Held' = Held /\ CurrentId' = CurrentId
<1> USE DEF HeatmapsInv, BufferInv, shown
<1>1. Held' = Held /\ CurrentId' = CurrentId
  BY DEF Held, ClicksIn, CurrentId
<1>2. CurrentIsShown'
  BY <1>1 DEF CurrentIsShown
<1>3. BufferRight'
  BY <1>1 DEF BufferRight, ViewRight
<1>4. HeldOnce'
  BY HeldOnceNext DEF HeldOnce
<1>5. PagesGrow
  BY LenProperties DEF PagesGrow
<1> QED BY <1>1, <1>2, <1>3, <1>4, <1>5 DEF HeldShrinks, OpenMoves

\* Nothing is held any more.
LEMMA Emptied ==
  ASSUME HeatmapsInv, pending' = <<>>, due' = 0, waiting' = <<>>, current' = <<>>,
         UNCHANGED <<shown, at, consent>>, killed' \in BOOLEAN
  PROVE  /\ BufferInv' /\ PagesGrow /\ HeldShrinks /\ OpenMoves
<1> USE DEF shown
<1>1. /\ <<>> \in Seq(Clicks) /\ <<>> \in Seq(View) /\ Len(<<>>) = 0 /\ DOMAIN <<>> = {}
  BY EmptySeq, LenProperties
<1>2. ClicksIn(<<>>) = {} /\ Range(<<>>) = {} /\ Once(<<>>) /\ Distinct(<<>>)
  BY <1>1 DEF ClicksIn, Range, Once, Distinct
<1>3. Held' = {} /\ CurrentId' = 0
  BY <1>2 DEF Held, ClicksIn, CurrentId
<1>4. CurrentIsShown'
  BY DEF HeatmapsInv, BufferInv, CurrentIsShown
<1>5. BufferRight'
  BY <1>1, <1>2 DEF BufferRight
<1>6. HeldOnce'
  <2>1. /\ Once(pending') /\ Distinct(waiting') /\ Distinct(current')
        /\ Range(pending') = {} /\ ClicksIn(waiting') = {} /\ ClicksIn(current') = {}
    BY <1>2
  <2> QED BY <2>1, HeldOnceNext
<1>7. BufferInv'
  BY <1>1, <1>4, <1>5, <1>6 DEF HeatmapsInv, BufferInv
<1> QED BY <1>3, <1>7, LenProperties DEF HeatmapsInv, BufferInv, PagesGrow, HeldShrinks, OpenMoves

\* Some of the clicks that are pending become final, the others stay.
LEMMA Finalizes ==
  ASSUME HeatmapsInv, NEW cs \in Seq(Clicks), NEW rest \in Seq(Clicks),
         Once(cs), Once(rest), Range(cs) \intersect Range(rest) = {},
         Range(cs) \subseteq Range(pending), Range(rest) \subseteq Range(pending),
         current' = Added(cs), pending' = rest, due' = 0,
         UNCHANGED <<shown, waiting, at, killed, consent>>
  PROVE  BufferInv' /\ PagesGrow /\ HeldShrinks /\ OpenMoves
<1> USE DEF shown
<1>1. /\ current' \in Seq(View) /\ Len(current') <= 1 /\ DOMAIN current' = DOMAIN current
      /\ current' = <<>> <=> current = <<>>
      /\ current' # <<>> => current'[1].id = CurrentId
      /\ Distinct(current') /\ ClicksIn(current') \subseteq ClicksIn(current) \union Range(cs)
      /\ \A i \in DOMAIN current' : ViewRight(current'[i])
  BY AddedFacts
<1>2. CurrentId' = CurrentId
  BY <1>1 DEF CurrentId
<1>3. /\ HeldOnce /\ CurrentIsShown /\ BufferRight /\ pages \in Seq(Paths)
  BY DEF HeatmapsInv, BufferInv
<1>4. CurrentIsShown'
  BY <1>1, <1>2, <1>3 DEF CurrentIsShown
<1>5. BufferRight'
  BY <1>1, <1>2, <1>3 DEF BufferRight, ViewRight
<1>6. HeldOnce'
  <2>1. ClicksIn(waiting) \intersect ClicksIn(current') = {}
    BY <1>1, <1>3 DEF HeldOnce
  <2>2. Range(rest) \intersect (ClicksIn(waiting) \union ClicksIn(current')) = {}
    BY <1>1, <1>3 DEF HeldOnce
  <2>3. ClicksIn(waiting)' = ClicksIn(waiting) /\ Distinct(waiting)' = Distinct(waiting)
    BY DEF ClicksIn, Distinct, Once
  <2> QED BY <1>1, <1>3, <2>1, <2>2, <2>3 DEF HeldOnce, ClicksIn, Distinct, Once
<1>7. Held' \subseteq Held
  BY <1>1 DEF Held, ClicksIn
<1>8. Len(rest) \in Nat /\ Len(pages) \in Nat
  BY <1>3, LenProperties
<1>9. BufferInv'
  BY <1>1, <1>4, <1>5, <1>6, <1>8 DEF HeatmapsInv, BufferInv
<1> QED BY <1>2, <1>3, <1>7, <1>8, <1>9 DEF PagesGrow, HeldShrinks, OpenMoves

\* A page view starts: the clicks that are pending are final, and stay with the page
\* view they were made in.
LEMMA PageViewStarts ==
  ASSUME HeatmapsInv, NEW p \in Paths, StartPageView(p), ~killed,
         lastPath' = p, path' = p, consent' \in BOOLEAN, UNCHANGED <<at, killed>>
  PROVE  BufferInv' /\ PagesGrow /\ HeldShrinks /\ OpenMoves
<1> DEFINE cur == Added(pending)
           new == NewView(Len(pages) + 1)
<1>1. /\ pages' = Append(pages, p) /\ pending' = <<>> /\ due' = 0
      /\ waiting' = waiting \o cur /\ current' = <<new>>
  BY DEF StartPageView
<1>2. /\ HeldOnce /\ BufferRight /\ pages \in Seq(Paths)
      /\ pending \in Seq(Clicks) /\ waiting \in Seq(View)
  BY DEF HeatmapsInv, BufferInv
<1>3. /\ cur \in Seq(View) /\ Distinct(cur)
      /\ ClicksIn(cur) \subseteq ClicksIn(current) \union Range(pending)
      /\ \A i \in DOMAIN cur : ViewRight(cur[i])
  BY <1>2, AddedFacts DEF HeldOnce
<1> HIDE DEF cur
<1>4. /\ Len(pages) \in Nat /\ Len(pages') = Len(pages) + 1 /\ pages' \in Seq(Paths)
      /\ pages'[Len(pages) + 1] = p /\ \A v \in 1..Len(pages) : pages'[v] = pages[v]
  BY <1>1, <1>2, AppendProperties, LenProperties
<1>5. /\ new \in View /\ new.id = Len(pages) + 1 /\ new.clicks = <<>>
      /\ <<>> \in Seq(Clicks) /\ Len(<<>>) = 0 /\ DOMAIN <<>> = {}
  <2>1. <<>> \in Seq(Clicks) /\ Len(<<>>) = 0 /\ DOMAIN <<>> = {}
    BY EmptySeq, LenProperties
  <2> QED BY <1>4, <2>1, HeatmapsAssumption DEF NewView, View
<1> HIDE DEF new
<1>6. Range(<<>>) = {} /\ Once(<<>>)
  BY <1>5 DEF Range, Once
<1>7. /\ current' \in Seq(View) /\ Len(current') = 1 /\ current' # <<>>
      /\ DOMAIN current' = {1} /\ current'[1] = new
  BY <1>1, <1>5
<1>8. Distinct(current') /\ ClicksIn(current') = {}
  <2>1. \A c : c \notin ClicksIn(current')
    BY <1>5, <1>6, <1>7, ClicksInFacts
  <2> QED BY <1>5, <1>6, <1>7, <2>1 DEF Distinct
<1>9. /\ waiting' \in Seq(View) /\ Distinct(waiting')
      /\ ClicksIn(waiting') = ClicksIn(waiting) \union ClicksIn(cur)
      /\ \A i \in DOMAIN waiting' : \/ \E j \in DOMAIN waiting : waiting'[i] = waiting[j]
                                    \/ \E j \in DOMAIN cur : waiting'[i] = cur[j]
  <2>1. ClicksIn(waiting) \intersect ClicksIn(cur) = {} /\ Distinct(waiting)
    BY <1>2, <1>3 DEF HeldOnce
  <2> DEFINE old == waiting \o cur
  <2>2. /\ old \in Seq(View) /\ Distinct(old)
        /\ ClicksIn(old) = ClicksIn(waiting) \union ClicksIn(cur)
        /\ \A i \in DOMAIN old : \/ \E j \in DOMAIN waiting : old[i] = waiting[j]
                                \/ \E j \in DOMAIN cur : old[i] = cur[j]
    BY <1>2, <1>3, <2>1, ConcatViews
  <2>3. waiting' = old
    BY <1>1
  <2> HIDE DEF old
  <2> QED BY <2>2, <2>3
<1>10. CurrentId' = Len(pages) + 1
  BY <1>5, <1>7 DEF CurrentId
<1>11. CurrentIsShown'
  BY <1>4, <1>10 DEF CurrentIsShown
<1>12. \A view : ViewRight(view) => ViewRight(view)'
  BY <1>4 DEF ViewRight
<1>13. BufferRight'
  <2>1. \A i \in DOMAIN waiting' : ViewRight(waiting'[i])
    BY <1>2, <1>3, <1>9 DEF BufferRight
  <2>2. \A i \in DOMAIN waiting' : ViewRight(waiting[i])'
    BY <1>12, <2>1
  <2>3. \A i \in DOMAIN current' : ViewRight(current[i])'
    BY <1>4, <1>5, <1>6, <1>7 DEF ViewRight
  <2> QED BY <1>1, <1>6, <2>2, <2>3 DEF BufferRight
<1>14. HeldOnce'
  <2>1. /\ Once(pending') /\ Range(pending') = {}
    BY <1>1, <1>6
  <2>2. ClicksIn(waiting') \intersect ClicksIn(current') = {}
    BY <1>8
  <2>3. Range(pending') \intersect (ClicksIn(waiting') \union ClicksIn(current')) = {}
    BY <2>1
  <2> QED BY <1>8, <1>9, <2>1, <2>2, <2>3, HeldOnceNext
<1>15. Held' \subseteq Held
  <2>1. Held' = Range(pending') \union ClicksIn(waiting') \union ClicksIn(current')
    BY DEF Held, ClicksIn
  <2> QED BY <1>1, <1>3, <1>6, <1>8, <1>9, <2>1 DEF Held
<1>16. BufferInv'
  BY <1>1, <1>4, <1>5, <1>7, <1>9, <1>11, <1>13, <1>14 DEF HeatmapsInv, BufferInv
<1> QED BY <1>4, <1>10, <1>15, <1>16 DEF PagesGrow, HeldShrinks, OpenMoves

LEMMA AutoPageviewKeeps ==
  ASSUME HeatmapsInv, NEW p \in Paths, NEW enabled \in BOOLEAN, AutoPageview(p, enabled),
         path' = p, consent' \in BOOLEAN, consent' => enabled, UNCHANGED <<at, killed>>
  PROVE  BufferInv' /\ PagesGrow /\ HeldShrinks /\ OpenMoves
<1>1. CASE ~(~enabled \/ lastPath = p) /\ ~killed
  BY <1>1, PageViewStarts DEF AutoPageview
<1>2. CASE ~enabled \/ lastPath = p \/ killed
  <2>1. UNCHANGED <<pages, pending, due, current, waiting>>
    BY <1>2 DEF AutoPageview, buffer
  <2>2. CurrentIsShown'
    <3>1. CASE ~enabled \/ lastPath = p
      <4>1. lastPath' = lastPath
        BY <3>1 DEF AutoPageview
      <4> QED BY <2>1, <3>1, <4>1 DEF HeatmapsInv, BufferInv, CurrentIsShown, CurrentId
    <3>2. CASE ~(~enabled \/ lastPath = p) /\ killed
      <4>1. lastPath' = p /\ current = <<>>
        BY <3>2 DEF AutoPageview, HeatmapsInv, BufferInv, CurrentIsShown
      <4> QED BY <2>1, <4>1 DEF CurrentIsShown
    <3> QED BY <1>2, <3>1, <3>2
  <2>3. lastPath' \in Paths \union {NoPath}
    BY DEF AutoPageview, HeatmapsInv, BufferInv
  <2>4. Held' = Held /\ CurrentId' = CurrentId
    BY <2>1 DEF Held, ClicksIn, CurrentId
  <2>5. BufferRight' /\ HeldOnce'
    <3>1. BufferRight'
      BY <2>1, <2>4 DEF HeatmapsInv, BufferInv, BufferRight, ViewRight
    <3>2. HeldOnce'
      BY <2>1, HeldOnceNext DEF HeatmapsInv, BufferInv, HeldOnce
    <3> QED BY <3>1, <3>2
  <2>6. BufferInv'
    BY <2>1, <2>2, <2>3, <2>5 DEF HeatmapsInv, BufferInv
  <2> QED BY <2>1, <2>4, <2>6, LenProperties
          DEF HeatmapsInv, BufferInv, PagesGrow, HeldShrinks, OpenMoves
<1> QED BY <1>1, <1>2

-----------------------------------------------------------------------------
(* The actions.                                                            *)

LEMMA ClickKeeps ==
  ASSUME HeatmapsInv, NEW c \in Clicks, Click(c)
  PROVE  HeatmapsInv'
<1>1. /\ consent /\ current # <<>> /\ at[c] = NoPath
      /\ at' = [at EXCEPT ![c] = path] /\ pending' = Append(pending, c)
      /\ UNCHANGED <<consenting, shown, due, current, waiting, flushing, snapshots, posted>>
  BY DEF Click, active
<1>2. /\ path \in Paths /\ pages \in Seq(Paths) /\ at \in [Clicks -> Paths \union {NoPath}]
      /\ pending \in Seq(Clicks) /\ due \in 0..Len(pending)
      /\ CurrentIsShown /\ BufferRight /\ HeldOnce
  BY DEF HeatmapsInv, BufferInv
<1>3. /\ at' \in [Clicks -> Paths \union {NoPath}] /\ at'[c] = path
      /\ \A d \in Clicks : d # c => at'[d] = at[d]
  BY <1>1, <1>2
<1>4. /\ pending' \in Seq(Clicks) /\ Len(pending') = Len(pending) + 1 /\ Len(pending) \in Nat
      /\ pending'[Len(pending) + 1] = c
      /\ \A i \in 1..Len(pending) : pending'[i] = pending[i]
  BY <1>1, <1>2, AppendProperties, LenProperties
<1>5. DOMAIN pending' = 1..Len(pending) + 1 /\ DOMAIN pending = 1..Len(pending)
  BY <1>2, <1>4, LenProperties
<1>6. Range(pending') = Range(pending) \union {c}
  <2>1. \A i : i \in DOMAIN pending' <=> i \in DOMAIN pending \/ i = Len(pending) + 1
    BY <1>4, <1>5
  <2> QED BY <1>4, <1>5, <2>1 DEF Range
<1>7. \A v \in 1..Len(pages) : pages[v] # NoPath
  BY <1>2, NoPathAssumption, ElementOfSeq
<1>8. /\ c \notin Range(pending) /\ c \notin ClicksIn(waiting) /\ c \notin ClicksIn(current)
      /\ \A views : c \in ClicksIn(views) <=> \E i \in DOMAIN views : c \in Range(views[i].clicks)
  <2>1. c \notin Range(pending)
    BY <1>1, <1>2 DEF BufferRight
  <2>2. \A view : ViewRight(view) => c \notin Range(view.clicks)
    BY <1>1, <1>7 DEF ViewRight
  <2>3. \A views : (\A i \in DOMAIN views : ViewRight(views[i])) => c \notin ClicksIn(views)
    BY <2>2, ClicksInFacts
  <2> QED BY <1>2, <2>1, <2>3, ClicksInFacts DEF BufferRight
<1>9. Range(pending) \subseteq Clicks
  BY <1>2, RangeFacts
<1>10. pages[CurrentId] = path /\ path # NoPath
  BY <1>1, <1>2, NoPathAssumption DEF CurrentIsShown
<1>11. CurrentId' = CurrentId
  BY <1>1 DEF CurrentId
<1>12. CurrentIsShown'
  BY <1>1, <1>2, <1>11 DEF CurrentIsShown, shown, consenting
<1>13. ASSUME NEW view \in View, ViewRight(view) PROVE ViewRight(view)'
  <2>1. view.clicks \in Seq(Clicks)
    BY DEF View
  <2>2. Range(view.clicks) \subseteq Clicks
    BY <2>1, RangeFacts
  <2>3. c \notin Range(view.clicks)
    BY <1>1, <1>7, <1>13 DEF ViewRight
  <2> QED BY <1>1, <1>3, <1>13, <2>2, <2>3 DEF ViewRight, shown
<1>14. BufferRight'
  <2>1. \A i \in DOMAIN waiting : waiting[i] \in View /\ ViewRight(waiting[i])
    BY LenProperties, ElementOfSeq DEF HeatmapsInv, BufferInv, BufferRight
  <2>2. \A i \in DOMAIN current : current[i] \in View /\ ViewRight(current[i])
    BY LenProperties, ElementOfSeq DEF HeatmapsInv, BufferInv, BufferRight
  <2>3. \A i \in DOMAIN waiting' : ViewRight(waiting[i])'
    BY <1>1, <1>13, <2>1 DEF ViewRight, shown
  <2>4. \A i \in DOMAIN current' : ViewRight(current[i])'
    BY <1>1, <1>13, <2>2 DEF ViewRight, shown
  <2>5. ASSUME NEW d \in Range(pending')
        PROVE  at'[d] # NoPath /\ (current' # <<>> => at'[d] = pages'[CurrentId'])
    <3>1. CASE d = c
      BY <1>1, <1>3, <1>10, <1>11, <3>1 DEF shown
    <3>2. CASE d # c
      <4>1. d \in Range(pending) /\ d \in Clicks
        BY <1>6, <1>9, <2>5, <3>2
      <4>2. at'[d] = at[d]
        BY <1>3, <3>2, <4>1
      <4> QED BY <1>1, <1>2, <1>11, <4>1, <4>2 DEF BufferRight, shown
    <3> QED BY <3>1, <3>2
  <2> QED BY <2>3, <2>4, <2>5 DEF BufferRight
<1>15. HeldOnce'
  <2>1. Once(pending')
    <3> SUFFICES ASSUME NEW i \in DOMAIN pending', NEW j \in DOMAIN pending',
                        pending'[i] = pending'[j]
                 PROVE  i = j
      BY DEF Once
    <3>1. /\ i \in DOMAIN pending \/ i = Len(pending) + 1
          /\ j \in DOMAIN pending \/ j = Len(pending) + 1
      BY <1>4, <1>5
    <3>2. \A k \in DOMAIN pending : pending'[k] = pending[k] /\ pending[k] # c
      BY <1>4, <1>5, <1>8 DEF Range
    <3> QED BY <1>2, <1>4, <3>1, <3>2 DEF HeldOnce, Once
  <2>2. waiting' = waiting /\ current' = current
    BY <1>1
  <2>3. /\ Distinct(waiting') /\ Distinct(current')
        /\ ClicksIn(waiting') \intersect ClicksIn(current') = {}
    BY <1>2, <2>2 DEF HeldOnce
  <2>4. Range(pending') \intersect (ClicksIn(waiting') \union ClicksIn(current')) = {}
    BY <1>2, <1>6, <1>8, <2>2 DEF HeldOnce
  <2> QED BY <2>1, <2>3, <2>4, HeldOnceNext
<1>16. BufferInv'
  <2>1. due' \in 0..Len(pending')
    BY <1>1, <1>2, <1>4
  <2> QED BY <1>1, <1>3, <1>4, <1>12, <1>14, <1>15, <2>1
          DEF HeatmapsInv, BufferInv, shown, consenting
<1>17. PagesGrow /\ OpenMoves
  BY <1>1, <1>2, <1>11, LenProperties DEF PagesGrow, OpenMoves, shown
<1>18. HeldShrinks
  <2>1. \A d \in Clicks : at[d] \in Paths => at'[d] = at[d]
    BY <1>1, <1>3, NoPathAssumption
  <2>2. waiting' = waiting /\ current' = current
    BY <1>1
  <2>3. ASSUME NEW d \in Held' PROVE d \in Held \/ at[d] = NoPath
    <3>1. d \in Range(pending') \union ClicksIn(waiting') \union ClicksIn(current')
      BY DEF Held, ClicksIn
    <3> QED BY <1>1, <1>6, <2>2, <3>1 DEF Held
  <2> QED BY <2>1, <2>3 DEF HeldShrinks
<1>19. SentInv'
  BY <1>1, <1>17, <1>18, SentKept DEF flushing
<1>20. ShotsInv'
  BY <1>1, <1>17, ShotsKept DEF consenting, snapshots, HeatmapsInv, ShotsInv
<1> QED BY <1>16, <1>19, <1>20 DEF HeatmapsInv

\* What a flush leaves of the page views: the open one, without clicks.
LEMMA Drains ==
  ASSUME HeatmapsInv, waiting' = <<>>,
         \/ current' = <<>>
         \/ current' = [i \in DOMAIN current |-> IF IsSendable(current[i])
                                                 THEN Drained(current[i]) ELSE current[i]],
         UNCHANGED <<shown, pending, due, at, killed, consent>>
  PROVE  /\ BufferInv' /\ PagesGrow /\ HeldShrinks /\ OpenMoves
         /\ Held' = Range(pending)
<1> USE DEF shown
<1>1. /\ HeldOnce /\ CurrentIsShown /\ BufferRight /\ pages \in Seq(Paths)
  BY DEF HeatmapsInv, BufferInv
<1>2. /\ <<>> \in Seq(Clicks) /\ <<>> \in Seq(View) /\ Len(<<>>) = 0 /\ DOMAIN <<>> = {}
  BY EmptySeq, LenProperties
<1>3. ClicksIn(<<>>) = {} /\ Range(<<>>) = {} /\ Once(<<>>) /\ Distinct(<<>>)
  BY <1>2 DEF ClicksIn, Range, Once, Distinct
<1>4. /\ current' \in Seq(View) /\ Len(current') <= 1
      /\ \A i \in DOMAIN current' : /\ i = 1 /\ current # <<>> /\ current'[i].clicks = <<>>
                                    /\ current'[i].id = CurrentId
      /\ current' # <<>> => current # <<>> /\ CurrentId' = CurrentId
  <2>1. CASE current' = <<>>
    BY <1>2, <2>1
  <2>2. CASE current' # <<>>
    <3>1. current' = [i \in DOMAIN current |-> IF IsSendable(current[i])
                                               THEN Drained(current[i]) ELSE current[i]]
      BY <2>2
    <3>2. current # <<>>
      BY <1>2, <2>2, <3>1
    <3>3. DOMAIN current = {1} /\ current[1] \in View /\ CurrentId = current[1].id
      BY <3>2, CurrentFacts
    <3> DEFINE v == IF IsSendable(current[1]) THEN Drained(current[1]) ELSE current[1]
    <3>4. v \in View /\ v.id = CurrentId /\ v.clicks = <<>>
      BY <1>2, <3>3 DEF Drained, IsSendable, View
    <3>5. current' = <<v>> /\ DOMAIN current' = {1} /\ current'[1] = v
      BY <3>1, <3>3
    <3> HIDE DEF v
    <3>6. current' \in Seq(View) /\ Len(current') = 1
      BY <3>4, <3>5
    <3>7. CurrentId' = CurrentId
      BY <2>2, <3>4, <3>5 DEF CurrentId
    <3> QED BY <3>2, <3>4, <3>5, <3>6, <3>7
  <2> QED BY <2>1, <2>2
<1>5. ClicksIn(current') = {} /\ Distinct(current')
  <2>1. \A c : c \notin ClicksIn(current')
    BY <1>3, <1>4, ClicksInFacts
  <2> QED BY <1>3, <1>4, <2>1 DEF Distinct
<1>6. ClicksIn(waiting') = {} /\ Distinct(waiting') /\ waiting' \in Seq(View)
  BY <1>2, <1>3
<1>7. Held' = Range(pending)
  <2>1. Held' = Range(pending') \union ClicksIn(waiting') \union ClicksIn(current')
    BY DEF Held, ClicksIn
  <2> QED BY <1>5, <1>6, <2>1
<1>8. CurrentIsShown'
  BY <1>1, <1>4 DEF CurrentIsShown
<1>9. BufferRight'
  <2>1. \A i \in DOMAIN waiting' : ViewRight(waiting[i])'
    BY <1>2
  <2>2. \A i \in DOMAIN current' : ViewRight(current[i])'
    <3>1. \A i \in DOMAIN current' :
            /\ current'[i].id \in 1..Len(pages) /\ Range(current'[i].clicks) = {}
      BY <1>1, <1>3, <1>4 DEF CurrentIsShown
    <3> QED BY <3>1 DEF ViewRight
  <2>3. \A c \in Range(pending') :
          at'[c] # NoPath /\ (current' # <<>> => at'[c] = pages'[CurrentId'])
    BY <1>1, <1>4 DEF BufferRight
  <2> QED BY <2>1, <2>2, <2>3 DEF BufferRight
<1>10. HeldOnce'
  <2>1. Once(pending')
    BY <1>1 DEF HeldOnce
  <2> QED BY <1>5, <1>6, <2>1, HeldOnceNext
<1>11. BufferInv'
  BY <1>4, <1>6, <1>8, <1>9, <1>10 DEF HeatmapsInv, BufferInv
<1>12. PagesGrow /\ HeldShrinks
  BY <1>1, <1>7, LenProperties DEF PagesGrow, HeldShrinks, Held
<1>13. OpenMoves
  <2>1. CASE current' = <<>>
    <3>1. CurrentId' = 0 /\ Len(pages) \in Nat
      BY <1>1, <2>1, LenProperties DEF CurrentId
    <3> QED BY <3>1 DEF OpenMoves
  <2> QED BY <1>4, <2>1 DEF OpenMoves
<1> QED BY <1>7, <1>11, <1>12, <1>13

\* The batches of a flush: of clicks that were in the buffer, each of them once.
LEMMA FlushSends ==
  ASSUME HeatmapsInv, PagesGrow, at' = at, Held' = Range(pending), NEW limit,
         batches' = Chunk(waiting \o current, limit),
         posted' = posted \union PostsOf(Head(batches'))
  PROVE  SentInv'
<1> DEFINE views == waiting \o current
           chunks == Chunk(views, limit)
           posts == PostsOfViews(views, Len(views))
<1>1. /\ HeldOnce /\ BufferRight /\ waiting \in Seq(View) /\ current \in Seq(View)
  BY DEF HeatmapsInv, BufferInv
<1>2. /\ views \in Seq(View) /\ Distinct(views)
      /\ ClicksIn(views) = ClicksIn(waiting) \union ClicksIn(current)
      /\ \A i \in DOMAIN views : \/ \E j \in DOMAIN waiting : views[i] = waiting[j]
                                 \/ \E j \in DOMAIN current : views[i] = current[j]
  BY <1>1, ConcatViews DEF HeldOnce
<1>3. \A i \in DOMAIN views : ViewRight(views[i]) /\ views[i] \in View
  BY <1>1, <1>2, LenProperties, ElementOfSeq DEF BufferRight
<1> HIDE DEF views
<1>4. DOMAIN views = 1..Len(views) /\ Len(views) \in Nat
  BY <1>2, LenProperties
<1>5. Chunked(chunks, posts)
  BY <1>2, ChunkKeeps
<1>6. ASSUME NEW p \in posts
      PROVE  /\ p.click \in ClicksIn(views) /\ PostRight(p) /\ p \in Post
             /\ \E i \in DOMAIN views : p.click \in Range(views[i].clicks) /\ p.view = views[i].id
  <2>1. PICK i \in DOMAIN views : p \in PostsOfView(views[i])
    BY <1>4 DEF PostsOfViews
  <2>2. p.click \in Range(views[i].clicks) /\ p.view = views[i].id
        /\ p = [click |-> p.click, view |-> p.view]
    BY <2>1 DEF PostsOfView
  <2>3. ViewRight(views[i]) /\ views[i] \in View
    BY <1>3
  <2>4. at[p.click] = pages[p.view] /\ p.view \in 1..Len(pages)
    BY <2>2, <2>3 DEF ViewRight
  <2>5. pages[p.view] \in Paths
    BY <2>4, ElementOfSeq DEF HeatmapsInv, BufferInv
  <2>6. p \in Post
    <3>1. views[i].clicks \in Seq(Clicks) /\ views[i].id \in Nat
      BY <2>3 DEF View
    <3>2. Range(views[i].clicks) \subseteq Clicks
      BY <3>1, RangeFacts
    <3> QED BY <2>2, <3>1, <3>2 DEF Post
  <2> QED BY <2>2, <2>4, <2>5, <2>6, ClicksInFacts DEF PostRight
<1>7. OneView(posts)
  <2> SUFFICES ASSUME NEW p \in posts, NEW q \in posts, p.click = q.click
               PROVE  p.view = q.view
    BY DEF OneView
  <2>1. PICK i \in DOMAIN views : p.click \in Range(views[i].clicks) /\ p.view = views[i].id
    BY <1>6
  <2>2. PICK j \in DOMAIN views : q.click \in Range(views[j].clicks) /\ q.view = views[j].id
    BY <1>6
  <2>3. i = j
    BY <1>2, <2>1, <2>2 DEF Distinct
  <2> QED BY <2>1, <2>2, <2>3
<1> HIDE DEF posts, chunks
<1>8. batches' = chunks
  BY DEF chunks, views
<1>9. /\ chunks \in Seq(Batch) /\ chunks # <<>>
      /\ 1 \in DOMAIN chunks /\ Head(chunks) = chunks[1]
      /\ \A i \in DOMAIN chunks : /\ chunks[i] \in Batch /\ BatchFits(chunks[i])
                                  /\ PostsOf(chunks[i]) \subseteq posts
  <2>1. chunks \in Seq(Batch) /\ chunks # <<>>
    BY <1>5 DEF Chunked
  <2>2. Len(chunks) \in Nat \ {0} /\ DOMAIN chunks = 1..Len(chunks)
    BY <2>1, EmptySeq, LenProperties
  <2> QED BY <1>5, <2>1, <2>2, ElementOfSeq, HeadTailProperties DEF Chunked
<1>10. \A i, j \in DOMAIN chunks : i # j =>
         \A p \in PostsOf(chunks[i]), q \in PostsOf(chunks[j]) : p.click # q.click
  BY <1>5 DEF Chunked
<1>11. \A p \in posts : /\ p.click \notin Held' /\ p.click \in Held
                        /\ PostRight(p)'
  <2>1. \A p \in posts : p.click \notin Range(pending) /\ p.click \in Held
    BY <1>1, <1>2, <1>6 DEF HeldOnce, Held
  <2>2. \A p \in posts : PostRight(p)'
    BY <1>6, ViewNumbers DEF PostRight, PagesGrow
  <2> QED BY <2>1, <2>2
<1>12. /\ posted \subseteq Post /\ OneView(posted)
       /\ \A p \in posted : PostRight(p) /\ p.click \notin Held
  BY DEF HeatmapsInv, SentInv, PostedRight
<1>13. posted' = posted \union PostsOf(chunks[1]) /\ PostsOf(chunks[1]) \subseteq posts
  BY <1>8, <1>9
<1>14. BatchesRight'
  <2> SUFFICES ASSUME NEW i \in DOMAIN chunks
               PROVE  /\ BatchFits(chunks[i]) /\ OneView(PostsOf(chunks[i]))
                      /\ \A p \in PostsOf(chunks[i]) : PostRight(p)'
                      /\ i # 1 => \A p \in PostsOf(chunks[i]) :
                           p.click \notin Held' /\ \A q \in posted' : q.click # p.click
                      /\ \A j \in DOMAIN chunks : i # j =>
                           \A p \in PostsOf(chunks[i]), q \in PostsOf(chunks[j]) :
                             p.click # q.click
    BY <1>8, BatchesRightNext
  <2>1. OneView(PostsOf(chunks[i]))
    BY <1>7, <1>9 DEF OneView
  <2>2. ASSUME i # 1, NEW p \in PostsOf(chunks[i]), NEW q \in posted'
        PROVE  q.click # p.click
    <3>1. CASE q \in posted
      BY <1>9, <1>11, <1>12, <3>1
    <3>2. CASE q \in PostsOf(chunks[1])
      BY <1>9, <1>10, <2>2, <3>2
    <3> QED BY <1>13, <3>1, <3>2
  <2> QED BY <1>9, <1>10, <1>11, <2>1, <2>2
<1>15. PostedRight'
  <2>1. OneView(posted')
    <3> SUFFICES ASSUME NEW p \in posted', NEW q \in posted', p.click = q.click
                 PROVE  p.view = q.view
      BY DEF OneView
    <3>1. CASE p \in posted /\ q \in posted
      BY <1>12, <3>1 DEF OneView
    <3>2. CASE p \in PostsOf(chunks[1]) /\ q \in PostsOf(chunks[1])
      BY <1>7, <1>13, <3>2 DEF OneView
    <3>3. CASE p \in posted /\ q \in PostsOf(chunks[1])
      BY <1>11, <1>12, <1>13, <3>3
    <3>4. CASE q \in posted /\ p \in PostsOf(chunks[1])
      BY <1>11, <1>12, <1>13, <3>4
    <3> QED BY <1>13, <3>1, <3>2, <3>3, <3>4
  <2>2. ASSUME NEW p \in posted' PROVE PostRight(p)' /\ p.click \notin Held'
    <3>1. CASE p \in posted
      <4>1. PostRight(p) /\ p.click \notin Held
        BY <1>12, <3>1
      <4>2. PostRight(p)'
        BY <4>1, ViewNumbers DEF PostRight, PagesGrow
      <4> QED BY <4>1, <4>2 DEF Held
    <3>2. CASE p \in PostsOf(chunks[1])
      BY <1>11, <1>13, <3>2
    <3> QED BY <1>13, <3>1, <3>2
  <2> QED BY <2>1, <2>2 DEF PostedRight, OneView
<1>16. posted' \subseteq Post
  BY <1>6, <1>12, <1>13
<1> QED BY <1>8, <1>9, <1>14, <1>15, <1>16 DEF SentInv

-----------------------------------------------------------------------------
(* A flush, and a snapshot.                                                *)

\* The next batch goes, or the rest of them is dropped.
LEMMA NextBatchKeeps ==
  ASSUME HeatmapsInv, PagesGrow, at' = at, Held' \subseteq Held,
         \/ batches' = <<>> /\ posted' = posted
         \/ /\ Len(batches) # 1 /\ batches # <<>>
            /\ batches' = Tail(batches)
            /\ posted' = posted \union PostsOf(batches[2])
  PROVE  SentInv'
<1>1. /\ batches \in Seq(Batch) /\ posted \subseteq Post
      /\ BatchesRight /\ PostedRight
  BY DEF HeatmapsInv, SentInv
<1>2. \A p : PostRight(p) => PostRight(p)'
  BY ViewNumbers DEF PostRight, PagesGrow
<1>3. CASE batches' = <<>> /\ posted' = posted
  <2>1. batches' \in Seq(Batch) /\ DOMAIN batches' = {}
    <3>1. <<>> \in Seq(Batch) /\ Len(<<>>) = 0
      BY EmptySeq
    <3>2. DOMAIN batches' = 1..0
      BY <1>3, <3>1, LenProperties
    <3> QED BY <1>3, <3>1, <3>2
  <2>2. BatchesRight'
    BY <2>1, BatchesRightNext
  <2>3. PostedRight'
    BY <1>1, <1>2, <1>3 DEF PostedRight, OneView
  <2> QED BY <1>1, <1>3, <2>1, <2>2, <2>3 DEF SentInv
<1>4. CASE ~(batches' = <<>> /\ posted' = posted)
  <2>1. /\ Len(batches) # 1 /\ batches # <<>>
        /\ batches' = Tail(batches)
        /\ posted' = posted \union PostsOf(batches[2])
    BY <1>4
  <2>2. /\ Len(batches) \in Nat /\ Len(batches) >= 2 /\ DOMAIN batches = 1..Len(batches)
        /\ 2 \in DOMAIN batches
    <3>1. Len(batches) \in Nat \ {0} /\ DOMAIN batches = 1..Len(batches)
      BY <1>1, <2>1, EmptySeq, LenProperties
    <3> QED BY <2>1, <3>1
  <2>3. /\ batches' \in Seq(Batch) /\ DOMAIN batches' = 1..Len(batches) - 1
        /\ \A i \in DOMAIN batches' : /\ batches'[i] = batches[i + 1]
                                      /\ i + 1 \in DOMAIN batches /\ i + 1 # 1
                                      /\ i # 1 => i + 1 # 2
    <3>1. /\ batches' \in Seq(Batch) /\ Len(batches') = Len(batches) - 1
          /\ \A i \in 1..Len(batches') : batches'[i] = batches[i + 1]
      BY <1>1, <2>1, HeadTailProperties
    <3>2. DOMAIN batches' = 1..Len(batches) - 1
      BY <3>1, LenProperties
    <3> QED BY <2>2, <3>1, <3>2
  <2>4. batches[2] \in Batch /\ PostsOf(batches[2]) \subseteq Post
    BY <1>1, <2>2, ElementOfSeq, BatchPosts
  <2>5. /\ OneView(PostsOf(batches[2]))
        /\ \A p \in PostsOf(batches[2]) :
             PostRight(p) /\ p.click \notin Held /\ \A q \in posted : q.click # p.click
    BY <1>1, <2>2 DEF BatchesRight
  <2>6. BatchesRight'
    <3> SUFFICES ASSUME NEW i \in DOMAIN batches'
                 PROVE  /\ BatchFits(batches'[i]) /\ OneView(PostsOf(batches'[i]))
                        /\ \A p \in PostsOf(batches'[i]) : PostRight(p)'
                        /\ i # 1 => \A p \in PostsOf(batches'[i]) :
                             p.click \notin Held' /\ \A q \in posted' : q.click # p.click
                        /\ \A j \in DOMAIN batches' : i # j =>
                             \A p \in PostsOf(batches'[i]), q \in PostsOf(batches'[j]) :
                               p.click # q.click
      BY BatchesRightNext
    <3>1. /\ BatchFits(batches'[i]) /\ OneView(PostsOf(batches'[i]))
          /\ \A p \in PostsOf(batches'[i]) :
               PostRight(p) /\ p.click \notin Held /\ \A q \in posted : q.click # p.click
      BY <1>1, <2>3 DEF BatchesRight
    <3>2. ASSUME i # 1, NEW p \in PostsOf(batches'[i]), NEW q \in PostsOf(batches[2])
          PROVE  q.click # p.click
      BY <1>1, <2>2, <2>3, <3>2 DEF BatchesRight
    <3>3. ASSUME NEW j \in DOMAIN batches', i # j,
                 NEW p \in PostsOf(batches'[i]), NEW q \in PostsOf(batches'[j])
          PROVE  p.click # q.click
      <4>1. /\ batches'[i] = batches[i + 1] /\ batches'[j] = batches[j + 1]
            /\ i + 1 \in DOMAIN batches /\ j + 1 \in DOMAIN batches /\ i + 1 # j + 1
        BY <2>2, <2>3, <3>3
      <4> QED BY <1>1, <3>3, <4>1 DEF BatchesRight
    <3> QED BY <1>2, <2>1, <3>1, <3>2, <3>3
  <2>7. PostedRight'
    <3>1. OneView(posted')
      <4> SUFFICES ASSUME NEW p \in posted', NEW q \in posted', p.click = q.click
                   PROVE  p.view = q.view
        BY DEF OneView
      <4>1. CASE p \in posted /\ q \in posted
        BY <1>1, <4>1 DEF PostedRight, OneView
      <4>2. CASE p \in PostsOf(batches[2]) /\ q \in PostsOf(batches[2])
        BY <2>5, <4>2 DEF OneView
      <4>3. CASE ~(p \in posted /\ q \in posted)
                 /\ ~(p \in PostsOf(batches[2]) /\ q \in PostsOf(batches[2]))
        BY <2>1, <2>5, <4>3
      <4> QED BY <4>1, <4>2, <4>3
    <3>2. \A p \in posted' : PostRight(p) /\ p.click \notin Held
      BY <1>1, <2>1, <2>5 DEF PostedRight
    <3>3. \A p \in posted' : PostRight(p)' /\ p.click \notin Held'
      BY <1>2, <3>2
    <3> QED BY <3>1, <3>3 DEF PostedRight, OneView
  <2> QED BY <1>1, <2>1, <2>3, <2>4, <2>6, <2>7 DEF SentInv
<1> QED BY <1>3, <1>4

LEMMA StartFlushKeeps ==
  ASSUME HeatmapsInv, StartFlush
  PROVE  HeatmapsInv'
<1> DEFINE limit == IF Head(chained) THEN KeepaliveSize ELSE Unlimited
<1>1. /\ waiting' = <<>>
      /\ UNCHANGED <<consenting, shown, pending, due, snapshots, at>>
      /\ \/ current' = <<>>
         \/ current' = [i \in DOMAIN current |-> IF IsSendable(current[i])
                                                 THEN Drained(current[i]) ELSE current[i]]
      /\ \/ batches' = batches /\ posted' = posted
         \/ /\ batches' = Chunk(waiting \o current, limit)
            /\ posted' = posted \union PostsOf(Head(batches'))
  BY DEF StartFlush
<1> HIDE DEF limit
<1>2. BufferInv' /\ PagesGrow /\ HeldShrinks /\ OpenMoves /\ Held' = Range(pending)
  BY <1>1, Drains DEF consenting
<1>3. SentInv'
  <2>1. CASE batches' = batches /\ posted' = posted
    BY <1>2, <2>1, SentKept
  <2>2. CASE /\ batches' = Chunk(waiting \o current, limit)
             /\ posted' = posted \union PostsOf(Head(batches'))
    BY <1>1, <1>2, <2>2, FlushSends
  <2> QED BY <1>1, <2>1, <2>2
<1>4. ShotsInv'
  BY <1>1, <1>2, ShotsKept DEF consenting, snapshots, HeatmapsInv, ShotsInv
<1> QED BY <1>2, <1>3, <1>4 DEF HeatmapsInv

\* The page scrolls: the open page view has something to send.
LEMMA ScrollKeeps ==
  ASSUME HeatmapsInv, Scroll
  PROVE  HeatmapsInv'
<1> DEFINE v == [current[1] EXCEPT !.dirty = TRUE]
<1>1. /\ current # <<>> /\ current' = <<v>>
      /\ UNCHANGED <<consenting, shown, pending, due, waiting, flushing, snapshots, at, posted>>
  BY DEF Scroll
<1>2. /\ DOMAIN current = {1} /\ current[1] \in View /\ CurrentId = current[1].id
      /\ CurrentId \in 1..Len(pages) /\ Once(current[1].clicks)
      /\ ClicksIn(current) = Range(current[1].clicks)
  BY <1>1, CurrentFacts
<1>3. v \in View /\ v.id = CurrentId /\ v.clicks = current[1].clicks
  BY <1>2 DEF View
<1> HIDE DEF v
<1>4. /\ current' \in Seq(View) /\ Len(current') = 1 /\ DOMAIN current' = {1}
      /\ current'[1] = v /\ current' # <<>>
  BY <1>1, <1>3
<1>5. CurrentId' = CurrentId
  BY <1>3, <1>4 DEF CurrentId
<1>6. ClicksIn(current') = ClicksIn(current) /\ Distinct(current')
  <2>1. \A c : c \in ClicksIn(current') <=> c \in Range(v.clicks)
    BY <1>4, ClicksInFacts
  <2> QED BY <1>2, <1>3, <1>4, <2>1 DEF Distinct
<1>7. HeldOnce /\ CurrentIsShown /\ BufferRight /\ pages \in Seq(Paths)
  BY DEF HeatmapsInv, BufferInv
<1>8. CurrentIsShown'
  BY <1>1, <1>5, <1>7 DEF CurrentIsShown, shown, consenting
<1>9. BufferRight'
  <2>1. \A i \in DOMAIN waiting' : ViewRight(waiting[i])'
    BY <1>1, <1>7 DEF BufferRight, ViewRight, shown
  <2>2. \A i \in DOMAIN current' : ViewRight(current[i])'
    BY <1>1, <1>2, <1>3, <1>4, <1>7 DEF BufferRight, ViewRight, shown
  <2>3. \A c \in Range(pending') :
          at'[c] # NoPath /\ (current' # <<>> => at'[c] = pages'[CurrentId'])
    BY <1>1, <1>5, <1>7 DEF BufferRight, shown
  <2> QED BY <2>1, <2>2, <2>3 DEF BufferRight
<1>10. HeldOnce'
  BY <1>1, <1>6, <1>7, HeldOnceNext DEF HeldOnce
<1>11. BufferInv'
  BY <1>1, <1>4, <1>8, <1>9, <1>10 DEF HeatmapsInv, BufferInv, shown, consenting
<1>12. PagesGrow /\ OpenMoves
  BY <1>1, <1>5, <1>7, LenProperties DEF PagesGrow, OpenMoves, shown
<1>13. HeldShrinks
  <2>1. Held' = Range(pending') \union ClicksIn(waiting') \union ClicksIn(current')
    BY DEF Held, ClicksIn
  <2> QED BY <1>1, <1>6, <2>1 DEF HeldShrinks, Held
<1>14. SentInv'
  BY <1>1, <1>12, <1>13, SentKept DEF flushing
<1>15. ShotsInv'
  BY <1>1, <1>12, ShotsKept DEF consenting, snapshots, HeatmapsInv, ShotsInv
<1> QED BY <1>11, <1>14, <1>15 DEF HeatmapsInv

\* Clicks become final at a tick, and when the page is hidden or closed.
LEMMA FinalizesSome ==
  ASSUME HeatmapsInv, NEW n \in 0..Len(pending),
         current' = Added(SubSeq(pending, 1, n)),
         pending' = SubSeq(pending, n + 1, Len(pending)), due' = 0,
         UNCHANGED <<shown, waiting, at, killed, consent, posted, batches, uploaded>>,
         shots' \subseteq shots
  PROVE  HeatmapsInv'
<1> DEFINE cs == SubSeq(pending, 1, n)
           rest == SubSeq(pending, n + 1, Len(pending))
<1>1. pending \in Seq(Clicks) /\ Once(pending)
  BY DEF HeatmapsInv, BufferInv, HeldOnce
<1>2. /\ cs \in Seq(Clicks) /\ rest \in Seq(Clicks) /\ Once(cs) /\ Once(rest)
      /\ Range(cs) \subseteq Range(pending) /\ Range(rest) \subseteq Range(pending)
      /\ Range(cs) \intersect Range(rest) = {}
  BY <1>1, PartsOnce
<1>3. current' = Added(cs) /\ pending' = rest
  OBVIOUS
<1> HIDE DEF cs, rest
<1>4. BufferInv' /\ PagesGrow /\ HeldShrinks /\ OpenMoves
  BY <1>2, <1>3, Finalizes
<1>5. SentInv'
  BY <1>4, SentKept
<1>6. ShotsInv'
  BY <1>4, ShotsKept DEF HeatmapsInv, ShotsInv
<1> QED BY <1>4, <1>5, <1>6 DEF HeatmapsInv

\* All of them.
LEMMA FinalizesAll ==
  ASSUME HeatmapsInv, current' = Added(pending), pending' = <<>>, due' = 0,
         UNCHANGED <<shown, waiting, at, killed, consent, posted, batches, uploaded>>,
         shots' \subseteq shots
  PROVE  HeatmapsInv'
<1>1. pending \in Seq(Clicks) /\ Once(pending)
  BY DEF HeatmapsInv, BufferInv, HeldOnce
<1>2. <<>> \in Seq(Clicks) /\ DOMAIN <<>> = {}
  BY EmptySeq, LenProperties
<1>3. Once(<<>>) /\ Range(<<>>) = {}
  BY <1>2 DEF Once, Range
<1>4. BufferInv' /\ PagesGrow /\ HeldShrinks /\ OpenMoves
  BY <1>1, <1>2, <1>3, Finalizes
<1>5. SentInv'
  BY <1>4, SentKept
<1>6. ShotsInv'
  BY <1>4, ShotsKept DEF HeatmapsInv, ShotsInv
<1> QED BY <1>4, <1>5, <1>6 DEF HeatmapsInv

\* A snapshot moves on: with consent, and of the page that is shown.
LEMMA ShotMoves ==
  ASSUME HeatmapsInv, NEW s \in shots, Settled(s) \/ Captured(s) \/ Upload(s)
  PROVE  HeatmapsInv'
<1>1. UNCHANGED <<consenting, shown, buffer, flushing, inFlight, at, posted>>
  BY DEF Settled, Captured, Upload
<1>2. BufferInv' /\ PagesGrow /\ HeldShrinks /\ OpenMoves /\ CurrentId' = CurrentId
  BY <1>1, BufferKept DEF consenting, buffer, HeatmapsInv, BufferInv
<1>3. SentInv'
  BY <1>1, <1>2, SentKept DEF flushing
<1>4. /\ s \in Shot /\ s.view \in 1..Len(pages)
      /\ s.step = "load" /\ ~s.withdrawn => consent
      /\ s.step = "gzip" /\ ~s.withdrawn /\ s.view = CurrentId => s.of = pages[s.view]
  BY DEF HeatmapsInv, ShotsInv, ShotsRight
<1>5. shots \subseteq Shot /\ uploaded \subseteq Shown /\ ShotsRight /\ UploadsRight
  BY DEF HeatmapsInv, ShotsInv
<1>6. pages' = pages /\ consent' = consent /\ path \in Paths
  BY <1>1 DEF shown, consenting, HeatmapsInv, BufferInv
<1>7. CASE Settled(s)
  <2> DEFINE t == [s EXCEPT !.step = "load"]
  <2>1. /\ t \in Shot /\ t.view = s.view /\ t.step = "load"
        /\ uploaded' = uploaded
        /\ \A x \in shots' : x \in shots \/ (x = t /\ consent)
    BY <1>4, <1>7 DEF Settled, Shot, active
  <2> HIDE DEF t
  <2>2. ShotsRight'
    BY <1>2, <1>4, <1>5, <1>6, <2>1 DEF ShotsRight
  <2>3. UploadsRight'
    BY <1>5, <1>6, <2>1 DEF UploadsRight
  <2> QED BY <1>2, <1>3, <1>5, <2>1, <2>2, <2>3 DEF HeatmapsInv, ShotsInv
<1>8. CASE Captured(s)
  <2> DEFINE t == [s EXCEPT !.step = "gzip", !.of = path]
  <2>1. /\ t \in Shot /\ t.view = s.view /\ t.step = "gzip" /\ t.of = path
        /\ t.withdrawn = s.withdrawn /\ s.step = "load" /\ uploaded' = uploaded
        /\ \A x \in shots' : x \in shots \/ x = t
    BY <1>4, <1>6, <1>8 DEF Captured, Shot
  <2> HIDE DEF t
  <2>2. ~t.withdrawn /\ t.view = CurrentId => t.of = pages[t.view]
    <3> SUFFICES ASSUME ~s.withdrawn, s.view = CurrentId PROVE pages[CurrentId] = path
      BY <2>1
    <3>1. consent
      BY <1>4, <2>1
    <3>2. current # <<>>
      BY <1>4, CurrentFacts
    <3> QED BY <3>1, <3>2 DEF HeatmapsInv, BufferInv, CurrentIsShown
  <2>3. ShotsRight'
    BY <1>2, <1>4, <1>5, <1>6, <2>1, <2>2 DEF ShotsRight
  <2>4. UploadsRight'
    BY <1>5, <1>6, <2>1 DEF UploadsRight
  <2> QED BY <1>2, <1>3, <1>5, <2>1, <2>3, <2>4 DEF HeatmapsInv, ShotsInv
<1>9. CASE Upload(s)
  <2> DEFINE u == [view |-> s.view, of |-> s.of, withdrawn |-> s.withdrawn]
  <2>1. /\ s.step = "gzip" /\ u \in Shown /\ shots' \subseteq shots
        /\ \A x \in uploaded' : x \in uploaded \/ (x = u /\ s.view = CurrentId)
    BY <1>4, <1>9 DEF Upload, Shown, Shot, IsCurrent
  <2>2. u.view = s.view /\ u.of = s.of /\ u.withdrawn = s.withdrawn /\ s.withdrawn \in BOOLEAN
    BY <1>4 DEF Shot
  <2> HIDE DEF u
  <2>3. ShotsRight'
    BY <1>2, <1>5, <1>6, <2>1 DEF ShotsRight
  <2>4. UploadsRight'
    BY <1>4, <1>5, <1>6, <2>1, <2>2 DEF UploadsRight
  <2> QED BY <1>2, <1>3, <1>5, <2>1, <2>3, <2>4 DEF HeatmapsInv, ShotsInv
<1> QED BY <1>7, <1>8, <1>9

-----------------------------------------------------------------------------
(* The invariant of the heatmap.                                           *)

LEMMA HeatmapsStart ==
  ASSUME HeatmapsInit
  PROVE  HeatmapsInv
<1> USE DEF HeatmapsInit
<1>1. /\ <<>> \in Seq(Clicks) /\ <<>> \in Seq(View) /\ <<>> \in Seq(Paths)
      /\ <<>> \in Seq(Batch) /\ Len(<<>>) = 0 /\ DOMAIN <<>> = {}
  BY EmptySeq, LenProperties
<1>2. ClicksIn(<<>>) = {} /\ Range(<<>>) = {} /\ Once(<<>>) /\ Distinct(<<>>)
  BY <1>1 DEF ClicksIn, Range, Once, Distinct
<1>3. HeldOnce
  BY <1>2 DEF HeldOnce
<1>4. CurrentIsShown /\ BufferRight
  BY <1>1, <1>2 DEF CurrentIsShown, BufferRight
<1>5. BufferInv
  <2>1. due \in 0..Len(pending) /\ Len(current) <= 1
    BY <1>1
  <2>2. at \in [Clicks -> Paths \union {NoPath}]
    OBVIOUS
  <2>3. waiting \in Seq(View) /\ current \in Seq(View)
    BY <1>1
  <2> QED BY <1>1, <1>3, <1>4, <2>1, <2>2, <2>3 DEF BufferInv
<1>6. SentInv
  BY <1>1 DEF SentInv, BatchesRight, PostedRight, OneView
<1>7. ShotsInv
  BY DEF ShotsInv, ShotsRight, UploadsRight
<1> QED BY <1>5, <1>6, <1>7 DEF HeatmapsInv

\* A page view may start: at a navigation, and where consent is given.
LEMMA NavigationKeeps ==
  ASSUME HeatmapsInv, (\E p \in Paths : Navigate(p)) \/ OptIn
  PROVE  HeatmapsInv'
<1>1. /\ path \in Paths /\ consent \in BOOLEAN
      /\ shots \subseteq Shot
  BY DEF HeatmapsInv, BufferInv, ShotsInv
<1>2. /\ UNCHANGED <<batches, shots, uploaded, at, posted, killed>>
      /\ consent' \in BOOLEAN /\ (consent => consent')
  BY <1>1 DEF Navigate, OptIn, consenting
<1>3. BufferInv' /\ PagesGrow /\ HeldShrinks /\ OpenMoves
  <2>1. CASE OptIn
    <3>1. AutoPageview(path, TRUE) /\ path' = path
      BY <2>1 DEF OptIn
    <3> QED BY <1>1, <1>2, <3>1, AutoPageviewKeeps
  <2>2. ASSUME NEW p \in Paths, Navigate(p)
        PROVE  BufferInv' /\ PagesGrow /\ HeldShrinks /\ OpenMoves
    <3>1. AutoPageview(p, consent) /\ path' = p /\ consent' = consent
      BY <2>2 DEF Navigate, consenting
    <3> QED BY <1>1, <1>2, <3>1, AutoPageviewKeeps
  <2> QED BY <2>1, <2>2
<1>4. SentInv'
  BY <1>2, <1>3, SentKept
<1>5. ShotsInv'
  BY <1>1, <1>2, <1>3, ShotsKept
<1> QED BY <1>3, <1>4, <1>5 DEF HeatmapsInv

\* Consent is withdrawn: so is what is under way.
LEMMA OptOutKeeps ==
  ASSUME HeatmapsInv, OptOut
  PROVE  HeatmapsInv'
<1>1. /\ consent' = FALSE /\ shots' = {[s EXCEPT !.withdrawn = TRUE] : s \in shots}
      /\ UNCHANGED <<killed, shown, pending, due, waiting, current, batches, uploaded, at, posted>>
  BY DEF OptOut, buffer, flushing
<1>2. shots \subseteq Shot /\ ShotsRight /\ due \in 0..Len(pending)
  BY DEF HeatmapsInv, BufferInv, ShotsInv
<1>3. BufferInv' /\ PagesGrow /\ HeldShrinks /\ OpenMoves
  BY <1>1, <1>2, BufferKept
<1>4. SentInv'
  BY <1>1, <1>3, SentKept
<1>5. ASSUME NEW t \in shots'
      PROVE  t \in Shot /\ t.view \in 1..Len(pages) /\ t.withdrawn
  <2>1. PICK s \in shots : t = [s EXCEPT !.withdrawn = TRUE]
    BY <1>1
  <2>2. s \in Shot /\ s.view \in 1..Len(pages)
    BY <1>2 DEF ShotsRight
  <2> QED BY <2>1, <2>2 DEF Shot
<1>6. shots' \subseteq Shot /\ uploaded' = uploaded
  BY <1>1, <1>5
<1>7. ShotsInv'
  BY <1>3, <1>5, <1>6, ShotsKept
<1> QED BY <1>3, <1>4, <1>7 DEF HeatmapsInv

\* Nothing is shown, held, sent or captured otherwise.
LEMMA NothingMoves ==
  ASSUME HeatmapsInv, due' \in 0..Len(pending),
         UNCHANGED <<consenting, shown, pending, current, waiting, batches, shots, uploaded, at,
                     posted>>
  PROVE  HeatmapsInv'
<1>1. consent \in BOOLEAN /\ shots \subseteq Shot
  BY DEF HeatmapsInv, BufferInv, ShotsInv
<1>2. BufferInv' /\ PagesGrow /\ HeldShrinks /\ OpenMoves
  BY <1>1, BufferKept DEF consenting
<1>3. SentInv'
  BY <1>2, SentKept
<1>4. ShotsInv'
  BY <1>1, <1>2, ShotsKept DEF consenting
<1> QED BY <1>2, <1>3, <1>4 DEF HeatmapsInv

\* An answer: the next batch goes, and a snapshot may be begun of the open page view.
LEMMA AnswerKeeps ==
  ASSUME HeatmapsInv, Lost \/ \E asks \in BOOLEAN : Accepted(asks)
  PROVE  HeatmapsInv'
<1>1. /\ UNCHANGED <<consenting, shown, buffer, chained, uploaded, at>>
      /\ batches # <<>> /\ NextBatch
  BY DEF Lost, Accepted, snapshots
<1>2. /\ consent \in BOOLEAN /\ due \in 0..Len(pending) /\ shots \subseteq Shot
      /\ Len(pages) \in Nat
  BY LenProperties DEF HeatmapsInv, BufferInv, ShotsInv
<1>3. BufferInv' /\ PagesGrow /\ HeldShrinks /\ OpenMoves /\ Held' = Held
  BY <1>1, <1>2, BufferKept DEF consenting, buffer
<1>4. SentInv'
  <2>1. \/ batches' = <<>> /\ posted' = posted
        \/ /\ Len(batches) # 1 /\ batches # <<>>
           /\ batches' = Tail(batches)
           /\ posted' = posted \union PostsOf(batches[2])
    BY <1>1 DEF NextBatch
  <2> QED BY <1>1, <1>3, <2>1, NextBatchKeeps
<1>5. ASSUME NEW t \in shots', t \notin shots
      PROVE  t \in Shot /\ t.view \in 1..Len(pages) /\ t.step = "settle"
  <2>1. /\ current # <<>>
        /\ t = [view |-> CurrentId, step |-> "settle", of |-> NoPath, withdrawn |-> FALSE]
    BY <1>5 DEF Lost, Accepted, snapshots
  <2>2. CurrentId \in 1..Len(pages)
    BY <2>1, CurrentFacts
  <2> QED BY <1>2, <2>1, <2>2 DEF Shot
<1>6. shots' \subseteq Shot
  BY <1>2, <1>5
<1>7. ShotsInv'
  BY <1>1, <1>3, <1>5, <1>6, ShotsKept DEF consenting
<1> QED BY <1>3, <1>4, <1>7 DEF HeatmapsInv

\* The recorder is disabled, by an answer or by another part of the client.
LEMMA DisableKeeps ==
  ASSUME HeatmapsInv, Refused \/ Disable
  PROVE  HeatmapsInv'
<1>1. /\ killed' = TRUE /\ pending' = <<>> /\ due' = 0 /\ current' = <<>> /\ waiting' = <<>>
      /\ shots' \subseteq shots
      /\ UNCHANGED <<consent, shown, uploaded, at, posted>>
      /\ batches' = <<>> \/ batches' = batches
  BY DEF Refused, Disable, Disabled, flushing
<1>2. BufferInv' /\ PagesGrow /\ HeldShrinks /\ OpenMoves
  BY <1>1, Emptied
<1>3. Held' \subseteq Held
  <2>1. DOMAIN <<>> = {}
    BY EmptySeq, LenProperties
  <2>2. Held' = {}
    BY <1>1, <2>1 DEF Held, ClicksIn, Range
  <2> QED BY <2>2
<1>4. SentInv'
  <2>1. CASE batches' = <<>>
    BY <1>1, <1>2, <1>3, <2>1, NextBatchKeeps
  <2>2. CASE batches' = batches
    BY <1>1, <1>2, <2>2, SentKept
  <2> QED BY <1>1, <2>1, <2>2
<1>5. ShotsInv'
  BY <1>1, <1>2, ShotsKept DEF HeatmapsInv, ShotsInv
<1> QED BY <1>2, <1>4, <1>5 DEF HeatmapsInv

LEMMA HeatmapsStep ==
  ASSUME HeatmapsInv, [HeatmapsNext]_heatmapsVars
  PROVE  HeatmapsInv'
<1> USE DEF consenting, shown, buffer, flushing, snapshots
<1>1. /\ due \in 0..Len(pending) /\ Len(pending) \in Nat
      /\ Len(pending) \in 0..Len(pending)
  BY LenProperties DEF HeatmapsInv, BufferInv
<1>2. CASE (\E p \in Paths : Navigate(p)) \/ OptIn
  BY <1>2, NavigationKeeps
<1>3. CASE OptOut
  BY <1>3, OptOutKeeps
<1>4. CASE \E c \in Clicks : Click(c)
  BY <1>4, ClickKeeps
<1>5. CASE Scroll
  BY <1>5, ScrollKeeps
<1>6. CASE ClickAges
  <2>1. due' \in 0..Len(pending)
    BY <1>1, <1>6 DEF ClickAges
  <2> QED BY <1>6, <2>1, NothingMoves DEF ClickAges
<1>7. CASE Tick
  BY <1>1, <1>7, FinalizesSome DEF Tick
<1>8. CASE TickFlushes
  BY <1>1, <1>8, FinalizesSome DEF TickFlushes
<1>9. CASE Hide
  BY <1>9, FinalizesAll DEF Hide, FlushOnHide
<1>10. CASE Close
  BY <1>10, FinalizesAll DEF Close, FlushOnHide
<1>11. CASE \E keepalive \in BOOLEAN : Flush(keepalive)
  BY <1>1, <1>11, NothingMoves DEF Flush
<1>12. CASE StartFlush
  BY <1>12, StartFlushKeeps
<1>13. CASE Lost \/ \E asks \in BOOLEAN : Accepted(asks)
  BY <1>13, AnswerKeeps
<1>14. CASE Refused \/ Disable
  BY <1>14, DisableKeeps
<1>15. CASE \E s \in shots : Settled(s) \/ Captured(s) \/ Upload(s)
  BY <1>15, ShotMoves
<1>16. CASE UNCHANGED heatmapsVars
  BY <1>1, <1>16, NothingMoves DEF heatmapsVars
<1> QED
  BY <1>2, <1>3, <1>4, <1>5, <1>6, <1>7, <1>8, <1>9, <1>10, <1>11, <1>12, <1>13, <1>14,
     <1>15, <1>16 DEF HeatmapsNext

\* Of every set of paths and clicks and all limits: what is shown, held, sent and captured
\* stays as HeatmapsInv says, whatever navigations, consent, answers and flushes do between
\* the steps of one another.
THEOREM HeatmapsInductive == HeatmapsSpec => []HeatmapsInv
<1>1. HeatmapsInit => HeatmapsInv
  BY HeatmapsStart
<1>2. HeatmapsInv /\ [HeatmapsNext]_heatmapsVars => HeatmapsInv'
  BY HeatmapsStep
<1> QED BY <1>1, <1>2, PTL DEF HeatmapsSpec

\* A click that was posted is neither held nor in a batch to come, it goes to one page
\* view, and every batch keeps the server's limits: drain (heatmap_buffer.ts),
\* chunkHeatmapPageViews (transport/heatmaps.ts) and the loop of flushOnce
\* (heatmap_recorder.ts).
THEOREM EachClickSentOnce == HeatmapsSpec => []SentOnceEach
<1>1. HeatmapsInv => SentOnceEach
  <2> SUFFICES ASSUME HeatmapsInv PROVE SentOnceEach
    OBVIOUS
  <2>1. batches \in Seq(Batch) /\ BatchesRight /\ PostedRight
    BY DEF HeatmapsInv, SentInv
  <2>2. /\ Len(batches) \in Nat /\ DOMAIN batches = 1..Len(batches)
        /\ \A i \in DOMAIN batches : batches[i] \in Batch
    BY <2>1, LenProperties, ElementOfSeq
  <2>3. ASSUME NEW p \in posted
        PROVE  p.click \notin Held /\ \A q \in posted : q.click = p.click => q.view = p.view
    BY <2>1 DEF PostedRight, OneView
  <2>4. ASSUME NEW p \in posted, NEW i \in 2..Len(batches)
        PROVE  p.click \notin ClicksIn(batches[i])
    <3>1. i \in DOMAIN batches /\ i # 1
      BY <2>2
    <3>2. \A q \in PostsOf(batches[i]) : p.click # q.click
      BY <2>1, <3>1 DEF BatchesRight
    <3> QED BY <2>2, <3>1, <3>2, BatchPosts
  <2>5. ASSUME NEW i \in DOMAIN batches
        PROVE  Len(batches[i]) <= BatchViews /\ ClicksOf(batches[i]) <= BatchClicks
    BY <2>1 DEF BatchesRight, BatchFits
  <2> QED BY <2>3, <2>4, <2>5 DEF SentOnceEach
<1> QED BY <1>1, HeatmapsInductive, PTL

\* Every click that was posted is under a page view of the page it was made on
\* (startPageView of heatmap_recorder.ts, captureAutoPageview of client.ts).
THEOREM ClicksStayOnTheirPage == HeatmapsSpec => []ClicksOnTheirPage
<1>1. HeatmapsInv => ClicksOnTheirPage
  BY DEF HeatmapsInv, SentInv, PostedRight, PostRight, ClicksOnTheirPage
<1> QED BY <1>1, HeatmapsInductive, PTL

\* Every snapshot that was uploaded shows the page of its page view, or consent was
\* withdrawn while it was under way (scheduleSnapshot of heatmap_recorder.ts).
THEOREM SnapshotsShowTheirPage == HeatmapsSpec => []SnapshotShowsItsPage
<1>1. HeatmapsInv => SnapshotShowsItsPage
  BY DEF HeatmapsInv, ShotsInv, UploadsRight, SnapshotShowsItsPage
<1> QED BY <1>1, HeatmapsInductive, PTL

\* A recorder that is disabled or without consent posts nothing: active(), before each
\* batch of flushOnce.
THEOREM QuietWhenInactive == HeatmapsSpec => QuietWithoutConsent
<1>1. [HeatmapsNext]_heatmapsVars => [~active => posted' = posted]_heatmapsVars
  <2> SUFFICES ASSUME HeatmapsNext, ~active PROVE posted' = posted
    OBVIOUS
  <2>1. CASE StartFlush
    BY <2>1 DEF StartFlush
  <2>2. CASE Lost \/ \E asks \in BOOLEAN : Accepted(asks)
    BY <2>2 DEF Lost, Accepted, NextBatch
  <2>3. CASE \E s \in shots : Settled(s) \/ Captured(s) \/ Upload(s)
    BY <2>3 DEF Settled, Captured, Upload
  <2>4. CASE \/ \E p \in Paths : Navigate(p)
             \/ OptIn \/ OptOut \/ \E c \in Clicks : Click(c)
             \/ Scroll \/ ClickAges \/ Tick \/ TickFlushes \/ Hide \/ Close
             \/ \E keepalive \in BOOLEAN : Flush(keepalive)
             \/ Refused \/ Disable
    BY <2>4 DEF Navigate, OptIn, OptOut, Click, Scroll, ClickAges, Tick, TickFlushes, Hide,
                Close, Flush, Refused, Disable, flushing
  <2> QED BY <2>1, <2>2, <2>3, <2>4 DEF HeatmapsNext
<1> QED BY <1>1, PTL DEF HeatmapsSpec, QuietWithoutConsent

=============================================================================
