-------------------------- MODULE NodeClientProofs --------------------------
(***************************************************************************)
(* Theorems about NodeClient, for any number of records of a process.      *)
(* The inductive invariant adds to the properties what makes them so: a    *)
(* process that has not started has nothing, and one that is quiet has its *)
(* events off, no tracer, and consent to analytics only from the site.     *)
(***************************************************************************)
EXTENDS NodeClient, TLAPS

NothingYet ==
  phase = "new" => /\ spans = "none" /\ analytics = "off"
                   /\ pending = {} /\ inflight = {}
                   /\ ~ingestOff /\ ~patched /\ ~fetching /\ ~quiet /\ ~dead

TakesNothing == quiet => ingestOff /\ (analytics = "on" => optedIn)

Inv == /\ TypeOK /\ NothingYet /\ TakesNothing
       /\ QuietKeyIsSilent /\ DeadKeyStaysDead /\ OffIsEmpty

-----------------------------------------------------------------------------
(* Types. *)

LEMMA NoDocumentIsOne == NoDocument \in Documents
BY DEF NoDocument, Documents

\* SwitchedOff leaves its variables in their types.
LEMMA SwitchedOffTypes ==
  ASSUME TypeOK, NEW off, SwitchedOff(off)
  PROVE  /\ ingestOff' \in BOOLEAN
         /\ spans' \in {"none", "on", "off"} /\ (spans' = "none" <=> spans = "none")
         /\ analytics' \in {"off", "on", "killed"}
         /\ pending' \subseteq Signals
<1>1. ingestOff' \in BOOLEAN
  BY DEF SwitchedOff
<1>2. /\ spans' \in {"none", "on", "off"} /\ (spans' = "none" <=> spans = "none")
      /\ analytics' \in {"off", "on", "killed"}
  BY DEF SwitchedOff, TypeOK
<1>3. pending' \subseteq Signals
  BY DEF SwitchedOff, TypeOK
<1> QED
  BY <1>1, <1>2, <1>3

\* So does Applied.
LEMMA AppliedTypes ==
  ASSUME TypeOK, NEW doc \in Documents, NEW listens \in BOOLEAN, Applied(doc, listens)
  PROVE  /\ ingestOff' \in BOOLEAN /\ late' \in BOOLEAN /\ patched' \in BOOLEAN
         /\ spans' \in {"none", "on", "off"} /\ (spans # "none" => spans' # "none")
         /\ analytics' \in {"off", "on", "killed"}
         /\ pending' \subseteq Signals
         /\ patched' => patched \/ (listens /\ spans' # "none" /\ ingestOff' = ingestOff)
<1>1. CASE doc.active
  <2>1. ingestOff' \in BOOLEAN /\ late' \in BOOLEAN /\ patched' \in BOOLEAN
    BY <1>1 DEF Applied, TypeOK
  <2>2. /\ spans' \in {"none", "on", "off"} /\ (spans # "none" => spans' # "none")
        /\ analytics' \in {"off", "on", "killed"}
    BY <1>1 DEF Applied, TypeOK, OptedIn
  <2>3. pending' \subseteq Signals
    BY <1>1 DEF Applied, TypeOK
  <2>4. patched' => patched \/ (listens /\ spans' # "none" /\ ingestOff' = ingestOff)
    BY <1>1 DEF Applied
  <2> QED
    BY <2>1, <2>2, <2>3, <2>4
<1>2. CASE ~doc.active
  <2>1. SwitchedOff(Signals) /\ late' = late /\ patched' = patched
    BY <1>2 DEF Applied
  <2> QED
    BY <2>1, SwitchedOffTypes DEF TypeOK
<1> QED
  BY <1>1, <1>2

\* The type invariant is inductive, with what a process has that has not started.
LEMMA TypeStep ==
  ASSUME TypeOK, NothingYet, [Next]_vars
  PROVE  TypeOK'
<1> USE DEF switches, patches, traffic, history
<1>1. ASSUME NEW b \in BOOLEAN, Start(b)
      PROVE  TypeOK'
  <2>1. CASE b
    <3>1. CASE cache \in {"fresh", "stale"}
      <4>1. Applied(document, TRUE)
        BY <1>1, <2>1, <3>1 DEF Start, Bootstrap
      <4>2. document \in Documents /\ TRUE \in BOOLEAN
        BY DEF TypeOK
      <4> HIDE DEF Applied
      <4> QED
        BY <1>1, <2>1, <4>1, <4>2, AppliedTypes DEF Start, Bootstrap, TypeOK, NothingYet
    <3>2. CASE cache \notin {"fresh", "stale"}
      <4>1. PICK off : SwitchedOff(off) /\ late' = late /\ patched' = patched
        BY <1>1, <2>1, <3>2 DEF Start, Bootstrap
      <4> QED
        BY <1>1, <2>1, <4>1, SwitchedOffTypes DEF Start, Bootstrap, TypeOK, NothingYet
    <3> QED
      BY <3>1, <3>2
  <2>2. CASE ~b
    BY <1>1, <2>2 DEF Start, TypeOK, NothingYet
  <2> QED
    BY <2>1, <2>2
<1>2. ASSUME NEW b \in BOOLEAN, Teardown(b)
      PROVE  TypeOK'
  <2>1. passes' \in 0 .. MaxPasses /\ awaited' \subseteq Signals
    BY <1>2, NodeClientAssumption DEF Teardown, WaitsFor, NodeClientAssumption, Signals
  <2>2. pending' \subseteq Signals /\ handlers' \in BOOLEAN /\ patched' = FALSE
    BY <1>2 DEF Teardown, TypeOK, Signals
  <2>3. phase' = "shutting"
    BY <1>2 DEF Teardown
  <2>4. UNCHANGED <<cache, document, fetching, switches, listening, inflight, records,
                    history>>
    BY <1>2 DEF Teardown
  <2>5. /\ cache' = cache /\ document' = document /\ fetching' = fetching
        /\ ingestOff' = ingestOff /\ spans' = spans /\ analytics' = analytics
        /\ listening' = listening /\ inflight' = inflight /\ records' = records
        /\ quiet' = quiet /\ optedIn' = optedIn /\ dead' = dead /\ late' = late
    BY <2>4 DEF switches, history
  <2>6. (patched' => listening' /\ spans' # "none")
        /\ (awaited' # {} => phase' \in {"closing", "shutting"})
    BY <2>2, <2>3
  <2>7. phase' \in {"new", "running", "closing", "shutting", "closed"}
        /\ patched' \in BOOLEAN
    BY <2>2, <2>3
  <2> QED
    BY <2>1, <2>2, <2>5, <2>6, <2>7 DEF TypeOK
<1>3. ASSUME NEW doc \in Documents, FetchAnswers(doc)
      PROVE  TypeOK'
  <2>1. CASE Applied(doc, listening)
    <3>1. listening \in BOOLEAN
      BY DEF TypeOK
    <3> QED
      BY <1>3, <2>1, <3>1, AppliedTypes DEF FetchAnswers, Waits, TypeOK
  <2>2. CASE UNCHANGED <<switches, pending, patched, late>>
    BY <1>3, <2>2, ZenonT(60) DEF FetchAnswers, Waits, TypeOK
  <2> QED
    BY <1>3, <2>1, <2>2 DEF FetchAnswers
<1>4. CASE FetchRefused
  <2>1. SwitchedOff({"events"})
    BY <1>4 DEF FetchRefused
  <2> QED
    BY <1>4, <2>1, SwitchedOffTypes, NoDocumentIsOne DEF FetchRefused, Waits, TypeOK
<1>5. CASE FetchFails
  <2>1. fetching' \in BOOLEAN
    BY <1>5 DEF FetchFails
  <2> QED
    BY <1>5, <2>1 DEF FetchFails, TypeOK
<1>6. CASE CacheAges
  <2>1. cache' \in {"none", "quiet", "expired", "fresh", "stale"}
    BY <1>6 DEF CacheAges
  <2> QED
    BY <1>6, <2>1 DEF CacheAges, TypeOK
<1>7. ASSUME NEW s \in Signals, Record(s)
      PROVE  TypeOK'
  BY <1>7, NodeClientAssumption DEF Record, TypeOK
<1>8. ASSUME NEW s \in Signals, Post(s)
      PROVE  TypeOK'
  <2>1. passes' \in 0 .. MaxPasses
    BY <1>8, NodeClientAssumption DEF Post, TypeOK, NodeClientAssumption
  <2> QED
    BY <1>8, <2>1 DEF Post, TypeOK
<1>9. ASSUME NEW s \in Signals, Accepted(s)
      PROVE  TypeOK'
  BY <1>9 DEF Accepted, WaitsAfter, TypeOK
<1>10. ASSUME NEW s \in Signals, NEW cause \in Causes, Refused(s, cause)
       PROVE  TypeOK'
  <2>1. dead' \in BOOLEAN /\ inflight' \subseteq Signals
    BY <1>10 DEF Refused, TypeOK
  <2>2. CASE TakenBack
    <3>1. pending' \subseteq Signals /\ spans' = spans
      BY <2>2 DEF TakenBack, TypeOK, Signals
    <3>2. UNCHANGED <<ingestOff, analytics>>
      BY <2>2 DEF TakenBack
    <3> QED
      BY <1>10, <2>1, <3>1, <3>2 DEF Refused, WaitsAfter, TypeOK
  <2>3. CASE SwitchedOff(Stops(s, cause))
    BY <1>10, <2>1, <2>3, SwitchedOffTypes DEF Refused, WaitsAfter, TypeOK
  <2> QED
    BY <1>10, <2>2, <2>3 DEF Refused
<1>11. CASE Close
  <2>1. passes' \in 0 .. MaxPasses /\ awaited' \subseteq Signals
    BY <1>11, NodeClientAssumption DEF Close, WaitsFor, NodeClientAssumption
  <2> QED
    BY <1>11, <2>1 DEF Close, TypeOK
<1>12. CASE Crash
  <2>1. document' \in Documents /\ cache' \in {"none", "quiet", "expired", "fresh", "stale"}
    BY <1>12 DEF Crash, TypeOK
  <2>2. records' \in 0 .. MaxRecords
    BY <1>12, NodeClientAssumption DEF Crash, NodeClientAssumption
  <2>7. passes' \in 0 .. MaxPasses
    BY <1>12, NodeClientAssumption DEF Crash, NodeClientAssumption
  <2>3. fetching' \in BOOLEAN /\ ingestOff' \in BOOLEAN
    BY <1>12 DEF Crash
  <2>4. listening' \in BOOLEAN /\ patched' \in BOOLEAN /\ handlers' \in BOOLEAN
    BY <1>12 DEF Crash
  <2>5. /\ quiet' \in BOOLEAN /\ dead' \in BOOLEAN /\ late' \in BOOLEAN
        /\ optedIn' \in BOOLEAN
    BY <1>12 DEF Crash
  <2>6. /\ pending' \subseteq Signals /\ inflight' \subseteq Signals
        /\ awaited' \subseteq Signals
        /\ (patched' => listening' /\ spans' # "none")
        /\ (awaited' # {} => phase' \in {"closing", "shutting"})
        /\ phase' \in {"new", "running", "closing", "shutting", "closed"}
        /\ spans' \in {"none", "on", "off"} /\ analytics' \in {"off", "on", "killed"}
    BY <1>12 DEF Crash
  <2> QED
    BY <2>1, <2>2, <2>3, <2>4, <2>5, <2>6, <2>7 DEF TypeOK
<1>13. CASE SiteOptsIn
  <2>1. optedIn' \in BOOLEAN /\ analytics' \in {"off", "on", "killed"}
    BY <1>13 DEF SiteOptsIn, OptedIn, TypeOK
  <2> QED
    BY <1>13, <2>1 DEF SiteOptsIn, TypeOK
<1>14. CASE SiteOptsOut
  BY <1>14 DEF SiteOptsOut, Waits, TypeOK
<1>15. CASE Closed
  BY <1>15 DEF Closed, TypeOK
<1>16. CASE UNCHANGED vars
  BY <1>16 DEF vars, TypeOK
<1> QED
  BY <1>1, <1>2, <1>3, <1>4, <1>5, <1>6, <1>7, <1>8, <1>9, <1>10, <1>11, <1>12, <1>13,
     <1>14, <1>15, <1>16
  DEF Next

-----------------------------------------------------------------------------
(* The properties. *)

LEMMA InvInit == Init => Inv
<1> SUFFICES ASSUME Init PROVE Inv
  OBVIOUS
<1>1. records \in 0 .. MaxRecords /\ passes \in 0 .. MaxPasses
  BY NodeClientAssumption DEF Init, NodeClientAssumption
<1>2. /\ fetching \in BOOLEAN /\ ingestOff \in BOOLEAN
      /\ listening \in BOOLEAN /\ patched \in BOOLEAN /\ handlers \in BOOLEAN
      /\ quiet \in BOOLEAN /\ optedIn \in BOOLEAN /\ dead \in BOOLEAN /\ late \in BOOLEAN
  BY DEF Init
<1>3. TypeOK
  BY <1>1, <1>2, NoDocumentIsOne DEF Init, TypeOK
<1>4. NothingYet /\ TakesNothing /\ QuietKeyIsSilent /\ DeadKeyStaysDead /\ OffIsEmpty
  BY DEF Init, NothingYet, TakesNothing, QuietKeyIsSilent, DeadKeyStaysDead, OffIsEmpty
<1> QED
  BY <1>3, <1>4 DEF Inv

\* A process that has not started, and one that is quiet, gets nothing.
LEMMA QuietStep ==
  ASSUME TypeOK, NothingYet, TakesNothing, QuietKeyIsSilent, OffIsEmpty, [Next]_vars
  PROVE  NothingYet' /\ TakesNothing' /\ QuietKeyIsSilent'
<1> USE DEF switches, patches, traffic, history, NothingYet, TakesNothing, QuietKeyIsSilent
<1>1. ASSUME NEW b \in BOOLEAN, Start(b)
      PROVE  NothingYet' /\ TakesNothing' /\ QuietKeyIsSilent'
  <2>1. phase = "new" /\ phase' = "running" /\ inflight' = inflight
    BY <1>1 DEF Start
  <2>2. CASE b /\ cache = "quiet"
    BY <1>1, <2>1, <2>2 DEF Start, Bootstrap, SwitchedOff
  <2>3. CASE ~(b /\ cache = "quiet")
    BY <1>1, <2>1, <2>3 DEF Start, Bootstrap
  <2> QED
    BY <2>2, <2>3
<1>2. ASSUME NEW b \in BOOLEAN, Teardown(b)
      PROVE  NothingYet' /\ TakesNothing' /\ QuietKeyIsSilent'
  BY <1>2 DEF Teardown
<1>3. ASSUME NEW doc \in Documents, FetchAnswers(doc)
      PROVE  NothingYet' /\ TakesNothing' /\ QuietKeyIsSilent'
  BY <1>3 DEF FetchAnswers
<1>4. CASE FetchRefused
  BY <1>4 DEF FetchRefused
<1>5. CASE FetchFails
  BY <1>5 DEF FetchFails
<1>6. CASE CacheAges
  BY <1>6 DEF CacheAges
<1>7. ASSUME NEW s \in Signals, Record(s)
      PROVE  NothingYet' /\ TakesNothing' /\ QuietKeyIsSilent'
  <2>1. s \in Takes
    BY <1>7 DEF Record
  <2>2. phase # "new"
    BY <2>1 DEF Takes
  <2> QED
    BY <1>7, <2>2 DEF Record
<1>8. ASSUME NEW s \in Signals, Post(s)
      PROVE  NothingYet' /\ TakesNothing' /\ QuietKeyIsSilent'
  <2>1. s \in Takes /\ s \in pending
    BY <1>8 DEF Post
  <2>2. phase # "new" /\ (quiet => s = "analytics" /\ optedIn)
    BY <2>1 DEF Takes
  <2> QED
    BY <1>8, <2>2 DEF Post
<1>9. ASSUME NEW s \in Signals, Accepted(s)
      PROVE  NothingYet' /\ TakesNothing' /\ QuietKeyIsSilent'
  BY <1>9 DEF Accepted
<1>10. ASSUME NEW s \in Signals, NEW cause \in Causes, Refused(s, cause)
       PROVE  NothingYet' /\ TakesNothing' /\ QuietKeyIsSilent'
  <2>1. phase # "new" /\ phase' # "new"
    BY <1>10 DEF Refused
  <2>2. CASE TakenBack
    BY <1>10, <2>1, <2>2 DEF Refused, TakenBack
  <2>3. CASE SwitchedOff(Stops(s, cause))
    BY <1>10, <2>1, <2>3 DEF Refused, SwitchedOff
  <2> QED
    BY <1>10, <2>2, <2>3 DEF Refused
<1>11. CASE Close
  BY <1>11 DEF Close
<1>12. CASE Crash
  BY <1>12 DEF Crash
<1>13. CASE SiteOptsIn
  BY <1>13 DEF SiteOptsIn
<1>14. CASE SiteOptsOut
  BY <1>14 DEF SiteOptsOut
<1>15. CASE Closed
  BY <1>15 DEF Closed
<1>16. CASE UNCHANGED vars
  BY <1>16 DEF vars
<1> QED
  BY <1>1, <1>2, <1>3, <1>4, <1>5, <1>6, <1>7, <1>8, <1>9, <1>10, <1>11, <1>12, <1>13,
     <1>14, <1>15, <1>16
  DEF Next

\* What a document does to a key that was refused.
LEMMA AppliedToDead ==
  ASSUME DeadKeyStaysDead, NEW doc, NEW listens, Applied(doc, listens), dead' = dead
  PROVE  DeadKeyStaysDead'
<1>1. CASE doc.active
  BY <1>1 DEF Applied, OptedIn, DeadKeyStaysDead
<1>2. CASE ~doc.active
  BY <1>2 DEF Applied, SwitchedOff, Signals, DeadKeyStaysDead
<1> QED
  BY <1>1, <1>2

LEMMA DeadStep ==
  ASSUME TypeOK, NothingYet, DeadKeyStaysDead, [Next]_vars
  PROVE  DeadKeyStaysDead'
<1> USE DEF switches, patches, traffic, history
<1>1. ASSUME NEW b \in BOOLEAN, Start(b)
      PROVE  DeadKeyStaysDead'
  BY <1>1 DEF Start, NothingYet, DeadKeyStaysDead
<1>2. ASSUME NEW b \in BOOLEAN, Teardown(b)
      PROVE  DeadKeyStaysDead'
  BY <1>2 DEF Teardown, DeadKeyStaysDead
<1>3. ASSUME NEW doc \in Documents, FetchAnswers(doc)
      PROVE  DeadKeyStaysDead'
  <2>1. dead' = dead
    BY <1>3 DEF FetchAnswers
  <2>2. CASE Applied(doc, listening)
    BY <2>1, <2>2, AppliedToDead
  <2>3. CASE UNCHANGED <<switches, pending, patched, late>>
    BY <2>1, <2>3 DEF DeadKeyStaysDead
  <2> QED
    BY <1>3, <2>2, <2>3 DEF FetchAnswers
<1>4. CASE FetchRefused
  BY <1>4 DEF FetchRefused, SwitchedOff, DeadKeyStaysDead
<1>5. CASE FetchFails
  BY <1>5 DEF FetchFails, DeadKeyStaysDead
<1>6. CASE CacheAges
  BY <1>6 DEF CacheAges, DeadKeyStaysDead
<1>7. ASSUME NEW s \in Signals, Record(s)
      PROVE  DeadKeyStaysDead'
  BY <1>7 DEF Record, DeadKeyStaysDead
<1>8. ASSUME NEW s \in Signals, Post(s)
      PROVE  DeadKeyStaysDead'
  BY <1>8 DEF Post, DeadKeyStaysDead
<1>9. ASSUME NEW s \in Signals, Accepted(s)
      PROVE  DeadKeyStaysDead'
  BY <1>9 DEF Accepted, DeadKeyStaysDead
<1>10. ASSUME NEW s \in Signals, NEW cause \in Causes, Refused(s, cause)
       PROVE  DeadKeyStaysDead'
  <2>1. dead' = (dead \/ cause = "dead_key") /\ late' = late
    BY <1>10 DEF Refused
  <2>2. CASE cause = "dead_key"
    <3>1. Signals \subseteq Stops(s, cause)
      BY <2>2 DEF Stops
    <3>2. SwitchedOff(Stops(s, cause))
      BY <1>10, <2>2 DEF Refused
    <3>3. ingestOff' /\ analytics' = "killed" /\ spans' # "on"
      BY <3>1, <3>2 DEF SwitchedOff, Signals
    <3> QED
      BY <3>3 DEF DeadKeyStaysDead
  <2>3. CASE cause # "dead_key"
    <3>1. CASE TakenBack
      BY <2>1, <2>3, <3>1 DEF TakenBack, DeadKeyStaysDead
    <3>2. CASE SwitchedOff(Stops(s, cause))
      BY <2>1, <2>3, <3>2 DEF SwitchedOff, DeadKeyStaysDead
    <3> QED
      BY <1>10, <3>1, <3>2 DEF Refused
  <2> QED
    BY <2>2, <2>3
<1>11. CASE Close
  BY <1>11 DEF Close, DeadKeyStaysDead
<1>12. CASE Crash
  BY <1>12 DEF Crash, DeadKeyStaysDead
<1>13. CASE SiteOptsIn
  BY <1>13 DEF SiteOptsIn, OptedIn, DeadKeyStaysDead
<1>14. CASE SiteOptsOut
  BY <1>14 DEF SiteOptsOut, DeadKeyStaysDead
<1>15. CASE Closed
  BY <1>15 DEF Closed, DeadKeyStaysDead
<1>16. CASE UNCHANGED vars
  BY <1>16 DEF vars, DeadKeyStaysDead
<1> QED
  BY <1>1, <1>2, <1>3, <1>4, <1>5, <1>6, <1>7, <1>8, <1>9, <1>10, <1>11, <1>12, <1>13,
     <1>14, <1>15, <1>16
  DEF Next

\* A signal that a switch turns off loses what it has.
LEMMA SwitchedOffEmpty ==
  ASSUME OffIsEmpty, TypeOK, NEW off, SwitchedOff(off), phase' = phase
  PROVE  OffIsEmpty'
BY DEF SwitchedOff, OffIsEmpty, Takes, TypeOK, Signals

LEMMA AppliedEmpty ==
  ASSUME OffIsEmpty, TypeOK, NEW doc, NEW listens, Applied(doc, listens), phase' = phase
  PROVE  OffIsEmpty'
<1>1. CASE doc.active
  <2>1. pending' \subseteq pending /\ pending \subseteq Signals
    BY <1>1 DEF Applied, TypeOK
  <2>2. "events" \in pending' => phase' # "new" /\ ~ingestOff'
    BY <1>1, <2>1 DEF Applied, OffIsEmpty, Takes
  <2>3. "spans" \in pending' => spans' = "on"
    <3>1. "spans" \in pending' => doc.tracing /\ spans = "on"
      BY <1>1, <2>1 DEF Applied, OffIsEmpty, Takes
    <3>2. doc.tracing /\ spans = "on" => spans' = "on"
      BY <1>1 DEF Applied
    <3> QED
      BY <3>1, <3>2
  <2>4. "analytics" \in pending' => analytics' = "on"
    <3>1. "analytics" \in pending' => doc.analytics /\ analytics = "on"
      BY <1>1, <2>1 DEF Applied, OffIsEmpty, Takes
    <3>2. doc.analytics /\ analytics = "on" => analytics' = "on"
      BY <1>1 DEF Applied, OptedIn
    <3> QED
      BY <3>1, <3>2
  <2> QED
    BY <2>1, <2>2, <2>3, <2>4 DEF OffIsEmpty, Takes, Signals
<1>2. CASE ~doc.active
  BY <1>2, SwitchedOffEmpty DEF Applied
<1> QED
  BY <1>1, <1>2

LEMMA OffStep ==
  ASSUME TypeOK, NothingYet, OffIsEmpty, [Next]_vars
  PROVE  OffIsEmpty'
<1> USE DEF switches, patches, traffic, history
<1>1. ASSUME NEW b \in BOOLEAN, Start(b)
      PROVE  OffIsEmpty'
  <2>1. pending = {}
    BY <1>1 DEF Start, NothingYet
  <2>2. pending' = {}
    BY <1>1, <2>1 DEF Start, Bootstrap, Applied, SwitchedOff
  <2> QED
    BY <2>2 DEF OffIsEmpty
<1>2. ASSUME NEW b \in BOOLEAN, Teardown(b)
      PROVE  OffIsEmpty'
  BY <1>2 DEF Teardown, OffIsEmpty, Takes
<1>3. ASSUME NEW doc \in Documents, FetchAnswers(doc)
      PROVE  OffIsEmpty'
  <2>1. CASE Applied(doc, listening)
    BY <1>3, <2>1, AppliedEmpty DEF FetchAnswers
  <2>2. CASE UNCHANGED <<switches, pending, patched, late>>
    BY <1>3, <2>2 DEF FetchAnswers, OffIsEmpty, Takes
  <2> QED
    BY <1>3, <2>1, <2>2 DEF FetchAnswers
<1>4. CASE FetchRefused
  BY <1>4, SwitchedOffEmpty DEF FetchRefused
<1>5. CASE FetchFails
  BY <1>5 DEF FetchFails, OffIsEmpty, Takes
<1>6. CASE CacheAges
  BY <1>6 DEF CacheAges, OffIsEmpty, Takes
<1>7. ASSUME NEW s \in Signals, Record(s)
      PROVE  OffIsEmpty'
  BY <1>7 DEF Record, OffIsEmpty, Takes
<1>8. ASSUME NEW s \in Signals, Post(s)
      PROVE  OffIsEmpty'
  BY <1>8 DEF Post, OffIsEmpty, Takes
<1>9. ASSUME NEW s \in Signals, Accepted(s)
      PROVE  OffIsEmpty'
  BY <1>9 DEF Accepted, OffIsEmpty, Takes
<1>10. ASSUME NEW s \in Signals, NEW cause \in Causes, Refused(s, cause)
       PROVE  OffIsEmpty'
  <2>1. CASE TakenBack
    BY <1>10, <2>1 DEF Refused, TakenBack, OffIsEmpty, Takes
  <2>2. CASE SwitchedOff(Stops(s, cause))
    BY <1>10, <2>2, SwitchedOffEmpty DEF Refused
  <2> QED
    BY <1>10, <2>1, <2>2 DEF Refused
<1>11. CASE Close
  BY <1>11 DEF Close, OffIsEmpty, Takes
<1>12. CASE Crash
  BY <1>12 DEF Crash, OffIsEmpty
<1>13. CASE SiteOptsIn
  BY <1>13 DEF SiteOptsIn, OptedIn, OffIsEmpty, Takes
<1>14. CASE SiteOptsOut
  BY <1>14 DEF SiteOptsOut, OffIsEmpty, Takes
<1>15. CASE Closed
  BY <1>15 DEF Closed, OffIsEmpty, Takes
<1>16. CASE UNCHANGED vars
  BY <1>16 DEF vars, OffIsEmpty, Takes
<1> QED
  BY <1>1, <1>2, <1>3, <1>4, <1>5, <1>6, <1>7, <1>8, <1>9, <1>10, <1>11, <1>12, <1>13,
     <1>14, <1>15, <1>16
  DEF Next

LEMMA InvStep == Inv /\ [Next]_vars => Inv'
BY TypeStep, QuietStep, DeadStep, OffStep DEF Inv

LEMMA Invariance == SafeSpec => []Inv
BY InvInit, InvStep, PTL DEF SafeSpec

\* The variables of the client keep their types; it is patched only with a tracer
\* and a listener, and waits for posts only while it closes.
THEOREM TypeCorrect == SafeSpec => []TypeOK
<1>1. Inv => TypeOK
  BY DEF Inv
<1> QED
  BY <1>1, Invariance, PTL

\* A process that starts under the refusal of its key fetches nothing, makes no
\* tracer, patches nothing and posts nothing but the analytics the site itself opts
\* in to, for as long as it lives (bootstrapPolicy).
THEOREM QuietForItsLife == SafeSpec => []QuietKeyIsSilent
<1>1. Inv => QuietKeyIsSilent
  BY DEF Inv
<1> QED
  BY <1>1, Invariance, PTL

\* No document brings a signal back after a post was refused for the key, but for
\* a tracer that it makes where none was (disable, applySdkConfig).
THEOREM DeadForItsLife == SafeSpec => []DeadKeyStaysDead
<1>1. Inv => DeadKeyStaysDead
  BY DEF Inv
<1> QED
  BY <1>1, Invariance, PTL

\* What is off has nothing left to post (disable of the queue, the tracer and the
\* facade).
THEOREM OffHasNothing == SafeSpec => []OffIsEmpty
<1>1. Inv => OffIsEmpty
  BY DEF Inv
<1> QED
  BY <1>1, Invariance, PTL
=============================================================================
