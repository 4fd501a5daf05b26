---------------------------- MODULE TracingProofs ----------------------------
(***************************************************************************)
(* Theorems about Tracing, for any sets of requests and spans, any finite  *)
(* set of vitals, any limits and any number of transactions.               *)
(***************************************************************************)
EXTENDS Tracing, FiniteSetTheorems, FunctionTheorems, TLAPS

-----------------------------------------------------------------------------
(* The maximum timer. *)

LEMMA TimerStep ==
  ASSUME TimerWhileOpen, [Next]_vars
  PROVE  TimerWhileOpen'
<1> USE DEF page, client, wire, history
<1>1. CASE Load
  BY <1>1 DEF Load, TimerWhileOpen
<1>2. CASE CaptureError
  BY <1>2 DEF CaptureError, MarkError, TimerWhileOpen
<1>3. CASE TimerFires
  BY <1>3 DEF TimerFires, EndRoot, TimerWhileOpen
<1>4. CASE Hide
  BY <1>4 DEF Hide, EndRoot, TimerWhileOpen
<1>5. CASE NavigateOff
  BY <1>5 DEF NavigateOff, EndRoot, Schedule, TimerWhileOpen
<1>6. ASSUME NEW keep \in BOOLEAN, Navigate(keep)
      PROVE  TimerWhileOpen'
  BY <1>6 DEF Navigate, NextTransaction, Schedule, TimerWhileOpen
<1>7. ASSUME NEW c \in Children, StartSpan(c)
      PROVE  TimerWhileOpen'
  BY <1>7 DEF StartSpan, TimerWhileOpen
<1>8. ASSUME NEW s \in live, EndSpan(s)
      PROVE  TimerWhileOpen'
  BY <1>8 DEF EndSpan, TimerWhileOpen
<1>9. ASSUME NEW r \in Requests, Request(r)
      PROVE  TimerWhileOpen'
  BY <1>9 DEF Request, Rearmed, TimerWhileOpen
<1>10. ASSUME NEW r \in Requests, RequestFails(r)
       PROVE  TimerWhileOpen'
  BY <1>10 DEF RequestFails, MarkError, Rearmed, TimerWhileOpen
<1>11. ASSUME NEW r \in Requests, RequestTooLate(r)
       PROVE  TimerWhileOpen'
  BY <1>11 DEF RequestTooLate, TimerWhileOpen
<1>12. ASSUME NEW v \in Vitals, HoldVital(v)
       PROVE  TimerWhileOpen'
  BY <1>12 DEF HoldVital, TimerWhileOpen
<1>13. ASSUME NEW v \in Vitals, EmitVital(v)
       PROVE  TimerWhileOpen'
  BY <1>13 DEF EmitVital, TimerWhileOpen
<1>14. CASE Tick
  BY <1>14 DEF Tick, TimerWhileOpen
<1>15. CASE StopTicking
  BY <1>15 DEF StopTicking, TimerWhileOpen
<1>16. CASE StartPass
  BY <1>16 DEF StartPass, TimerWhileOpen
<1>17. CASE Accepted
  BY <1>17 DEF Accepted, TimerWhileOpen
<1>18. CASE FailsForNow
  BY <1>18 DEF FailsForNow, TimerWhileOpen
<1>19. CASE FailsForGood
  BY <1>19 DEF FailsForGood, TimerWhileOpen
<1>20. CASE Disable
  BY <1>20 DEF Disable, TimerWhileOpen
<1>21. CASE Close
  BY <1>21 DEF Close, TimerWhileOpen
<1>22. CASE CloseFlushes
  BY <1>22 DEF CloseFlushes, EndRoot, TimerWhileOpen
<1>23. CASE Shutdown
  BY <1>23 DEF Shutdown, EndRoot, TimerWhileOpen
<1>24. CASE Closed
  BY <1>24 DEF Closed, TimerWhileOpen
<1>25. CASE UNCHANGED vars
  BY <1>25 DEF vars, TimerWhileOpen
<1> QED
  BY <1>1, <1>2, <1>3, <1>4, <1>5, <1>6, <1>7, <1>8, <1>9, <1>10, <1>11, <1>12,
     <1>13, <1>14, <1>15, <1>16, <1>17, <1>18, <1>19, <1>20, <1>21, <1>22, <1>23, <1>24, <1>25
  DEF Next, Answer

\* The root of an open transaction has its maximum timer, whatever armed and
\* cleared timers before (schedulePageloadEnd, capture, startNavigation).
THEOREM TimerIsSet == SafeSpec => []TimerWhileOpen
<1>1. Init => TimerWhileOpen
  BY DEF Init, TimerWhileOpen
<1> QED
  BY <1>1, TimerStep, PTL DEF SafeSpec

-----------------------------------------------------------------------------
(* Web vitals. *)

\* What is kept, and the place of the page load among the transactions.
Document ==
  /\ trace \in Nat \ {0}
  /\ docSampled \in BOOLEAN
  /\ docSampled <=> 1 \in kept
  /\ docSampled => pending = {}
  /\ emitted # {} => 1 \in kept

LEMMA ErrorKeepsTheDocument ==
  ASSUME Document, MarkError, trace' = trace
  PROVE  Document'
<1>1. docSampled' \in BOOLEAN /\ (docSampled' <=> 1 \in kept')
  BY DEF Document, MarkError
<1>2. docSampled' => pending' = {}
  BY DEF Document, MarkError, Released
<1>3. emitted' # {} => 1 \in kept'
  BY DEF Document, MarkError, Released
<1> QED
  BY <1>1, <1>2, <1>3 DEF Document

LEMMA DocumentStep ==
  ASSUME Document, [Next]_vars
  PROVE  Document'
<1> USE DEF page, client, wire, history
<1>1. CASE Load
  BY <1>1 DEF Load, Document
<1>2. CASE CaptureError
  BY <1>2, ErrorKeepsTheDocument DEF CaptureError
<1>3. CASE TimerFires
  BY <1>3 DEF TimerFires, EndRoot, Document
<1>4. CASE Hide
  BY <1>4 DEF Hide, EndRoot, Document
<1>5. CASE NavigateOff
  BY <1>5 DEF NavigateOff, EndRoot, Schedule, Document
<1>6. ASSUME NEW keep \in BOOLEAN, Navigate(keep)
      PROVE  Document'
  BY <1>6 DEF Navigate, NextTransaction, Schedule, Document
<1>7. ASSUME NEW c \in Children, StartSpan(c)
      PROVE  Document'
  BY <1>7 DEF StartSpan, Document
<1>8. ASSUME NEW s \in live, EndSpan(s)
      PROVE  Document'
  BY <1>8 DEF EndSpan, Document
<1>9. ASSUME NEW r \in Requests, Request(r)
      PROVE  Document'
  BY <1>9 DEF Request, Rearmed, Document
<1>10. ASSUME NEW r \in Requests, RequestFails(r)
       PROVE  Document'
  BY <1>10, ErrorKeepsTheDocument DEF RequestFails
<1>11. ASSUME NEW r \in Requests, RequestTooLate(r)
       PROVE  Document'
  BY <1>11 DEF RequestTooLate, Document
<1>12. ASSUME NEW v \in Vitals, HoldVital(v)
       PROVE  Document'
  BY <1>12 DEF HoldVital, Document
<1>13. ASSUME NEW v \in Vitals, EmitVital(v)
       PROVE  Document'
  BY <1>13 DEF EmitVital, Document
<1>14. CASE Tick
  BY <1>14 DEF Tick, Document
<1>15. CASE StopTicking
  BY <1>15 DEF StopTicking, Document
<1>16. CASE StartPass
  BY <1>16 DEF StartPass, Document
<1>17. CASE Accepted
  BY <1>17 DEF Accepted, Document
<1>18. CASE FailsForNow
  BY <1>18 DEF FailsForNow, Document
<1>19. CASE FailsForGood
  BY <1>19 DEF FailsForGood, Document
<1>20. CASE Disable
  BY <1>20 DEF Disable, Document
<1>21. CASE Close
  BY <1>21 DEF Close, Document
<1>22. CASE CloseFlushes
  BY <1>22 DEF CloseFlushes, EndRoot, Document
<1>23. CASE Shutdown
  BY <1>23 DEF Shutdown, EndRoot, Document
<1>24. CASE Closed
  BY <1>24 DEF Closed, Document
<1>25. CASE UNCHANGED vars
  BY <1>25 DEF vars, Document
<1> QED
  BY <1>1, <1>2, <1>3, <1>4, <1>5, <1>6, <1>7, <1>8, <1>9, <1>10, <1>11, <1>12,
     <1>13, <1>14, <1>15, <1>16, <1>17, <1>18, <1>19, <1>20, <1>21, <1>22, <1>23, <1>24, <1>25
  DEF Next, Answer

LEMMA DocumentInit == Init => Document
BY DEF Init, StartPageload, Document

\* What is recorded of the vitals is of a kept page load.
VitalsOfKept ==
  /\ count \in Nat /\ pending \subseteq Vitals
  /\ \A s \in created : s.kind = "vital" => 1 \in kept

\* A vital that has its turn in this step is recorded, if there is room.
TurnIsTaken ==
  \A v \in emitted' \ emitted : VitalSpan(v) \in created' \/ disabled \/ count' >= Limit

\* createSpan: all of several spans are recorded, or there are as many as may be.
LEMMA RecordedOrFull ==
  ASSUME NEW S, IsFiniteSet(S), NEW n \in Nat, NEW R \in Recorded(S, n)
  PROVE  /\ R \subseteq S /\ IsFiniteSet(R) /\ Cardinality(R) \in Nat
         /\ R = S \/ disabled \/ n + Cardinality(R) >= Limit
<1>1. R \subseteq S /\ Limit \in Nat
  BY TracingAssumption DEF Recorded, TracingAssumption
<1>2. /\ IsFiniteSet(R) /\ Cardinality(R) \in Nat /\ Cardinality(S) \in Nat
      /\ Cardinality(S) = Cardinality(R) => S = R
  BY <1>1, FS_Subset, FS_CardinalityType
<1>3. Cardinality(R) = IF disabled THEN 0
        ELSE IF n + Cardinality(S) <= Limit THEN Cardinality(S)
        ELSE IF n < Limit THEN Limit - n ELSE 0
  BY DEF Recorded
<1>4. Cardinality(R) = Cardinality(S) \/ disabled \/ n + Cardinality(R) >= Limit
  <2>1. CASE disabled
    BY <2>1
  <2>2. CASE ~disabled
    BY <1>1, <1>2, <1>3, <2>2
  <2> QED
    BY <2>1, <2>2
<1> QED
  BY <1>1, <1>2, <1>4

LEMMA ReleasedIsFinite ==
  ASSUME VitalsOfKept, MarkError
  PROVE  IsFiniteSet({VitalSpan(v) : v \in emitted' \ emitted})
<1> DEFINE new == emitted' \ emitted
           T == {VitalSpan(v) : v \in new}
           f == [v \in new |-> VitalSpan(v)]
<1>1. new \subseteq Vitals
  BY DEF VitalsOfKept, MarkError, Released
<1>2. IsFiniteSet(new)
  BY <1>1, TracingAssumption, FS_Subset DEF TracingAssumption
<1>3. f \in [new -> T] /\ \A t \in T : \E v \in new : f[v] = t
  OBVIOUS
<1>4. f \in Surjection(new, T)
  BY <1>3, Fun_IsSurj
<1> HIDE DEF f, T, new
<1>5. IsFiniteSet(T)
  BY <1>2, <1>4, FS_Surjection
<1> QED
  BY <1>5 DEF T, new

LEMMA VitalStep ==
  ASSUME Document, VitalsOfKept, [Next]_vars
  PROVE  VitalsOfKept' /\ TurnIsTaken
<1> USE DEF page, client, wire, history
<1>1. CASE Load
  BY <1>1 DEF Load, VitalsOfKept, TurnIsTaken
<1>2. CASE CaptureError
  <2> DEFINE new == emitted' \ emitted
  <2>1. PICK V \in Recorded({VitalSpan(v) : v \in new}, count) :
          /\ created' = created \union V
          /\ count' = count + Cardinality(V)
    BY <1>2 DEF CaptureError
  <2>2. MarkError
    BY <1>2 DEF CaptureError
  <2>3. IsFiniteSet({VitalSpan(v) : v \in new}) /\ count \in Nat
    BY <2>2, ReleasedIsFinite DEF VitalsOfKept
  <2>4. /\ V \subseteq {VitalSpan(v) : v \in new} /\ Cardinality(V) \in Nat
        /\ V = {VitalSpan(v) : v \in new} \/ disabled \/ count + Cardinality(V) >= Limit
    BY <2>1, <2>3, RecordedOrFull
  <2>5. TurnIsTaken
    BY <2>1, <2>4 DEF TurnIsTaken
  <2>6. \A s \in created' : s.kind = "vital" => 1 \in kept'
    BY <2>1, <2>2, <2>4 DEF VitalsOfKept, MarkError, Released
  <2>7. count' \in Nat /\ pending' \subseteq Vitals
    BY <2>1, <2>2, <2>3, <2>4 DEF VitalsOfKept, MarkError
  <2> QED
    BY <2>5, <2>6, <2>7 DEF VitalsOfKept
<1>3. CASE TimerFires
  BY <1>3 DEF TimerFires, EndRoot, VitalsOfKept, TurnIsTaken
<1>4. CASE Hide
  BY <1>4 DEF Hide, EndRoot, VitalsOfKept, TurnIsTaken
<1>5. CASE NavigateOff
  BY <1>5 DEF NavigateOff, EndRoot, Schedule, VitalsOfKept, TurnIsTaken
<1>6. ASSUME NEW keep \in BOOLEAN, Navigate(keep)
      PROVE  VitalsOfKept' /\ TurnIsTaken
  <2>1. /\ count' = 1 /\ emitted' = emitted /\ pending' \subseteq pending
        /\ created' = created \union {Root(trace + 1)} /\ kept \subseteq kept'
    BY <1>6 DEF Navigate, NextTransaction
  <2>2. Root(trace + 1).kind # "vital"
    BY DEF Root
  <2> QED
    BY <2>1, <2>2 DEF VitalsOfKept, TurnIsTaken
<1>7. ASSUME NEW c \in Children, StartSpan(c)
      PROVE  VitalsOfKept' /\ TurnIsTaken
  <2> DEFINE S == {Child(trace, c)}
  <2>1. PICK R \in Recorded(S, count) :
          created' = created \union R /\ count' = count + Cardinality(R)
    BY <1>7 DEF StartSpan
  <2>2. R \subseteq S /\ Cardinality(R) \in Nat
    <3>1. IsFiniteSet(S) /\ count \in Nat
      BY FS_Singleton DEF VitalsOfKept
    <3> HIDE DEF S
    <3> QED
      BY <2>1, <3>1, RecordedOrFull
  <2>3. \A s \in S : s.kind # "vital"
    BY DEF Child
  <2>4. UNCHANGED <<emitted, pending, kept>>
    BY <1>7 DEF StartSpan
  <2> QED
    BY <2>1, <2>2, <2>3, <2>4 DEF VitalsOfKept, TurnIsTaken
<1>8. ASSUME NEW s \in live, EndSpan(s)
      PROVE  VitalsOfKept' /\ TurnIsTaken
  BY <1>8 DEF EndSpan, VitalsOfKept, TurnIsTaken
<1>9. ASSUME NEW r \in Requests, Request(r)
      PROVE  VitalsOfKept' /\ TurnIsTaken
  <2> DEFINE S == {Http(trace, r)}
  <2>1. PICK R \in Recorded(S, count) :
          created' = created \union R /\ count' = count + Cardinality(R)
    BY <1>9 DEF Request
  <2>2. R \subseteq S /\ Cardinality(R) \in Nat
    <3>1. IsFiniteSet(S) /\ count \in Nat
      BY FS_Singleton DEF VitalsOfKept
    <3> HIDE DEF S
    <3> QED
      BY <2>1, <3>1, RecordedOrFull
  <2>3. \A s \in S : s.kind # "vital"
    BY DEF Http
  <2>4. UNCHANGED <<emitted, pending, kept>>
    BY <1>9 DEF Request
  <2> QED
    BY <2>1, <2>2, <2>3, <2>4 DEF VitalsOfKept, TurnIsTaken
<1>10. ASSUME NEW r \in Requests, RequestFails(r)
       PROVE  VitalsOfKept' /\ TurnIsTaken
  <2> DEFINE new == emitted' \ emitted
             S == {Http(trace, r)}
             T == {VitalSpan(v) : v \in new}
  <2>1. PICK R \in Recorded(S, count) :
          \E V \in Recorded(T, count + Cardinality(R)) :
            /\ created' = created \union R \union V
            /\ count' = count + Cardinality(R \union V)
    BY <1>10 DEF RequestFails
  <2>2. PICK V \in Recorded(T, count + Cardinality(R)) :
          /\ created' = created \union R \union V
          /\ count' = count + Cardinality(R \union V)
    BY <2>1
  <2>3. MarkError
    BY <1>10 DEF RequestFails
  <2>4. IsFiniteSet(T) /\ count \in Nat
    BY <2>3, ReleasedIsFinite DEF VitalsOfKept
  <2>5. R \subseteq S /\ IsFiniteSet(R) /\ Cardinality(R) \in Nat
    <3>1. IsFiniteSet(S)
      BY FS_Singleton
    <3> HIDE DEF S, T
    <3> QED
      BY <2>1, <2>4, <3>1, RecordedOrFull
  <2>6. /\ V \subseteq T /\ IsFiniteSet(V) /\ Cardinality(V) \in Nat
        /\ V = T \/ disabled \/ count + Cardinality(R) + Cardinality(V) >= Limit
    <3>1. count + Cardinality(R) \in Nat
      BY <2>4, <2>5
    <3> HIDE DEF T, new
    <3> QED
      BY <2>2, <2>4, <3>1, RecordedOrFull
  <2>7. Cardinality(R \union V) = Cardinality(R) + Cardinality(V)
    <3>1. \A s \in S : s.kind = "http"
      BY DEF Http
    <3>2. \A s \in T : s.kind = "vital"
      BY DEF VitalSpan
    <3>3. R \intersect V = {}
      <4> HIDE DEF S, T
      <4> QED
        BY <2>5, <2>6, <3>1, <3>2
    <3>4. Cardinality(R \union V) =
            Cardinality(R) + Cardinality(V) - Cardinality(R \intersect V)
      BY <2>5, <2>6, FS_Union
    <3>5. Cardinality(R \intersect V) = 0
      BY <3>3, FS_EmptySet
    <3> QED
      BY <2>5, <2>6, <3>4, <3>5
  <2>8. TurnIsTaken
    <3>1. count' = count + Cardinality(R) + Cardinality(V)
      BY <2>2, <2>4, <2>5, <2>6, <2>7
    <3>2. ASSUME NEW v \in new PROVE VitalSpan(v) \in created' \/ disabled \/ count' >= Limit
      <4>1. VitalSpan(v) \in T
        OBVIOUS
      <4> QED
        BY <2>2, <2>6, <3>1, <4>1
    <3> QED
      BY <3>2 DEF TurnIsTaken
  <2>9. \A s \in created' : s.kind = "vital" => 1 \in kept'
    <3>1. \A s \in S : s.kind # "vital"
      BY DEF Http
    <3>2. new # {} => 1 \in kept'
      BY <2>3 DEF MarkError, Released
    <3>3. kept \subseteq kept'
      BY <2>3 DEF MarkError
    <3>4. T # {} => new # {}
      OBVIOUS
    <3> HIDE DEF S, T, new
    <3> QED
      BY <2>2, <2>5, <2>6, <3>1, <3>2, <3>3, <3>4 DEF VitalsOfKept
  <2>10. count' \in Nat /\ pending' \subseteq Vitals
    <3>1. pending' \subseteq Vitals
      BY <2>3 DEF VitalsOfKept, MarkError
    <3> QED
      BY <2>2, <2>4, <2>5, <2>6, <2>7, <3>1
  <2> QED
    BY <2>8, <2>9, <2>10 DEF VitalsOfKept
<1>11. ASSUME NEW r \in Requests, RequestTooLate(r)
       PROVE  VitalsOfKept' /\ TurnIsTaken
  BY <1>11 DEF RequestTooLate, VitalsOfKept, TurnIsTaken
<1>12. ASSUME NEW v \in Vitals, HoldVital(v)
       PROVE  VitalsOfKept' /\ TurnIsTaken
  BY <1>12 DEF HoldVital, VitalsOfKept, TurnIsTaken
<1>13. ASSUME NEW v \in Vitals, EmitVital(v)
       PROVE  VitalsOfKept' /\ TurnIsTaken
  <2> DEFINE S == {VitalSpan(v)}
  <2>1. PICK R \in Recorded(S, count) :
          created' = created \union R /\ count' = count + Cardinality(R)
    BY <1>13 DEF EmitVital
  <2>2. /\ R \subseteq S /\ Cardinality(R) \in Nat
        /\ R = S \/ disabled \/ count + Cardinality(R) >= Limit
    <3>1. IsFiniteSet(S) /\ count \in Nat
      BY FS_Singleton DEF VitalsOfKept
    <3> HIDE DEF S
    <3> QED
      BY <2>1, <3>1, RecordedOrFull
  <2>3. /\ emitted' = emitted \union {v} /\ pending' \subseteq pending /\ kept' = kept
        /\ 1 \in kept
    BY <1>13 DEF EmitVital, Document
  <2> QED
    BY <2>1, <2>2, <2>3 DEF VitalsOfKept, TurnIsTaken
<1>14. CASE Tick
  BY <1>14 DEF Tick, VitalsOfKept, TurnIsTaken
<1>15. CASE StopTicking
  BY <1>15 DEF StopTicking, VitalsOfKept, TurnIsTaken
<1>16. CASE StartPass
  BY <1>16 DEF StartPass, VitalsOfKept, TurnIsTaken
<1>17. CASE Accepted
  BY <1>17 DEF Accepted, VitalsOfKept, TurnIsTaken
<1>18. CASE FailsForNow
  BY <1>18 DEF FailsForNow, VitalsOfKept, TurnIsTaken
<1>19. CASE FailsForGood
  BY <1>19 DEF FailsForGood, VitalsOfKept, TurnIsTaken
<1>20. CASE Disable
  BY <1>20 DEF Disable, VitalsOfKept, TurnIsTaken
<1>21. CASE Close
  BY <1>21 DEF Close, VitalsOfKept, TurnIsTaken
<1>22. CASE CloseFlushes
  BY <1>22 DEF CloseFlushes, EndRoot, VitalsOfKept, TurnIsTaken
<1>23. CASE Shutdown
  BY <1>23 DEF Shutdown, EndRoot, VitalsOfKept, TurnIsTaken
<1>24. CASE Closed
  BY <1>24 DEF Closed, VitalsOfKept, TurnIsTaken
<1>25. CASE UNCHANGED vars
  BY <1>25 DEF vars, VitalsOfKept, TurnIsTaken
<1> QED
  BY <1>1, <1>2, <1>3, <1>4, <1>5, <1>6, <1>7, <1>8, <1>9, <1>10, <1>11, <1>12,
     <1>13, <1>14, <1>15, <1>16, <1>17, <1>18, <1>19, <1>20, <1>21, <1>22, <1>23, <1>24, <1>25
  DEF Next, Answer

LEMMA VitalInit == Init => VitalsOfKept
BY DEF Init, StartPageload, VitalsOfKept, Root

\* The vitals of a page load that is not kept are not recorded; those of one that is
\* are, each at its turn, unless the limit of the spans is reached (recordWebVital,
\* markError, startNavigation, createSpan).
THEOREM VitalsGoWithTheDocument == SafeSpec => VitalsFollowTheDocument
<1> DEFINE Inv == Document /\ VitalsOfKept
           Kept == /\ docSampled = (1 \in kept)
                   /\ docSampled => pending = {}
                   /\ (\E s \in created : s.kind = "vital") => 1 \in kept
           Turn == \A v \in emitted' \ emitted :
                     VitalSpan(v) \in created' \/ disabled \/ count' >= Limit
<1>1. Init => Inv
  BY DocumentInit, VitalInit
<1>2. Inv /\ [Next]_vars => Inv'
  BY DocumentStep, VitalStep
<1>3. Inv => Kept
  BY DEF Document, VitalsOfKept
<1>4. Inv /\ [Next]_vars => [Turn]_vars
  BY VitalStep DEF TurnIsTaken
<1>5. VitalsFollowTheDocument <=> []Kept /\ [][Turn]_vars
  BY DEF VitalsFollowTheDocument
<1> HIDE DEF Inv, Kept, Turn
<1> QED
  BY <1>1, <1>2, <1>3, <1>4, <1>5, PTL DEF SafeSpec

-----------------------------------------------------------------------------
(* What is sent. *)

\* A span of the application that ended after its transaction.
IsLate(s) == s.kind = "child" /\ s.trace < trace

\* A sampled transaction is kept.
SampledIsKept == IsSampled => trace \in kept

\* In the list are vitals of the page load, spans of the current transaction, and
\* late ones.
Belongs(s) ==
  /\ s.trace \in Nat
  /\ s.kind = "vital" => s.trace = 1
  /\ s.kind # "vital" => s.trace = trace \/ IsLate(s)
ListIsCurrent == \A s \in ended : Belongs(s)

LiveAreChildren == \A s \in live : s.kind = "child" /\ s.trace \in Nat /\ s.trace <= trace

WireIsKept == \A s \in batch \union sent : s.trace \in Nat /\ (s.trace \in kept \/ IsLate(s))

LEMMA SampledStep ==
  ASSUME SampledIsKept, [Next]_vars
  PROVE  SampledIsKept'
<1> USE DEF page, client, wire, history
<1>1. CASE Load
  BY <1>1 DEF Load, SampledIsKept, IsSampled
<1>2. CASE CaptureError
  <2>1. trace \in kept' /\ trace' = trace
    BY <1>2 DEF CaptureError, MarkError
  <2> QED
    BY <2>1 DEF SampledIsKept
<1>3. CASE TimerFires
  BY <1>3 DEF TimerFires, EndRoot, SampledIsKept, IsSampled
<1>4. CASE Hide
  BY <1>4 DEF Hide, EndRoot, SampledIsKept, IsSampled
<1>5. CASE NavigateOff
  BY <1>5 DEF NavigateOff, EndRoot, Schedule, SampledIsKept, IsSampled
<1>6. ASSUME NEW keep \in BOOLEAN, Navigate(keep)
      PROVE  SampledIsKept'
  BY <1>6 DEF Navigate, NextTransaction, Schedule, SampledIsKept, IsSampled
<1>7. ASSUME NEW c \in Children, StartSpan(c)
      PROVE  SampledIsKept'
  BY <1>7 DEF StartSpan, SampledIsKept, IsSampled
<1>8. ASSUME NEW s \in live, EndSpan(s)
      PROVE  SampledIsKept'
  BY <1>8 DEF EndSpan, SampledIsKept, IsSampled
<1>9. ASSUME NEW r \in Requests, Request(r)
      PROVE  SampledIsKept'
  BY <1>9 DEF Request, Rearmed, SampledIsKept, IsSampled
<1>10. ASSUME NEW r \in Requests, RequestFails(r)
       PROVE  SampledIsKept'
  <2>1. trace \in kept' /\ trace' = trace
    BY <1>10 DEF RequestFails, MarkError
  <2> QED
    BY <2>1 DEF SampledIsKept
<1>11. ASSUME NEW r \in Requests, RequestTooLate(r)
       PROVE  SampledIsKept'
  BY <1>11 DEF RequestTooLate, SampledIsKept, IsSampled
<1>12. ASSUME NEW v \in Vitals, HoldVital(v)
       PROVE  SampledIsKept'
  BY <1>12 DEF HoldVital, SampledIsKept, IsSampled
<1>13. ASSUME NEW v \in Vitals, EmitVital(v)
       PROVE  SampledIsKept'
  BY <1>13 DEF EmitVital, SampledIsKept, IsSampled
<1>14. CASE Tick
  BY <1>14 DEF Tick, SampledIsKept, IsSampled
<1>15. CASE StopTicking
  BY <1>15 DEF StopTicking, SampledIsKept, IsSampled
<1>16. CASE StartPass
  BY <1>16 DEF StartPass, SampledIsKept, IsSampled
<1>17. CASE Accepted
  BY <1>17 DEF Accepted, SampledIsKept, IsSampled
<1>18. CASE FailsForNow
  BY <1>18 DEF FailsForNow, SampledIsKept, IsSampled
<1>19. CASE FailsForGood
  BY <1>19 DEF FailsForGood, SampledIsKept, IsSampled
<1>20. CASE Disable
  BY <1>20 DEF Disable, SampledIsKept, IsSampled
<1>21. CASE Close
  BY <1>21 DEF Close, SampledIsKept, IsSampled
<1>22. CASE CloseFlushes
  BY <1>22 DEF CloseFlushes, EndRoot, SampledIsKept, IsSampled
<1>23. CASE Shutdown
  BY <1>23 DEF Shutdown, EndRoot, SampledIsKept, IsSampled
<1>24. CASE Closed
  BY <1>24 DEF Closed, SampledIsKept, IsSampled
<1>25. CASE UNCHANGED vars
  BY <1>25 DEF vars, SampledIsKept, IsSampled
<1> QED
  BY <1>1, <1>2, <1>3, <1>4, <1>5, <1>6, <1>7, <1>8, <1>9, <1>10, <1>11, <1>12,
     <1>13, <1>14, <1>15, <1>16, <1>17, <1>18, <1>19, <1>20, <1>21, <1>22, <1>23, <1>24, <1>25
  DEF Next, Answer

LEMMA LiveStep ==
  ASSUME Document, LiveAreChildren, [Next]_vars
  PROVE  LiveAreChildren'
<1> USE DEF page, client, wire, history
<1>1. CASE Load
  BY <1>1 DEF Load, LiveAreChildren
<1>2. CASE CaptureError
  BY <1>2 DEF CaptureError, LiveAreChildren
<1>3. CASE TimerFires
  BY <1>3 DEF TimerFires, EndRoot, LiveAreChildren
<1>4. CASE Hide
  BY <1>4 DEF Hide, EndRoot, LiveAreChildren
<1>5. CASE NavigateOff
  BY <1>5 DEF NavigateOff, EndRoot, Schedule, LiveAreChildren
<1>6. ASSUME NEW keep \in BOOLEAN, Navigate(keep)
      PROVE  LiveAreChildren'
  <2>1. live' = live /\ trace' = trace + 1 /\ trace \in Nat
    BY <1>6 DEF Navigate, NextTransaction, Document
  <2> QED
    BY <2>1 DEF LiveAreChildren
<1>7. ASSUME NEW c \in Children, StartSpan(c)
      PROVE  LiveAreChildren'
  <2>1. live' \subseteq live \union {Child(trace, c)} /\ trace' = trace /\ trace \in Nat
    BY <1>7 DEF StartSpan, Recorded, Document
  <2> QED
    BY <2>1 DEF LiveAreChildren, Child
<1>8. ASSUME NEW s \in live, EndSpan(s)
      PROVE  LiveAreChildren'
  BY <1>8 DEF EndSpan, LiveAreChildren
<1>9. ASSUME NEW r \in Requests, Request(r)
      PROVE  LiveAreChildren'
  BY <1>9 DEF Request, Rearmed, LiveAreChildren
<1>10. ASSUME NEW r \in Requests, RequestFails(r)
       PROVE  LiveAreChildren'
  BY <1>10 DEF RequestFails, LiveAreChildren
<1>11. ASSUME NEW r \in Requests, RequestTooLate(r)
       PROVE  LiveAreChildren'
  BY <1>11 DEF RequestTooLate, LiveAreChildren
<1>12. ASSUME NEW v \in Vitals, HoldVital(v)
       PROVE  LiveAreChildren'
  BY <1>12 DEF HoldVital, LiveAreChildren
<1>13. ASSUME NEW v \in Vitals, EmitVital(v)
       PROVE  LiveAreChildren'
  BY <1>13 DEF EmitVital, LiveAreChildren
<1>14. CASE Tick
  BY <1>14 DEF Tick, LiveAreChildren
<1>15. CASE StopTicking
  BY <1>15 DEF StopTicking, LiveAreChildren
<1>16. CASE StartPass
  BY <1>16 DEF StartPass, LiveAreChildren
<1>17. CASE Accepted
  BY <1>17 DEF Accepted, LiveAreChildren
<1>18. CASE FailsForNow
  BY <1>18 DEF FailsForNow, LiveAreChildren
<1>19. CASE FailsForGood
  BY <1>19 DEF FailsForGood, LiveAreChildren
<1>20. CASE Disable
  BY <1>20 DEF Disable, LiveAreChildren
<1>21. CASE Close
  BY <1>21 DEF Close, LiveAreChildren
<1>22. CASE CloseFlushes
  BY <1>22 DEF CloseFlushes, EndRoot, LiveAreChildren
<1>23. CASE Shutdown
  BY <1>23 DEF Shutdown, EndRoot, LiveAreChildren
<1>24. CASE Closed
  BY <1>24 DEF Closed, LiveAreChildren
<1>25. CASE UNCHANGED vars
  BY <1>25 DEF vars, LiveAreChildren
<1> QED
  BY <1>1, <1>2, <1>3, <1>4, <1>5, <1>6, <1>7, <1>8, <1>9, <1>10, <1>11, <1>12,
     <1>13, <1>14, <1>15, <1>16, <1>17, <1>18, <1>19, <1>20, <1>21, <1>22, <1>23, <1>24, <1>25
  DEF Next, Answer

\* What a step may add to the list of the current transaction.
LEMMA ListGrows ==
  ASSUME ListIsCurrent, Document, trace' = trace, NEW S,
         ended' \subseteq ended \union S,
         \A s \in S : Belongs(s)
  PROVE  ListIsCurrent'
BY DEF ListIsCurrent, Belongs, IsLate

LEMMA ListStep ==
  ASSUME Document, ListIsCurrent, LiveAreChildren, [Next]_vars
  PROVE  ListIsCurrent'
<1> USE DEF page, client, wire, history
<1>0. /\ trace \in Nat
      /\ \A s \in Ending : Belongs(s)
      /\ \A v : Belongs(VitalSpan(v))
      /\ \A r : Belongs(Http(trace, r))
  BY DEF Document, Ending, Root, VitalSpan, Http, Belongs
<1>a. ASSUME ended' = ended \union Ending, trace' = trace
      PROVE  ListIsCurrent'
  BY <1>0, <1>a, ListGrows
<1>b. ASSUME ended' \subseteq ended, trace' = trace
      PROVE  ListIsCurrent'
  BY <1>b DEF ListIsCurrent, Belongs, IsLate
<1>1. CASE Load
  BY <1>b, <1>1 DEF Load
<1>2. CASE CaptureError
  <2>1. /\ ended' \subseteq ended \union (Ending \union {VitalSpan(v) : v \in emitted' \ emitted})
        /\ trace' = trace
    BY <1>2 DEF CaptureError, Recorded
  <2>2. \A s \in Ending \union {VitalSpan(v) : v \in emitted' \ emitted} : Belongs(s)
    BY <1>0
  <2> QED
    BY <2>1, <2>2, ListGrows
<1>3. CASE TimerFires
  BY <1>a, <1>3 DEF TimerFires, EndRoot
<1>4. CASE Hide
  BY <1>a, <1>4 DEF Hide, EndRoot
<1>5. CASE NavigateOff
  BY <1>a, <1>5 DEF NavigateOff, EndRoot
<1>6. ASSUME NEW keep \in BOOLEAN, Navigate(keep)
      PROVE  ListIsCurrent'
  <2>1. ended' = {}
    BY <1>6 DEF Navigate, NextTransaction
  <2> QED
    BY <2>1 DEF ListIsCurrent
<1>7. ASSUME NEW c \in Children, StartSpan(c)
      PROVE  ListIsCurrent'
  BY <1>b, <1>7 DEF StartSpan
<1>8. ASSUME NEW s \in live, EndSpan(s)
      PROVE  ListIsCurrent'
  <2> DEFINE S == {s}
  <2>1. ended' = ended \union S /\ trace' = trace
    BY <1>8 DEF EndSpan
  <2>2. Belongs(s)
    BY <1>0, <1>8 DEF LiveAreChildren, Belongs, IsLate
  <2>3. \A t \in S : Belongs(t)
    BY <2>2
  <2> HIDE DEF S
  <2> QED
    BY <2>1, <2>3, ListGrows
<1>9. ASSUME NEW r \in Requests, Request(r)
      PROVE  ListIsCurrent'
  <2> DEFINE S == {Http(trace, r)}
  <2>1. ended' \subseteq ended \union S /\ trace' = trace
    BY <1>9 DEF Request, Recorded
  <2>2. \A s \in S : Belongs(s)
    BY <1>0
  <2> HIDE DEF S
  <2> QED
    BY <2>1, <2>2, ListGrows
<1>10. ASSUME NEW r \in Requests, RequestFails(r)
       PROVE  ListIsCurrent'
  <2>1. /\ ended' \subseteq ended \union
             ({Http(trace, r)} \union {VitalSpan(v) : v \in emitted' \ emitted})
        /\ trace' = trace
    BY <1>10 DEF RequestFails, Recorded
  <2>2. \A s \in {Http(trace, r)} \union {VitalSpan(v) : v \in emitted' \ emitted} : Belongs(s)
    BY <1>0
  <2> QED
    BY <2>1, <2>2, ListGrows
<1>11. ASSUME NEW r \in Requests, RequestTooLate(r)
       PROVE  ListIsCurrent'
  BY <1>b, <1>11 DEF RequestTooLate
<1>12. ASSUME NEW v \in Vitals, HoldVital(v)
       PROVE  ListIsCurrent'
  BY <1>b, <1>12 DEF HoldVital
<1>13. ASSUME NEW v \in Vitals, EmitVital(v)
       PROVE  ListIsCurrent'
  <2> DEFINE S == {VitalSpan(v)}
  <2>1. ended' \subseteq ended \union S /\ trace' = trace
    BY <1>13 DEF EmitVital, Recorded
  <2>2. \A s \in S : Belongs(s)
    BY <1>0
  <2> HIDE DEF S
  <2> QED
    BY <2>1, <2>2, ListGrows
<1>14. CASE Tick
  BY <1>b, <1>14 DEF Tick
<1>15. CASE StopTicking
  BY <1>b, <1>15 DEF StopTicking
<1>16. CASE StartPass
  BY <1>b, <1>16 DEF StartPass
<1>17. CASE Accepted
  BY <1>b, <1>17 DEF Accepted
<1>18. CASE FailsForNow
  BY <1>b, <1>18 DEF FailsForNow
<1>19. CASE FailsForGood
  BY <1>b, <1>19 DEF FailsForGood
<1>20. CASE Disable
  BY <1>b, <1>20 DEF Disable
<1>21. CASE Close
  BY <1>b, <1>21 DEF Close
<1>22. CASE CloseFlushes
  BY <1>a, <1>22 DEF CloseFlushes, EndRoot
<1>23. CASE Shutdown
  BY <1>a, <1>23 DEF Shutdown, EndRoot
<1>24. CASE Closed
  BY <1>b, <1>24 DEF Closed
<1>25. CASE UNCHANGED vars
  BY <1>b, <1>25 DEF vars
<1> QED
  BY <1>1, <1>2, <1>3, <1>4, <1>5, <1>6, <1>7, <1>8, <1>9, <1>10, <1>11, <1>12,
     <1>13, <1>14, <1>15, <1>16, <1>17, <1>18, <1>19, <1>20, <1>21, <1>22, <1>23, <1>24, <1>25
  DEF Next, Answer

\* The wire grows by what flushOnce takes, and what is kept stays kept.
LEMMA WireGrows ==
  ASSUME WireIsKept, Document,
         trace' \in Nat, trace' >= trace, kept \subseteq kept',
         batch' \union sent' \subseteq batch \union sent
  PROVE  WireIsKept'
BY DEF WireIsKept, Document, IsLate

LEMMA WireStep ==
  ASSUME Document, SampledIsKept, ListIsCurrent, WireIsKept, [Next]_vars
  PROVE  WireIsKept'
<1> USE DEF page, client, wire, history
<1>0. trace \in Nat
  BY DEF Document
<1>1. CASE Load
  BY <1>0, <1>1, WireGrows DEF Load
<1>2. CASE CaptureError
  BY <1>0, <1>2, WireGrows DEF CaptureError, MarkError
<1>3. CASE TimerFires
  BY <1>0, <1>3, WireGrows DEF TimerFires, EndRoot
<1>4. CASE Hide
  BY <1>0, <1>4, WireGrows DEF Hide, EndRoot
<1>5. CASE NavigateOff
  BY <1>0, <1>5, WireGrows DEF NavigateOff, EndRoot, Schedule
<1>6. ASSUME NEW keep \in BOOLEAN, Navigate(keep)
      PROVE  WireIsKept'
  BY <1>0, <1>6, WireGrows DEF Navigate, NextTransaction, Schedule
<1>7. ASSUME NEW c \in Children, StartSpan(c)
      PROVE  WireIsKept'
  BY <1>0, <1>7, WireGrows DEF StartSpan
<1>8. ASSUME NEW s \in live, EndSpan(s)
      PROVE  WireIsKept'
  BY <1>0, <1>8, WireGrows DEF EndSpan
<1>9. ASSUME NEW r \in Requests, Request(r)
      PROVE  WireIsKept'
  BY <1>0, <1>9, WireGrows DEF Request, Rearmed
<1>10. ASSUME NEW r \in Requests, RequestFails(r)
       PROVE  WireIsKept'
  BY <1>0, <1>10, WireGrows DEF RequestFails, MarkError, Rearmed
<1>11. ASSUME NEW r \in Requests, RequestTooLate(r)
       PROVE  WireIsKept'
  BY <1>0, <1>11, WireGrows DEF RequestTooLate
<1>12. ASSUME NEW v \in Vitals, HoldVital(v)
       PROVE  WireIsKept'
  BY <1>0, <1>12, WireGrows DEF HoldVital
<1>13. ASSUME NEW v \in Vitals, EmitVital(v)
       PROVE  WireIsKept'
  BY <1>0, <1>13, WireGrows DEF EmitVital
<1>14. CASE Tick
  BY <1>0, <1>14, WireGrows DEF Tick
<1>15. CASE StopTicking
  BY <1>0, <1>15, WireGrows DEF StopTicking
<1>16. CASE StartPass
  <2>1. \A s \in Ready : s.trace \in Nat /\ (s.trace \in kept \/ IsLate(s))
    BY DEF Ready, Taken, ListIsCurrent, Belongs, SampledIsKept, Document
  <2>2. batch' \subseteq Ready /\ sent' = sent /\ trace' = trace /\ kept' = kept
    BY <1>16 DEF StartPass
  <2> QED
    BY <2>1, <2>2 DEF WireIsKept, IsLate
<1>17. CASE Accepted
  BY <1>0, <1>17, WireGrows DEF Accepted
<1>18. CASE FailsForNow
  BY <1>0, <1>18, WireGrows DEF FailsForNow
<1>19. CASE FailsForGood
  BY <1>0, <1>19, WireGrows DEF FailsForGood
<1>20. CASE Disable
  BY <1>0, <1>20, WireGrows DEF Disable
<1>21. CASE Close
  BY <1>0, <1>21, WireGrows DEF Close
<1>22. CASE CloseFlushes
  BY <1>0, <1>22, WireGrows DEF CloseFlushes, EndRoot
<1>23. CASE Shutdown
  BY <1>0, <1>23, WireGrows DEF Shutdown, EndRoot
<1>24. CASE Closed
  BY <1>0, <1>24, WireGrows DEF Closed
<1>25. CASE UNCHANGED vars
  BY <1>0, <1>25, WireGrows DEF vars
<1> QED
  BY <1>1, <1>2, <1>3, <1>4, <1>5, <1>6, <1>7, <1>8, <1>9, <1>10, <1>11, <1>12,
     <1>13, <1>14, <1>15, <1>16, <1>17, <1>18, <1>19, <1>20, <1>21, <1>22, <1>23, <1>24, <1>25
  DEF Next, Answer

\* Nothing of a transaction that is not kept leaves the page, but a span of the
\* application that ended after it (flushOnce, onSpanEnd, startNavigation).
THEOREM OnlyKeptIsSent == SafeSpec => []SentWasKept
<1> DEFINE All == Document /\ SampledIsKept /\ LiveAreChildren /\ ListIsCurrent /\ WireIsKept
<1>1. Init => All
  <2>1. Init => SampledIsKept
    BY DEF Init, StartPageload, SampledIsKept, IsSampled
  <2>2. Init => LiveAreChildren /\ ListIsCurrent /\ WireIsKept
    BY DEF Init, StartPageload, LiveAreChildren, ListIsCurrent, WireIsKept
  <2> QED
    BY <2>1, <2>2, DocumentInit
<1>2. All /\ [Next]_vars => All'
  BY DocumentStep, SampledStep, LiveStep, ListStep, WireStep
<1>3. All => SentWasKept
  BY DEF WireIsKept, IsLate, SentWasKept
<1> QED
  BY <1>1, <1>2, <1>3, PTL DEF SafeSpec
=============================================================================
