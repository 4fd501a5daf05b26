----------------------------- MODULE FlagsProofs -----------------------------
(***************************************************************************)
(* Proofs about TalariaFlags for every set of contexts and every bound.    *)
(***************************************************************************)
EXTENDS Flags, TLAPS

QuietWhenShut == ~MayAsk => ~timer

\* The inductive invariant.  A poll callback that holds the only promise to set
\* the timer again awaits a request, which settles into schedulePoll.
Inv == TypeOK /\ PollGoesOn /\ QuietWhenShut

LEMMA AskedContext ==
  ASSUME TypeOK, NEW may \in BOOLEAN, NEW c \in Contexts
  PROVE  /\ Refreshed(may, c) \in MaybeContext
         /\ InFlight => Refreshed(may, c) = request
         /\ ~InFlight /\ may => Refreshed(may, c) = c /\ c # NoContext
         /\ ~InFlight /\ ~may => Refreshed(may, c) = request
BY FlagsAssumption DEF TypeOK, Refreshed, MaybeContext, InFlight

LEMMA LoadedContext ==
  ASSUME TypeOK, NEW c \in Contexts, NEW else \in MaybeContext
  PROVE  Loaded(c, else) \in MaybeContext
BY DEF TypeOK, Loaded, Entry

LEMMA InitInv == Init => Inv
<1> SUFFICES ASSUME Init PROVE Inv
  OBVIOUS
<1>1. NoEntry \in Entry /\ NoContext \in MaybeContext
  BY DEF NoEntry, Entry, MaybeContext
<1>2. TypeOK
  BY <1>1 DEF Init, TypeOK
<1>3. PollGoesOn /\ QuietWhenShut
  BY DEF Init, PollGoesOn, QuietWhenShut, MayAsk
<1> QED BY <1>2, <1>3 DEF Inv

\* Every step keeps the types.
LEMMA TypesKept == TypeOK /\ [Next]_vars => TypeOK'
<1> SUFFICES ASSUME TypeOK, [Next]_vars PROVE TypeOK'
  OBVIOUS
<1> DEFINE Spent == [pages : Nat, policies : Nat, sets : Nat, calls : Nat]
<1>0. MayAsk \in BOOLEAN /\ spent \in Spent /\ NoContext \in MaybeContext
  BY DEF TypeOK, MayAsk, MaybeContext
<1>1. ASSUME NEW c \in Contexts, SetContext(c) PROVE TypeOK'
  <2>1. Refreshed(MayAsk, c) \in MaybeContext /\ Loaded(c, evaluations) \in MaybeContext
    BY <1>0, AskedContext, LoadedContext DEF TypeOK
  <2>2. spent' \in Spent
    BY <1>0, <1>1 DEF SetContext
  <2> QED BY <1>1, <2>1, <2>2 DEF TypeOK, SetContext
<1>2. ASSUME NEW c \in Contexts, Reload(c) PROVE TypeOK'
  <2>1. Loaded(c, NoContext) \in MaybeContext
    BY <1>0, LoadedContext
  <2>2. spent' \in Spent
    BY <1>0, <1>2 DEF Reload
  <2> QED BY <1>0, <1>2, <2>1, <2>2 DEF TypeOK, Reload
<1>3. ASSUME NEW on \in BOOLEAN, PolicyUpdated(on) PROVE TypeOK'
  <2>1. Refreshed(TRUE, context) \in MaybeContext /\ Loaded(context, evaluations) \in MaybeContext
    BY AskedContext, LoadedContext DEF TypeOK
  <2>2. spent' \in Spent
    BY <1>0, <1>3 DEF PolicyUpdated
  <2>3. evaluations' \in MaybeContext /\ request' \in MaybeContext
    BY <1>3, <2>1 DEF TypeOK, PolicyUpdated
  <2> QED BY <1>3, <2>2, <2>3 DEF TypeOK, PolicyUpdated
<1>4. CASE TimerFires
  <2>1. Refreshed(MayAsk, context) \in MaybeContext
    BY <1>0, AskedContext DEF TypeOK
  <2>2. polling' \in BOOLEAN /\ timer' \in BOOLEAN
    BY <1>4 DEF TimerFires
  <2> QED BY <1>4, <2>1, <2>2 DEF TypeOK, TimerFires
<1>5. CASE Call
  <2>1. Refreshed(TRUE, context) \in MaybeContext
    BY AskedContext DEF TypeOK
  <2>2. spent' \in Spent /\ waiting' \in Nat
    BY <1>0, <1>5 DEF Call, TypeOK
  <2> QED BY <1>5, <2>1, <2>2 DEF TypeOK, Call
<1>6. CASE CallTimesOut
  <2>1. waiting' \in Nat
    BY <1>6 DEF CallTimesOut, TypeOK
  <2> QED BY <1>6, <2>1 DEF TypeOK, CallTimesOut
<1>7. CASE Answered \/ Failed
  <2>1. timer' \in BOOLEAN
    BY <1>7 DEF Answered, Failed, Settle, SchedulePoll, MayAsk, TypeOK
  <2>2. evaluations' \in MaybeContext
    BY <1>7 DEF Answered, Failed, TypeOK
  <2>3. cache' \in Entry
    BY <1>7 DEF Answered, Failed, TypeOK, Entry, MaybeContext
  <2>4. Settle
    BY <1>7 DEF Answered, Failed
  <2>5. request' \in MaybeContext /\ waiting' \in Nat /\ polling' \in BOOLEAN
    BY <1>0, <2>4 DEF Settle
  <2> QED BY <2>1, <2>2, <2>3, <2>4, <2>5 DEF Settle, TypeOK
<1>8. CASE Close
  BY <1>8 DEF Close, StopTimer, TypeOK
<1>9. CASE UNCHANGED vars
  BY <1>9 DEF vars, TypeOK
<1> QED BY <1>1, <1>2, <1>3, <1>4, <1>5, <1>6, <1>7, <1>8, <1>9 DEF Next

LEMMA NextInv == Inv /\ [Next]_vars => Inv'
<1> SUFFICES ASSUME Inv, [Next]_vars, TypeOK' PROVE (PollGoesOn /\ QuietWhenShut)'
  BY TypesKept DEF Inv
<1> USE DEF PollGoesOn, QuietWhenShut
<1>0. TypeOK /\ PollGoesOn /\ QuietWhenShut /\ MayAsk \in BOOLEAN
  BY DEF Inv, MayAsk, TypeOK
<1>1. ASSUME NEW c \in Contexts, SetContext(c) PROVE (PollGoesOn /\ QuietWhenShut)'
  <2>1. InFlight => InFlight'
    BY <1>0, <1>1, AskedContext DEF SetContext, InFlight
  <2> QED BY <1>0, <1>1, <2>1 DEF SetContext, MayAsk
<1>2. ASSUME NEW c \in Contexts, Reload(c) PROVE (PollGoesOn /\ QuietWhenShut)'
  BY <1>2 DEF Reload, MayAsk
<1>3. ASSUME NEW on \in BOOLEAN, PolicyUpdated(on) PROVE (PollGoesOn /\ QuietWhenShut)'
  BY <1>3 DEF PolicyUpdated, MayAsk
<1>4. CASE TimerFires
  <2>1. CASE InFlight
    BY <1>0, <1>4, <2>1 DEF TimerFires, MayAsk
  <2>2. CASE ~InFlight /\ MayAsk
    <3>1. request' = context /\ context # NoContext
      BY <1>0, <1>4, <2>2, AskedContext DEF TimerFires, TypeOK
    <3>2. polling' /\ ~timer' /\ InFlight'
      BY <1>4, <2>2, <3>1 DEF TimerFires, InFlight
    <3> QED BY <3>2
  <2>3. CASE ~InFlight /\ ~MayAsk
    BY <1>0, <1>4, <2>3 DEF TimerFires
  <2> QED BY <1>0, <2>1, <2>2, <2>3
<1>5. CASE Call
  <2>1. InFlight => InFlight'
    BY <1>0, <1>5, AskedContext DEF Call, InFlight, TypeOK
  <2> QED BY <1>0, <1>5, <2>1 DEF Call, MayAsk
<1>6. CASE CallTimesOut
  BY <1>0, <1>6 DEF CallTimesOut, MayAsk, InFlight
<1>7. CASE Answered \/ Failed
  <2>1. Settle
    BY <1>7 DEF Answered, Failed
  <2>2. timer' = (IF polling THEN MayAsk ELSE timer) /\ MayAsk' = MayAsk
    BY <2>1 DEF Settle, SchedulePoll, MayAsk
  <2>3. CASE polling
    BY <1>0, <2>2, <2>3
  <2>4. CASE ~polling
    BY <1>0, <2>2, <2>4
  <2> QED BY <2>3, <2>4
<1>8. CASE Close
  BY <1>8 DEF Close, StopTimer, MayAsk
<1>9. CASE UNCHANGED vars
  BY <1>0, <1>9 DEF vars, MayAsk, InFlight
<1> QED BY <1>1, <1>2, <1>3, <1>4, <1>5, <1>6, <1>7, <1>8, <1>9 DEF Next

\* Inv holds in every reachable state of the flags client.
THEOREM Invariance == SafeSpec => []Inv
BY InitInv, NextInv, PTL DEF SafeSpec

-----------------------------------------------------------------------------
\* TalariaFlags' fields keep their types.
THEOREM TypeCorrect == SafeSpec => []TypeOK
<1>1. Inv => TypeOK
  BY DEF Inv
<1> QED BY <1>1, Invariance, PTL

\* While flags are on there is always a timer, or a poll callback in an await
\* that ends in schedulePoll: polling does not die out.
THEOREM PollingGoesOn == SafeSpec => []PollGoesOn
<1>1. Inv => PollGoesOn
  BY DEF Inv
<1> QED BY <1>1, Invariance, PTL

\* A closed or disabled TalariaFlags starts no request and leaves no timer.
THEOREM ShutStaysQuiet == SafeSpec => ShutIsQuiet
<1> DEFINE Quiet == /\ ~MayAsk' => ~timer'
                    /\ InFlight' /\ ~InFlight => MayAsk'
<1>1. ASSUME Inv, Inv', [Next]_vars PROVE Quiet
  <2>0. TypeOK /\ MayAsk \in BOOLEAN
    BY <1>1 DEF Inv, TypeOK, MayAsk
  <2>1. ~MayAsk' => ~timer'
    BY <1>1 DEF Inv, QuietWhenShut
  <2>2. ASSUME InFlight', ~InFlight PROVE MayAsk'
    <3>1. ASSUME NEW c \in Contexts, SetContext(c) PROVE MayAsk'
      BY <2>0, <2>2, <3>1, AskedContext DEF SetContext, MayAsk, InFlight
    <3>2. ASSUME NEW c \in Contexts, Reload(c) PROVE MayAsk'
      BY <2>2, <3>2 DEF Reload, InFlight
    <3>3. ASSUME NEW on \in BOOLEAN, PolicyUpdated(on) PROVE MayAsk'
      BY <2>2, <3>3 DEF PolicyUpdated, MayAsk, InFlight
    <3>4. CASE TimerFires
      BY <2>0, <2>2, <3>4, AskedContext DEF TimerFires, MayAsk, InFlight, TypeOK
    <3>5. CASE Call
      BY <3>5 DEF Call, MayAsk
    <3>6. CASE CallTimesOut \/ Answered \/ Failed \/ Close \/ UNCHANGED vars
      BY <2>2, <3>6 DEF CallTimesOut, Answered, Failed, Settle, Close, vars, InFlight
    <3> QED BY <1>1, <3>1, <3>2, <3>3, <3>4, <3>5, <3>6 DEF Next
  <2> QED BY <2>1, <2>2
<1> QED BY <1>1, Invariance, PTL DEF SafeSpec, ShutIsQuiet
=============================================================================
