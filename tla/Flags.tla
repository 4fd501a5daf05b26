-------------------------------- MODULE Flags --------------------------------
(***************************************************************************)
(* TalariaFlags of packages/core/src/flags/flags_client.ts: the feature    *)
(* flags of the current visitor, evaluated by the server for a targeting   *)
(* context (anonymous id, user, organization, attributes) and cached in    *)
(* storage under the fingerprint of that context.  The context changes,    *)
(* the project policy turns flags on and off, the poll timer fires and the *)
(* page is reloaded while an evaluate request is in flight, and only one   *)
(* request is ever in flight.                                              *)
(*                                                                         *)
(* Evaluations are represented by the context they were evaluated for, and *)
(* a fingerprint by the context it was computed from (user or organization *)
(* ids with the separator in them are left aside).                         *)
(***************************************************************************)
EXTENDS Integers

CONSTANTS
  Contexts,     \* targeting contexts
  NoContext,    \* no evaluations, no request, no cache entry
  MaxPages,     \* bound: page loads
  MaxPolicies,  \* bound: policy documents applied on a page
  MaxSets,      \* bound: setContext calls on a page
  MaxCalls      \* bound: variation calls that wait on a page

ASSUME FlagsAssumption ==
  /\ NoContext \notin Contexts
  /\ {MaxPages, MaxPolicies, MaxSets, MaxCalls} \subseteq Nat

VARIABLES
  context,      \* what contextFingerprint would read now
  enabled,      \* the policy has flags on
  closed,
  evaluations,  \* the context the map was evaluated for, or NoContext
  cache,        \* storage: fingerprint, and the context of what it holds
  request,      \* inFlight: the context asked for, or NoContext
  timer,        \* whether the poll timer is set
  polling,      \* whether a poll callback awaits the request it made
  waiting,      \* variation calls that await the request or their timeout
  spent         \* bounds used: page loads; on this page, the other three

vars == <<context, enabled, closed, evaluations, cache, request, timer, polling,
          waiting, spent>>

MaybeContext == Contexts \union {NoContext}
Entry == [fingerprint : MaybeContext, of : MaybeContext]
NoEntry == [fingerprint |-> NoContext, of |-> NoContext]

InFlight == request # NoContext

\* The condition refresh, reload and schedulePoll ask first.
MayAsk == enabled /\ ~closed

\* loadCacheForCurrentContext: an entry of another context is ignored, and what
\* the map holds stays.
Loaded(c, else) == IF cache.fingerprint = c THEN cache.of ELSE else

\* refresh up to its await: one request at a time.
Refreshed(may, c) == IF may /\ ~InFlight THEN c ELSE request

-----------------------------------------------------------------------------
Init ==
  /\ context \in Contexts
  /\ enabled = FALSE
  /\ closed = FALSE
  /\ evaluations = NoContext
  /\ cache = NoEntry
  /\ request = NoContext
  /\ timer = FALSE
  /\ polling = FALSE
  /\ waiting = 0
  /\ spent = [pages |-> 1, policies |-> 0, sets |-> 0, calls |-> 0]

\* setContext; with the context as it is, reload.
SetContext(c) ==
  /\ spent.sets < MaxSets
  /\ spent' = [spent EXCEPT !.sets = @ + 1]
  /\ context' = c
  /\ evaluations' = Loaded(c, evaluations)
  /\ request' = Refreshed(MayAsk, c)
  /\ UNCHANGED <<enabled, closed, cache, timer, polling, waiting>>

\* onPolicyUpdated, just after the host has changed what isEnabled returns.
PolicyUpdated(on) ==
  /\ ~closed
  /\ spent.policies < MaxPolicies
  /\ spent' = [spent EXCEPT !.policies = @ + 1]
  /\ enabled' = on
  /\ timer' = on
  /\ IF on THEN /\ evaluations' = Loaded(context, evaluations)
                /\ request' = Refreshed(TRUE, context)
           ELSE UNCHANGED <<evaluations, request>>
  /\ UNCHANGED <<context, closed, cache, polling, waiting>>

\* Mutant: a poll that finds a request in flight does not set the timer again.
TimerFiresOnce ==
  /\ timer
  /\ request' = Refreshed(MayAsk, context)
  /\ polling' = (polling \/ (MayAsk /\ ~InFlight))
  /\ timer' = FALSE
  /\ UNCHANGED <<context, enabled, closed, evaluations, cache, waiting, spent>>

\* The callback of the poll timer: it awaits the request it makes; if one is in
\* flight already it is not awaited, and the timer is set again at once.
TimerFires ==
  /\ timer
  /\ request' = Refreshed(MayAsk, context)
  /\ polling' = (polling \/ (MayAsk /\ ~InFlight))
  /\ timer' = (MayAsk /\ InFlight)
  /\ UNCHANGED <<context, enabled, closed, evaluations, cache, waiting, spent>>

\* resolve of a flag that is not in the map, with a request in flight or an
\* empty map: ensureStarted waits for the request, or makes one.
Call ==
  /\ MayAsk
  /\ InFlight \/ evaluations = NoContext
  /\ spent.calls < MaxCalls
  /\ spent' = [spent EXCEPT !.calls = @ + 1]
  /\ waiting' = waiting + 1
  /\ request' = Refreshed(TRUE, context)
  /\ UNCHANGED <<context, enabled, closed, evaluations, cache, timer, polling>>

\* Mutant: a call waits for the request however long it takes.
NoTimeout == FALSE /\ UNCHANGED vars
\* withTimeout: three seconds have passed, the call returns its default.
CallTimesOut ==
  /\ waiting > 0
  /\ waiting' = waiting - 1
  /\ UNCHANGED <<context, enabled, closed, evaluations, cache, request, timer,
                 polling, spent>>

\* Mutant: a poll that ends does not set the timer again.
Stops == UNCHANGED timer
\* schedulePoll, after a poll callback's refresh.
SchedulePoll == timer' = IF polling THEN MayAsk ELSE timer

\* The finally of refresh, and what its promise wakes.
Settle ==
  /\ InFlight
  /\ request' = NoContext
  /\ SchedulePoll
  /\ polling' = FALSE
  /\ waiting' = 0
  /\ UNCHANGED <<context, enabled, closed, spent>>

\* The evaluations arrive; storage may refuse the entry.
Answered ==
  /\ Settle
  /\ evaluations' = request
  /\ \/ cache' = [fingerprint |-> context, of |-> request]
     \/ UNCHANGED cache

Failed == Settle /\ UNCHANGED <<evaluations, cache>>

\* Mutant: close forgets the timer.
KeepTimer == UNCHANGED timer
StopTimer == timer' = FALSE

Close ==
  /\ ~closed
  /\ closed' = TRUE
  /\ StopTimer
  /\ UNCHANGED <<context, enabled, evaluations, cache, request, polling, waiting,
                 spent>>

\* A new page, with a client of its own over the same storage.
Reload(c) ==
  /\ spent.pages < MaxPages
  /\ spent' = [pages |-> spent.pages + 1, policies |-> 0, sets |-> 0, calls |-> 0]
  /\ context' = c
  /\ enabled' = FALSE
  /\ closed' = FALSE
  /\ evaluations' = Loaded(c, NoContext)
  /\ request' = NoContext
  /\ timer' = FALSE
  /\ polling' = FALSE
  /\ waiting' = 0
  /\ UNCHANGED cache

Next ==
  \/ \E c \in Contexts : SetContext(c) \/ Reload(c)
  \/ \E on \in BOOLEAN : PolicyUpdated(on)
  \/ TimerFires
  \/ Call \/ CallTimesOut
  \/ Answered \/ Failed
  \/ Close

SafeSpec == Init /\ [][Next]_vars

\* Timers fire.  A request has no timeout and may hang.
Spec == SafeSpec /\ WF_vars(TimerFires) /\ WF_vars(CallTimesOut)

-----------------------------------------------------------------------------
TypeOK ==
  /\ context \in Contexts
  /\ {enabled, closed, timer, polling} \subseteq BOOLEAN
  /\ {evaluations, request} \subseteq MaybeContext
  /\ cache \in Entry
  /\ waiting \in Nat
  /\ spent \in [pages : Nat, policies : Nat, sets : Nat, calls : Nat]

\* While flags are on, polling never dies out: the timer is set, or the callback
\* that will set it awaits its request.  (The callback clears itself, the policy
\* and close clear the timer under it, and a poll may find a request in flight.)
PollGoesOn ==
  MayAsk => timer \/ (polling /\ InFlight)

\* A client that is closed or turned off asks nothing and leaves no timer.
ShutIsQuiet ==
  [][/\ ~MayAsk' => ~timer'
     /\ InFlight' /\ ~InFlight => MayAsk']_vars

\* A variation call returns though the request it waits for hangs.
AnswersInTime == waiting > 0 ~> waiting = 0

\* If requests keep being answered, the flags become those of the context that
\* lasts, whatever answers for earlier contexts were stored and cached meanwhile.
FollowsTheContext ==
  \A c \in Contexts :
    SF_vars(Answered) /\ <>[](MayAsk /\ context = c) => <>[](evaluations = c)

=============================================================================
