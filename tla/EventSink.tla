----------------------------- MODULE EventSink -----------------------------
(***************************************************************************)
(* What a Talaria telemetry queue promises to the code that calls it,      *)
(* whatever its timers, batches and promise chains do: an event that is    *)
(* accepted is pending until it leaves; events leave oldest first; nothing *)
(* is accepted while the queue is closed, and closing it forgets the       *)
(* events that are not on the wire yet.  EventQueue (core's                *)
(* EventIngestQueue) and Analytics (core's AnalyticsFacade) are shown to   *)
(* implement it.                                                           *)
(*                                                                         *)
(* Leaving is not delivery: both queues send a batch once and drop it when *)
(* the request fails.                                                      *)
(***************************************************************************)
EXTENDS Integers

VARIABLES
  pending,   \* numbers of the events accepted that have not left
  count,     \* how many events were accepted so far; an event's number
  open       \* whether an event offered now would be accepted

sinkVars == <<pending, count, open>>

UpTo(k) == {e \in pending : e <= k}
After(k) == {e \in pending : e > k}

Init ==
  /\ pending = {}
  /\ count = 0
  /\ open \in BOOLEAN

Accept ==
  /\ open
  /\ count' = count + 1
  /\ pending' = pending \union {count'}
  /\ UNCHANGED open

\* The oldest events leave: delivered, or lost by the one attempt.
Leave ==
  /\ pending # {}
  /\ \E k \in pending : pending' = After(k)
  /\ UNCHANGED <<count, open>>

\* Closing drops every event that is not being sent at that moment.
Close ==
  /\ open' = FALSE
  /\ \E k \in pending \union {0} : pending' = UpTo(k)
  /\ UNCHANGED count

Reopen ==
  /\ ~open
  /\ open' = TRUE
  /\ UNCHANGED <<pending, count>>

Next == Accept \/ Leave \/ Close \/ Reopen

SafeSpec == Init /\ [][Next]_sinkVars

Spec == SafeSpec /\ WF_sinkVars(Leave)
=============================================================================
