---------------------------- MODULE MCNodeTracer ----------------------------
(***************************************************************************)
(* Requests are interchangeable, and so are queries.  The query switch     *)
(* only decides whether a query begins.  Bound: while a call of            *)
(* withoutQuerySpans is open, no outgoing call is under way and the tracer *)
(* is on.  (An outgoing call never looks at the switch, and a tracer that  *)
(* is off begins no query.)                                                *)
(***************************************************************************)
EXTENDS NodeTracer, TLC

Symmetry == Permutations(Requests) \union Permutations(Queries)

Apart ==
  scopes # <<>> => ~disabled /\ \A c \in Calls : calls[c] \in {"new", "done"}
==============================================================================
