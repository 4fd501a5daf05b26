------------------------------ MODULE MCPolicy ------------------------------
(* Policy with four documents: everything on, everything off, a project that *)
(* was removed, and one that names no replay.                                *)
EXTENDS Policy

MCDocuments ==
  {[active |-> TRUE, tracing |-> TRUE, analytics |-> TRUE, replay |-> "on"],
   [active |-> TRUE, tracing |-> FALSE, analytics |-> FALSE, replay |-> "off"],
   [active |-> FALSE, tracing |-> FALSE, analytics |-> FALSE, replay |-> "absent"],
   [active |-> TRUE, tracing |-> TRUE, analytics |-> FALSE, replay |-> "absent"]}
=============================================================================
