--------------------------- MODULE MCReplayUpload ---------------------------
(* ReplayUpload for the run about consent: where replay is off and no policy *)
(* document can come to switch it on, EnsureStarted never asks the server    *)
(* for a replay again, and the run looks no further.                         *)
EXTENDS ReplayUpload

MayStart == ~(client.disabled /\ page.policy = "settled")
=============================================================================
