------------------------------ MODULE MCNetwork ------------------------------
(* Two requests to one URL of the page, which may change places, one to an    *)
(* origin that is listed, and one that is ignored; an error that sounds like  *)
(* a failed fetch (others only set capturing, as a rejection can).            *)
EXTENDS Network

CONSTANTS a1, a2

MCRequests == {a1, a2, "b", "i"}
MCFirstParty == {a1, a2, "i"}
MCListed == {"b"}
MCIgnored == {"i"}
MCUrl == [r \in MCRequests |-> IF r \in {"b", "i"} THEN r ELSE "a"]
MCErrors == {"m"}
MCLikely == {"m"}
Symmetry == {[r \in {a1, a2} |-> r], [r \in {a1, a2} |-> IF r = a1 THEN a2 ELSE a1]}
==============================================================================
