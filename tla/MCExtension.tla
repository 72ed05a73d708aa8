----------------------------- MODULE MCExtension -----------------------------
(***************************************************************************)
(* Two tabs and two enrolled origins, one of which accepts knocks and      *)
(* goes on denying (the grant cookie is dropped).                          *)
(***************************************************************************)
EXTENDS Extension

MCGate == [a |-> "lossy", b |-> "honest", c |-> "honest"]
MCOrigin == DOMAIN MCGate
=============================================================================
