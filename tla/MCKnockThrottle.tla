--------------------------- MODULE MCKnockThrottle ---------------------------
(***************************************************************************)
(* Instances of KnockThrottle for TLC: one entry of room for two buckets,  *)
(* so that each attempt at the other bucket needs the table swept.         *)
(***************************************************************************)
EXTENDS KnockThrottle, TLC

Attempts == Permutations(Attempt)
=============================================================================
