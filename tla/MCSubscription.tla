--------------------------- MODULE MCSubscription ---------------------------
(* Instances of Subscription for TLC. *)
EXTENDS Subscription, TLC

CONSTANTS s1, s2

Interchangeable == Permutations({s1, s2})
=============================================================================
