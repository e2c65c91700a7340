-------------------------- MODULE MCSubscriptions --------------------------
(* Instances of Subscriptions for TLC. *)
EXTENDS Subscriptions, TLC

CONSTANTS p1, p2, c1, c2

\* Two processes with one call each.
Separate == c1 :> p1 @@ c2 :> p2
=============================================================================
