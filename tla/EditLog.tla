------------------------------- MODULE EditLog -------------------------------
(* What a state file promises its callers: a set of edits that only grows,    *)
(* one edit at a time, of which a power failure may take back only edits that *)
(* were never acknowledged.                                                   *)
EXTENDS Naturals

CONSTANT Edits

VARIABLES value, acked

Init == value = {} /\ acked = {}

Apply(e) ==
    /\ e \notin value
    /\ value' = value \cup {e}
    /\ UNCHANGED acked

Acknowledge(e) ==
    /\ e \in value
    /\ acked' = acked \cup {e}
    /\ UNCHANGED value

Forget ==
    /\ acked \subseteq value' /\ value' \subseteq value
    /\ UNCHANGED acked

Next == Forget \/ \E e \in Edits : Apply(e) \/ Acknowledge(e)

Spec == Init /\ [][Next]_<<value, acked>>
=============================================================================
