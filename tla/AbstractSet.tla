------------------------------ MODULE AbstractSet ------------------------------
(* What a hash set promises: a set that one call at a time changes.              *)
CONSTANT Keys
VARIABLE members

Init == members = {}

Add(k) == members' = members \cup {k}
Remove(k) == members' = members \ {k}

Next == \E k \in Keys : Add(k) \/ Remove(k)

Spec == Init /\ [][Next]_members
================================================================================
