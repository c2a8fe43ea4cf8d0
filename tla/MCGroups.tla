------------------------------ MODULE MCGroups ------------------------------
(* Two connections, one user.                                               *)
EXTENDS Groups, TLC

CONSTANTS c1, c2, d, a, b, p1, p2, r1, k1, k2, u

MCOwner == [k \in {k1, k2} |-> u]
MCSymmetry == Permutations({c1, c2}) \cup Permutations({a, b}) \cup Permutations({k1, k2})
=============================================================================
