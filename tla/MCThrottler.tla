---------------------------- MODULE MCThrottler -----------------------------
(* Requests to services of one name, in one or two namespaces. *)
EXTENDS Throttler, TLC

CONSTANTS r1, r2, r3, s1, s2, g1, g2, n1

OneName == [s \in Services |-> n1]

SymmetricRequests == Permutations(Requests)
=============================================================================
