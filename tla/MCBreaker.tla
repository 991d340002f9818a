----------------------------- MODULE MCBreaker -----------------------------
(* The breaker with three concurrent calls. *)
EXTENDS Breaker, TLC

CONSTANTS g1, g2, g3

(* Goroutines are interchangeable where only safety is checked. *)
Symmetry == Permutations(Goroutines)
=============================================================================
