---------------------------- MODULE MCController ----------------------------
(* The controller with a few informers and resolver addresses. *)
EXTENDS Controller

CONSTANTS w1, w2, a1, a2
=============================================================================
