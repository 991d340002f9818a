------------------------- MODULE MCInformerManager --------------------------
(* Two ElastiServices, the name of the second beginning with that of the first.   *)
(* No step tells one target from another, and what a key stands for is its own     *)
(* ElastiService's: it is no restriction that they name the same target at first.  *)
EXTENDS InformerManager

CONSTANTS c1, c2, t1, t2

Prefixes == [c \in Services |-> IF c = c1 THEN Services ELSE {c}]
AllFirst == [c \in Services |-> t1]
=============================================================================
