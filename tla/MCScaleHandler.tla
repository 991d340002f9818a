--------------------------- MODULE MCScaleHandler ---------------------------
(* Scale jobs on one service, with each kind of autoscaler. *)
EXTENDS ScaleHandler, TLC

CONSTANTS s1, h1

Answer(metric) == [supported |-> TRUE, uptime |-> "up", metric |-> metric]

IdleTrigger        == Answer("below")
UnhealthyTrigger   == [IdleTrigger EXCEPT !.uptime = "down"]
UnsupportedTrigger == [IdleTrigger EXCEPT !.supported = FALSE]

(* No triggers, no traffic, traffic on the second trigger, and the ways in   *)
(* which a trigger says nothing about traffic.                               *)
SomeTriggers ==
    {<<>>, <<IdleTrigger>>, <<UnhealthyTrigger, Answer("atOrAbove")>>}
        \cup {<<IdleTrigger, t>> : t \in {Answer("atOrAbove"), Answer("minusOne"),
                                         Answer("error"), UnsupportedTrigger}}
=============================================================================
