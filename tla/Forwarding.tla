----------------------------- MODULE Forwarding -----------------------------
(***************************************************************************)
(* What the resolver promises the client of a request: it is held, and     *)
(* then either refused, and the target has not seen it, or sent to the     *)
(* target, once, and answered with what came of that.  Throttler is shown  *)
(* to implement this, and HostManager is built on it.                      *)
(***************************************************************************)
CONSTANT Requests

VARIABLE phase      \* phase[r]: where r is

Phases == {"outside", "held", "sent", "answered", "refused"}

FwdInit == phase = [r \in Requests |-> "outside"]

Move(r, from, to) == phase[r] = from /\ phase' = [phase EXCEPT ![r] = to]

Hold(r) == Move(r, "outside", "held")
Refuse(r) == Move(r, "held", "refused")
Send(r) == Move(r, "held", "sent")
Answer(r) == Move(r, "sent", "answered")

FwdNext == \E r \in Requests : Hold(r) \/ Refuse(r) \/ Send(r) \/ Answer(r)

FwdSpec == FwdInit /\ [][FwdNext]_phase

(* Nothing is promised of which it will be, but no request is held for ever. *)
FwdLive == \A r \in Requests : phase[r] \in {"held", "sent"} ~> phase[r] \in {"answered", "refused"}
=============================================================================
