------------------------------ MODULE Limiter ------------------------------
(***************************************************************************)
(* What a concurrency limiter promises to its clients: at most Limit of    *)
(* them are inside at any time, a client that asked to enter may wait or   *)
(* give up, and every client that enters leaves by itself.  It is the      *)
(* abstract specification that the CAS-and-channel semaphore of            *)
(* resolver/internal/throttler/semaphore.go implements (module Semaphore). *)
(***************************************************************************)
EXTENDS Integers, FiniteSets

CONSTANTS Clients,      \* the callers
          Limit         \* how many of them may be inside

VARIABLE where          \* where[c]: outside, waiting to enter, or inside

Places == {"outside", "waiting", "inside"}

Inside == {c \in Clients : where[c] = "inside"}

Init == where = [c \in Clients |-> "outside"]

Request(c) ==
    /\ where[c] = "outside"
    /\ where' = [where EXCEPT ![c] = "waiting"]

GiveUp(c) ==
    /\ where[c] = "waiting"
    /\ where' = [where EXCEPT ![c] = "outside"]

Enter(c) ==
    /\ where[c] = "waiting"
    /\ Cardinality(Inside) < Limit
    /\ where' = [where EXCEPT ![c] = "inside"]

Leave(c) ==
    /\ where[c] = "inside"
    /\ where' = [where EXCEPT ![c] = "outside"]

Next == \E c \in Clients : Request(c) \/ GiveUp(c) \/ Enter(c) \/ Leave(c)

Spec == Init /\ [][Next]_where
=============================================================================
