-------------------------------- MODULE Gate --------------------------------
(***************************************************************************)
(* What the breaker of resolver/internal/throttler/breaker.go promises to  *)
(* the callers of Maybe, which module Breaker implements: at most Slots of *)
(* them are inside, at most Permits of these run, and a caller is refused  *)
(* only if no slot is left.  A caller that leaves may take its slot with   *)
(* it for good, but only if another call took or gave back a slot while it *)
(* was leaving.                                                            *)
(***************************************************************************)
EXTENDS Integers, FiniteSets

CONSTANTS Callers,
          Slots,        \* how many callers may be inside
          Permits       \* how many of them may run

VARIABLES place,        \* place[c]: where caller c is
          leaked,       \* slots that left with their callers
          disturbed     \* callers on their way out that may take their slot with them

gateVars == <<place, leaked, disturbed>>

On(P) == {c \in Callers : place[c] \in P}

Running == On({"running"})
Leaving == On({"leaving"})

(* The slots that are not free. *)
Taken == Cardinality(On({"waiting", "running", "leaving"})) + leaked

Init ==
    /\ place = [c \in Callers |-> "outside"]
    /\ leaked = 0
    /\ disturbed = {}

-----------------------------------------------------------------------------
Go(c, from, to) == place[c] = from /\ place' = [place EXCEPT ![c] = to]

Ask(c) == Go(c, "outside", "asking") /\ UNCHANGED <<leaked, disturbed>>

Refuse(c) == Taken >= Slots /\ Go(c, "asking", "outside") /\ UNCHANGED <<leaked, disturbed>>

Enter(c) ==
    /\ Taken < Slots
    /\ Go(c, "asking", "waiting")
    /\ disturbed' \in SUBSET Leaving
    /\ UNCHANGED leaked

Run(c) ==
    /\ Cardinality(Running) < Permits
    /\ Go(c, "waiting", "running")
    /\ UNCHANGED <<leaked, disturbed>>

(* The context ends while the caller waits, or its thunk is over. *)
Finish(c) == (Go(c, "waiting", "leaving") \/ Go(c, "running", "leaving")) /\ UNCHANGED <<leaked, disturbed>>

GiveBack(c) ==
    /\ c \notin disturbed
    /\ Go(c, "leaving", "outside")
    /\ disturbed' \in SUBSET (Leaving \ {c})
    /\ UNCHANGED leaked

Leak(c) ==
    /\ c \in disturbed
    /\ Go(c, "leaving", "outside")
    /\ leaked' = leaked + 1
    /\ disturbed' = disturbed \ {c}

Next == \E c \in Callers : Ask(c) \/ Refuse(c) \/ Enter(c) \/ Run(c) \/ Finish(c) \/ GiveBack(c) \/ Leak(c)

GateSpec == Init /\ [][Next]_gateVars
=============================================================================
