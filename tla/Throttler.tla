----------------------------- MODULE Throttler ------------------------------
(***************************************************************************)
(* Throttler.Try of resolver/internal/throttler/throttler.go with the part *)
(* of handleAnyRequest and ProxyRequest around it, and the client that     *)
(* tells the operator (module OperatorRPC).                                *)
(*                                                                         *)
(* Each request is a goroutine whose host lets traffic through (module     *)
(* HostManager has the rest of its life).  It counts itself into the queue *)
(* size of its service and goes round a loop: it enters the breaker, looks *)
(* whether the target is ready, and either is forwarded or sleeps, keeping *)
(* its permit, and tries again.                                            *)
(*                                                                         *)
(* The breaker is its promise (module Gate, which Breaker implements): at  *)
(* most Permits requests run, at most Slots are inside, and slots may be   *)
(* lost.  The end of a request's context is seen at two places, GiveUp and *)
(* EndThunk; each leaves the loop, so it is a choice made there.           *)
(***************************************************************************)
EXTENDS OperatorRPC

CONSTANTS Requests,
          Permits,      \* InitialCapacity of the breaker
          Slots,        \* its QueueDepth + MaxConcurrency
          MaxDowns      \* bound: how often a target goes down

ASSUME ThrottlerAssumption ==
    /\ IsFiniteSet(Requests)
    /\ Permits \in Nat \ {0} /\ Slots \in Nat \ {0} /\ MaxDowns \in Nat

VARIABLES up,           \* up[s]: the private service of s has a ready endpoint
          downs,        \* how often a target went down
          ready,        \* serviceReadyMap: s is in the map
          readyTimers,  \* readyTimers[s]: timers that will delete it
          queueSize,    \* queueSizeMap
          raced,        \* raced[s]: two updates of queueSize[s] have overlapped (history)
          pc, svc,      \* pc[r]: the next step of r; svc[r]: its service
          size,         \* size[r]: the queue size it loaded; 0 when it has none
          failed,       \* failed[r]: tryErr or breakErr is not nil
          response      \* response[r]: who wrote the response to its client

targetVars == <<up, downs>>
readyVars == <<ready, readyTimers>>
queueVars == <<queueSize, raced>>
vars == <<targetVars, readyVars, queueVars, pc, svc, size, failed, response, rpcVars>>

Counting == {"incStore", "decStore"}        \* between the load and the store of a queue size
Running == {"fetch", "proxying", "sleep"}   \* with a permit
Inside == {"wait"} \cup Running             \* in Maybe
Labels == Counting \cup Inside \cup {"idle", "maybe", "decLoad", "done"}

At(L) == {r \in Requests : pc[r] \in L}

Init ==
    /\ RPCInit
    /\ up \in [Services -> BOOLEAN] /\ downs = 0
    /\ ready = [s \in Services |-> FALSE] /\ readyTimers = [s \in Services |-> 0]
    /\ queueSize = [s \in Services |-> 0] /\ raced = [s \in Services |-> FALSE]
    /\ pc = [r \in Requests |-> "idle"]
    /\ svc \in [Requests -> Services]
    /\ size = [r \in Requests |-> 0]
    /\ failed = [r \in Requests |-> FALSE]
    /\ response = [r \in Requests |-> "none"]

-----------------------------------------------------------------------------
Goto(r, label) == pc' = [pc EXCEPT ![r] = label]
Fail(r, b) == failed' = [failed EXCEPT ![r] = b]

(* The client gets the status that is written first. *)
Respond(r, who) == response' = [response EXCEPT ![r] = IF @ = "none" THEN who ELSE @]

(* GetQueueSize, for incrementQueueSize and decrementQueueSize. *)
LoadSize(r) ==
    /\ size' = [size EXCEPT ![r] = queueSize[svc[r]]]
    /\ raced' = [raced EXCEPT ![svc[r]] = @ \/ \E q \in At(Counting) : svc[q] = svc[r]]
    /\ UNCHANGED queueSize

(* Mutant: the map, which takes any value, gets the key in place of the size. *)
StoreSizeKey(r, n) ==
    /\ queueSize' = [queueSize EXCEPT ![svc[r]] = svc[r]]
    /\ size' = [size EXCEPT ![r] = 0]
    /\ UNCHANGED raced

(* Their Store. *)
StoreSize(r, n) ==
    /\ queueSize' = [queueSize EXCEPT ![svc[r]] = n]
    /\ size' = [size EXCEPT ![r] = 0]
    /\ UNCHANGED raced

(* handleAnyRequest: the operator is told, and Try begins. *)
CallTry(r) ==
    /\ pc[r] = "idle"
    /\ Goto(r, "incStore")
    /\ Spawn(svc[r])
    /\ LoadSize(r)
    /\ UNCHANGED <<targetVars, readyVars, svc, failed, response>>

StoreIncrement(r) ==
    /\ pc[r] = "incStore"
    /\ StoreSize(r, size[r] + 1)
    /\ Goto(r, "maybe")
    /\ UNCHANGED <<targetVars, readyVars, svc, failed, response, rpcVars>>

(* The deferred decrement at the end of Try. *)
LoadDecrement(r) ==
    /\ pc[r] = "decLoad"
    /\ LoadSize(r)
    /\ Goto(r, "decStore")
    /\ UNCHANGED <<targetVars, readyVars, svc, failed, response, rpcVars>>

(* Its Store; handleAnyRequest then writes 408 or 500 if Try returns an error. *)
StoreDecrement(r) ==
    /\ pc[r] = "decStore"
    /\ StoreSize(r, size[r] - 1)
    /\ Goto(r, "done")
    /\ IF failed[r] THEN Respond(r, "handler") ELSE UNCHANGED response
    /\ Fail(r, FALSE)
    /\ UNCHANGED <<targetVars, readyVars, svc, rpcVars>>

(* The breaker has a slot for r; or it has none, for all are taken, or counted as  *)
(* taken since a request left the breaker at the same time as another (Leak of     *)
(* module Gate).                                                                   *)
SlotFree == Cardinality(At(Inside)) < Slots
SlotsUsedUp(r) == ~SlotFree \/ \E q \in Requests \ {r} : pc[q] \notin {"idle", "incStore"}

(* Mutant: the deferred decrement is skipped when the breaker refuses. *)
CallMaybeKeepsCount(r) ==
    /\ pc[r] = "maybe"
    /\ \/ SlotFree /\ Goto(r, "wait") /\ UNCHANGED response
       \/ SlotsUsedUp(r) /\ Goto(r, "done") /\ Respond(r, "handler")
    /\ UNCHANGED <<targetVars, readyVars, queueVars, svc, size, failed, rpcVars>>

(* The loop's next call of Maybe, which the breaker may refuse. *)
CallMaybe(r) ==
    /\ pc[r] = "maybe"
    /\ \/ SlotFree /\ Goto(r, "wait") /\ UNCHANGED failed
       \/ SlotsUsedUp(r) /\ Goto(r, "decLoad") /\ Fail(r, TRUE)
    /\ UNCHANGED <<targetVars, readyVars, queueVars, svc, size, response, rpcVars>>

(* The select at the end of the thunk finds the context ended. *)
ContextDone(r) == Goto(r, "decLoad") /\ Fail(r, TRUE)

(* Mutant: a request that failed to resolve is tried again. *)
EndThunkRetries(r, e) ==
    \/ ContextDone(r)
    \/ IF e THEN Goto(r, "sleep") /\ UNCHANGED failed
       ELSE Goto(r, "decLoad") /\ Fail(r, FALSE)

(* The thunk has found the target ready and resolve has returned, with or without *)
(* an error: the request is not enqueued again.                                    *)
EndThunk(r, e) ==
    \/ ContextDone(r)
    \/ Goto(r, "decLoad") /\ Fail(r, e)

(* It has not: the thunk sleeps, with its permit, before the next try. *)
Reenqueue(r) ==
    \/ ContextDone(r)
    \/ Goto(r, "sleep") /\ UNCHANGED failed

(* ProxyRequest sends the request to the private service, or cannot make a URL *)
(* of it.                                                                      *)
Resolve(r) == (Goto(r, "proxying") /\ UNCHANGED failed) \/ EndThunk(r, TRUE)

(* acquire gets a permit, and checkIfServiceReady looks into its map. *)
Enter(r) ==
    /\ pc[r] = "wait"
    /\ Cardinality(At(Running)) < Permits
    /\ IF ready[svc[r]] THEN Resolve(r) ELSE Goto(r, "fetch") /\ UNCHANGED failed
    /\ UNCHANGED <<targetVars, readyVars, queueVars, svc, size, response, rpcVars>>

(* The context ends while acquire waits. *)
GiveUp(r) ==
    /\ pc[r] = "wait"
    /\ ContextDone(r)
    /\ UNCHANGED <<targetVars, readyVars, queueVars, svc, size, response, rpcVars>>

(* Mutant: the operator is not told again. *)
FetchNotReadySilent(r) ==
    /\ pc[r] = "fetch"
    /\ Reenqueue(r)
    /\ UNCHANGED <<targetVars, readyVars, queueVars, svc, size, response, rpcVars>>

(* checkIfServiceReady lists the EndpointSlices and finds no ready endpoint, or *)
(* the List fails: tryErrCallback tells the operator once more.                 *)
FetchNotReady(r) ==
    /\ pc[r] = "fetch"
    /\ Reenqueue(r)
    /\ Spawn(svc[r])
    /\ UNCHANGED <<targetVars, readyVars, queueVars, svc, size, response>>

(* Mutant: no timer is started. *)
FetchReadyUntimed(r) ==
    /\ pc[r] = "fetch" /\ up[svc[r]]
    /\ ready' = [ready EXCEPT ![svc[r]] = TRUE]
    /\ Resolve(r)
    /\ UNCHANGED <<targetVars, readyTimers, queueVars, svc, size, response, rpcVars>>

(* It finds one, puts the service into the map and starts a timer. *)
FetchReady(r) ==
    /\ pc[r] = "fetch" /\ up[svc[r]]
    /\ ready' = [ready EXCEPT ![svc[r]] = TRUE]
    /\ readyTimers' = [readyTimers EXCEPT ![svc[r]] = @ + 1]
    /\ Resolve(r)
    /\ UNCHANGED <<targetVars, queueVars, svc, size, response, rpcVars>>

(* It returns nil: the target answered, or the ErrorHandler wrote 502. *)
ProxyReturns(r) ==
    /\ pc[r] = "proxying"
    /\ Respond(r, "proxy")
    /\ EndThunk(r, FALSE)
    /\ UNCHANGED <<targetVars, readyVars, queueVars, svc, size, rpcVars>>

(* It recovers from a panic, the way the reverse proxy gives up on a response *)
(* whose header is written.                                                   *)
ProxyFails(r) ==
    /\ pc[r] = "proxying"
    /\ Respond(r, "proxy")
    /\ EndThunk(r, TRUE)
    /\ UNCHANGED <<targetVars, readyVars, queueVars, svc, size, rpcVars>>

(* The sleep ends, Maybe returns and the loop goes on. *)
WakeUp(r) ==
    /\ pc[r] = "sleep"
    /\ Goto(r, "maybe")
    /\ UNCHANGED <<targetVars, readyVars, queueVars, svc, size, failed, response, rpcVars>>

-----------------------------------------------------------------------------
(* The timer of checkIfServiceReady, the target, and the goroutines of the client. *)

ReadyTimer(s) ==
    /\ readyTimers[s] > 0
    /\ readyTimers' = [readyTimers EXCEPT ![s] = @ - 1]
    /\ ready' = [ready EXCEPT ![s] = FALSE]
    /\ UNCHANGED <<targetVars, queueVars, pc, svc, size, failed, response, rpcVars>>

(* External: the operator scales the target of s up. *)
ScaleUp(s) ==
    /\ OperatorActs(s)
    /\ up' = [up EXCEPT ![s] = TRUE]
    /\ UNCHANGED <<downs, readyVars, queueVars, pc, svc, size, failed, response>>

(* External: the target is scaled to zero, or fails. *)
TargetDown(s) ==
    /\ up[s] /\ downs < MaxDowns
    /\ up' = [up EXCEPT ![s] = FALSE]
    /\ downs' = downs + 1
    /\ UNCHANGED <<readyVars, queueVars, pc, svc, size, failed, response, rpcVars>>

Sender(g) ==
    /\ RPCStep(g)
    /\ UNCHANGED <<targetVars, readyVars, queueVars, pc, svc, size, failed, response>>

Step(r) ==
    \/ StoreIncrement(r) \/ LoadDecrement(r) \/ StoreDecrement(r) \/ CallMaybe(r)
    \/ FetchReady(r) \/ FetchNotReady(r) \/ ProxyReturns(r) \/ ProxyFails(r) \/ WakeUp(r)

Next ==
    \/ \E r \in Requests : CallTry(r) \/ Step(r) \/ Enter(r) \/ GiveUp(r)
    \/ \E s \in Services : ReadyTimer(s) \/ ScaleUp(s) \/ TargetDown(s)
    \/ \E g \in Senders : Sender(g)

Spec == Init /\ [][Next]_vars

(* Goroutines run, timers fire, a forwarded request comes back, and the operator *)
(* acts on what it is told.  The breaker starves nobody (NoStuckWaiter of module *)
(* Semaphore), and neither the List of a ready target nor the call to the        *)
(* operator fails for ever.  No context need ever end.                           *)
Fairness ==
    /\ \A r \in Requests : WF_vars(Step(r)) /\ SF_vars(Enter(r)) /\ SF_vars(FetchReady(r))
    /\ \A s \in Services : WF_vars(ReadyTimer(s)) /\ WF_vars(ScaleUp(s))
    /\ \A g \in Senders : WF_vars(Sender(g)) /\ SF_vars(Sender(g) /\ CallSucceeds(g))

FairSpec == Spec /\ Fairness
-----------------------------------------------------------------------------
(* Properties. *)

(* The type invariant. *)
TypeOK ==
    /\ RPCTypeOK
    /\ up \in [Services -> BOOLEAN] /\ downs \in 0..MaxDowns
    /\ ready \in [Services -> BOOLEAN] /\ readyTimers \in [Services -> Nat]
    /\ queueSize \in [Services -> Int] /\ raced \in [Services -> BOOLEAN]
    /\ pc \in [Requests -> Labels] /\ svc \in [Requests -> Services]
    /\ size \in [Requests -> Int] /\ failed \in [Requests -> BOOLEAN]
    /\ response \in [Requests -> {"none", "proxy", "handler"}]

(* The place of a request in what Forwarding promises.  "lost" is none: the *)
(* handler has returned without a response.                                 *)
PhaseOf(r) ==
    CASE pc[r] = "idle" -> "outside"
      [] pc[r] = "proxying" -> "sent"
      [] pc[r] \notin {"idle", "proxying"} /\ response[r] = "proxy" -> "answered"
      [] pc[r] \notin {"idle", "proxying"} /\ response[r] = "handler" -> "refused"
      [] pc[r] = "done" /\ response[r] = "none" -> "lost"
      [] OTHER -> "held"

phaseOf == [r \in Requests |-> PhaseOf(r)]

Promise == INSTANCE Forwarding WITH phase <- phaseOf

(* Try implements Forwarding.  However often its loop goes round, a request is   *)
(* sent to the target at most once (throttler.go:71-72); a client that is told   *)
(* 408 or 500 may send its request again, for the target has not seen it;  *)
(* and no path through the handler ends without a response.                      *)
ImplementsForwarding == Promise!FwdSpec

(* A request that is held comes out of Try without the help of its deadline: the *)
(* operator is told until it acts, and the target it scales up is noticed.       *)
HeldUntilServed == Promise!FwdLive

(* A cached readiness always has a timer to come that forgets it, though each *)
(* timer deletes whatever is there (checkIfServiceReady).                     *)
CachedIsTimed == \A s \in Services : ready[s] => readyTimers[s] > 0

(* The requests that are counted: from the store of one update to that of the other. *)
Counted(s) == {r \in At(Inside \cup {"maybe", "decLoad", "decStore"}) : svc[r] = s}

(* The queue size is exact until two updates overlap: every way out of Try takes *)
(* its request off again (throttler.go:58-59, 126-134).                          *)
QueueExactUnlessRaced == \A s \in Services : ~raced[s] => queueSize[s] = Cardinality(Counted(s))

(* A target that stays down is not taken for ready for ever (throttler.go:98-114). *)
OutageNoticed == \A s \in Services : <>[]~up[s] => <>[](~ready[s])
=============================================================================
