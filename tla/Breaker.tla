------------------------------ MODULE Breaker ------------------------------
(***************************************************************************)
(* The breaker of resolver/internal/throttler/breaker.go around the        *)
(* semaphore: Maybe takes an in-flight slot, acquires the semaphore, runs  *)
(* the thunk, and gives both back in its deferred calls.  The semaphore's  *)
(* channel is sized by MaxConcurrency and its permits by InitialCapacity,  *)
(* two parameters the configuration sets independently.                    *)
(***************************************************************************)
EXTENDS Semaphore

CONSTANT QueueDepth

MaxConcurrency == MaxCapacity

TotalSlots == QueueDepth + MaxConcurrency

ASSUME BreakerAssumption == QueueDepth \in Nat

VARIABLES inFlight,     \* Breaker.inFlight
          bpc,          \* bpc[g]: where g is in Maybe
          cur           \* cur[g]: the inFlight that g's last Load saw

slotVars == <<inFlight, bpc, cur>>
vars == <<inFlight, bpc, cur, in, queue, pc, old>>

BreakerLabels == {"out",                        \* not in Maybe
                  "tryLoad", "tryCas",          \* in tryAcquireInFlightSlot
                  "sem",                        \* acquire, thunk, release
                  "slotLoad", "slotCas"}        \* in releaseInFlightSlot

(* The calls that own a slot. *)
Inside == {g \in Goroutines : bpc[g] \in {"sem", "slotLoad", "slotCas"}}

(* Slots counted in inFlight that no call owns. *)
Leaked == inFlight - Cardinality(Inside)

Move(g, label) == bpc' = [bpc EXCEPT ![g] = label]

Init ==
    /\ SemInit
    /\ inFlight = 0
    /\ bpc = [g \in Goroutines |-> "out"]
    /\ cur = [g \in Goroutines |-> 0]

-----------------------------------------------------------------------------
CallMaybe(g) ==
    /\ bpc[g] = "out"
    /\ Move(g, "tryLoad")
    /\ UNCHANGED <<inFlight, cur, semVars>>

(* tryAcquireInFlightSlot fails and Maybe returns ErrRequestQueueFull. *)
RejectQueueFull(g) ==
    /\ bpc[g] = "tryLoad"
    /\ inFlight >= TotalSlots
    /\ cur' = [cur EXCEPT ![g] = inFlight]
    /\ Move(g, "out")
    /\ UNCHANGED <<inFlight, semVars>>

(* Mutant: the off-by-one test cur > totalSlots. *)
TryLoadOffByOne(g) ==
    /\ bpc[g] = "tryLoad"
    /\ inFlight <= TotalSlots
    /\ cur' = [cur EXCEPT ![g] = inFlight]
    /\ Move(g, "tryCas")
    /\ UNCHANGED <<inFlight, semVars>>

TryLoad(g) ==
    /\ bpc[g] = "tryLoad"
    /\ inFlight < TotalSlots
    /\ cur' = [cur EXCEPT ![g] = inFlight]
    /\ Move(g, "tryCas")
    /\ UNCHANGED <<inFlight, semVars>>

(* Mutant: the slot is taken with a single CompareAndSwap, result ignored. *)
TryCasOnce(g) ==
    /\ bpc[g] = "tryCas"
    /\ inFlight' = IF inFlight = cur[g] THEN inFlight + 1 ELSE inFlight
    /\ Move(g, "sem")
    /\ CallAcquire(g)
    /\ UNCHANGED cur

(* Mutant: a lost CompareAndSwap is taken for a full queue. *)
TryCasRejects(g) ==
    /\ bpc[g] = "tryCas"
    /\ IF inFlight = cur[g]
         THEN inFlight' = inFlight + 1 /\ Move(g, "sem") /\ CallAcquire(g)
         ELSE inFlight' = inFlight /\ Move(g, "out") /\ UNCHANGED semVars
    /\ UNCHANGED cur

(* The CompareAndSwap is retried until it succeeds; then acquire is called. *)
TryCas(g) ==
    /\ bpc[g] = "tryCas"
    /\ IF inFlight = cur[g]
         THEN inFlight' = inFlight + 1 /\ Move(g, "sem") /\ CallAcquire(g)
         ELSE inFlight' = inFlight /\ Move(g, "tryLoad") /\ UNCHANGED semVars
    /\ UNCHANGED cur

(* Mutant: Maybe forgets its deferred release when the thunk is over. *)
InSemaphoreNoRelease(g) ==
    /\ bpc[g] = "sem"
    /\ \/ SemInner(g) /\ Move(g, IF pc'[g] = "idle" THEN "slotLoad" ELSE "sem")
       \/ /\ pc[g] = "held"
          /\ Goto(g, "idle")
          /\ Move(g, "slotLoad")
          /\ UNCHANGED <<in, queue, old>>
    /\ UNCHANGED <<inFlight, cur>>

(* acquire, the thunk and release; when the semaphore is left, with an error *)
(* or after release, the deferred releaseInFlightSlot runs.                  *)
InSemaphore(g) ==
    /\ bpc[g] = "sem"
    /\ SemInner(g)
    /\ Move(g, IF pc'[g] = "idle" THEN "slotLoad" ELSE "sem")
    /\ UNCHANGED <<inFlight, cur>>

SlotLoad(g) ==
    /\ bpc[g] = "slotLoad"
    /\ cur' = [cur EXCEPT ![g] = inFlight]
    /\ Move(g, "slotCas")
    /\ UNCHANGED <<inFlight, semVars>>

(* The loop body returns whether or not its CompareAndSwap succeeded. *)
SlotCas(g) ==
    /\ bpc[g] = "slotCas"
    /\ inFlight' = IF inFlight = cur[g] THEN inFlight - 1 ELSE inFlight
    /\ Move(g, "out")
    /\ UNCHANGED <<cur, semVars>>

-----------------------------------------------------------------------------
Step(g) ==
    \/ CallMaybe(g) \/ RejectQueueFull(g) \/ TryLoad(g) \/ TryCas(g)
    \/ InSemaphore(g) \/ SlotLoad(g) \/ SlotCas(g)

Next == \E g \in Goroutines : Step(g)

Spec == Init /\ [][Next]_vars

(* A runnable goroutine is scheduled, and the thunk of a holder ends.  A     *)
(* channel serves its blocked receivers in order, so a receiver that finds   *)
(* a wakeup there again and again gets one (strong fairness).  Nothing makes *)
(* a caller call Maybe or a context end.                                     *)
Fairness ==
    \A g \in Goroutines :
        /\ WF_vars(RejectQueueFull(g) \/ TryLoad(g) \/ TryCas(g) \/ SlotLoad(g) \/ SlotCas(g))
        /\ WF_vars(pc[g] # "select" /\ InSemaphore(g))
        /\ SF_vars(pc[g] = "select" /\ InSemaphore(g) /\ pc'[g] = "load")

FairSpec == Spec /\ Fairness

-----------------------------------------------------------------------------
(* Every variable stays in its range, and a goroutine is in the semaphore   *)
(* only between its two slot operations.                                    *)
TypeOK ==
    /\ SemTypeOK
    /\ inFlight \in 0..TotalSlots
    /\ bpc \in [Goroutines -> BreakerLabels]
    /\ cur \in [Goroutines -> 0..TotalSlots]
    /\ \A g \in Goroutines : pc[g] # "idle" <=> bpc[g] = "sem"

(* tryAcquireInFlightSlot's promise: however the slot CASes interleave, the *)
(* counter never forgets a call that is inside, so no more than TotalSlots  *)
(* calls queue or run.                                                      *)
SlotsNeverUndercounted == Cardinality(Inside) <= inFlight

(* With the CAS of releaseInFlightSlot not retried (breaker.go:87-88) slots *)
(* can leak, and nothing ever gives a leaked slot back.                     *)
LeaksArePermanent == [][Leaked' >= Leaked]_vars

(* When the queue is no deeper than the permits (the defaults of            *)
(* resolver/cmd/main.go) at most MaxConcurrency calls block in select:      *)
(* never more than the channel has room for wakeups.                        *)
WaitersFitChannel == Cardinality(Waiters) <= MaxConcurrency

(* Maybe pairs every successful acquire with one release and never calls    *)
(* one without the other, so the breaker's steps are steps of a correctly   *)
(* used semaphore.                                                          *)
UsesSemaphore == SemSpec

(* ErrRequestQueueFull (breaker.go:37) says the request queue is full: a    *)
(* request is rejected only when every slot belongs to a call in Maybe.     *)
FullMeansFull == inFlight >= TotalSlots => Cardinality(Inside) >= TotalSlots

-----------------------------------------------------------------------------
(* The breaker as a gate: a call is inside from the CompareAndSwap that     *)
(* counts it to the one that should uncount it, and is disturbed while that *)
(* one would fail.                                                          *)
placeOf ==
    [g \in Goroutines |->
        CASE bpc[g] = "out"                     -> "outside"
          [] bpc[g] \in {"tryLoad", "tryCas"}   -> "asking"
          [] bpc[g] \in {"slotLoad", "slotCas"} -> "leaving"
          [] OTHER ->
                CASE pc[g] \in {"load", "select", "cas"}  -> "waiting"
                  [] pc[g] \in {"held", "rload", "rcas"}  -> "running"
                  [] OTHER                                -> "leaving"]

disturbedOf == {g \in Goroutines : bpc[g] = "slotCas" /\ inFlight # cur[g]}

Promise == INSTANCE Gate WITH
    Callers <- Goroutines, Slots <- TotalSlots, Permits <- InitialCapacity,
    place <- placeOf, leaked <- Leaked, disturbed <- disturbedOf

(* Maybe implements Gate (breaker.go:41-90).  A call that lost its race for a   *)
(* slot is refused only if the slots, leaked ones included, are used up, none   *)
(* runs without a permit, and a slot is lost at most once per call, and only to *)
(* a call that took or gave back a slot while this one was leaving.             *)
ImplementsGate == Promise!GateSpec
=============================================================================
