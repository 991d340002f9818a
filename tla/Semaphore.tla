----------------------------- MODULE Semaphore -----------------------------
(***************************************************************************)
(* The semaphore of resolver/internal/throttler/semaphore.go.              *)
(*                                                                         *)
(* The packed word `state` holds a capacity and the number of permits in   *)
(* use.  updateCapacity is called by newSemaphore only, so the capacity    *)
(* half is InitialCapacity from the first acquire on and the word is its   *)
(* other half, the variable `in`.  `queue` is the number of wakeups        *)
(* buffered in the channel, whose buffer holds MaxCapacity of them.  An    *)
(* action is one atomic operation of the code: a Load with the branch it   *)
(* decides, a CompareAndSwap, or a channel operation.                      *)
(***************************************************************************)
EXTENDS Integers, FiniteSets

CONSTANTS Goroutines,       \* the callers of acquire and release
          MaxCapacity,      \* the channel's buffer size
          InitialCapacity   \* the permits

ASSUME SemaphoreAssumption ==
    /\ IsFiniteSet(Goroutines)
    /\ MaxCapacity \in Nat
    /\ InitialCapacity \in Nat \ {0}

VARIABLES in,       \* permits in use, the right half of state
          queue,    \* wakeups in the channel
          pc,       \* pc[g]: the operation goroutine g is about to do
          old       \* old[g]: the `in` that g's last Load saw

semVars == <<in, queue, pc, old>>

Labels == {"idle",                          \* not in the semaphore
           "load", "select", "cas",         \* in acquire
           "held",                          \* between acquire and release
           "rload", "rcas", "rpoke"}        \* in release

At(L) == {g \in Goroutines : pc[g] \in L}

Waiters    == At({"select"})                    \* blocked in select
Contenders == At({"load", "cas"})               \* about to (re)try for a permit
Holders    == At({"held", "rload", "rcas"})     \* their permit is counted
Pokers     == At({"rpoke"})                     \* gave it back, wakeup not yet sent

Goto(g, label) == pc' = [pc EXCEPT ![g] = label]

(* newSemaphore and the updateCapacity it calls: the capacity rises from 0, *)
(* and each new permit pokes the channel until its buffer is full.          *)
InitialWakeups == IF InitialCapacity < MaxCapacity THEN InitialCapacity ELSE MaxCapacity

SemInit ==
    /\ in = 0
    /\ queue = InitialWakeups
    /\ pc = [g \in Goroutines |-> "idle"]
    /\ old = [g \in Goroutines |-> 0]

-----------------------------------------------------------------------------
(* acquire(ctx) *)

CallAcquire(g) ==
    /\ pc[g] = "idle"
    /\ Goto(g, "load")
    /\ UNCHANGED <<in, queue, old>>

AcquireLoad(g) ==
    /\ pc[g] = "load"
    /\ old' = [old EXCEPT ![g] = in]
    /\ Goto(g, IF in >= InitialCapacity THEN "select" ELSE "cas")
    /\ UNCHANGED <<in, queue>>

(* Mutant: the deferred release is registered before acquire's error is seen. *)
AcquireCtxDoneReleases(g) ==
    /\ pc[g] = "select"
    /\ Goto(g, "rload")
    /\ UNCHANGED <<in, queue, old>>

(* case <-ctx.Done(): the context may end at any time. *)
AcquireCtxDone(g) ==
    /\ pc[g] = "select"
    /\ Goto(g, "idle")
    /\ UNCHANGED <<in, queue, old>>

(* case <-s.queue *)
AcquireWake(g) ==
    /\ pc[g] = "select"
    /\ queue > 0
    /\ queue' = queue - 1
    /\ Goto(g, "load")
    /\ UNCHANGED <<in, old>>

(* Mutant: a plain Store in place of the CompareAndSwap. *)
AcquireStore(g) ==
    /\ pc[g] = "cas"
    /\ in' = old[g] + 1
    /\ Goto(g, "held")
    /\ UNCHANGED <<queue, old>>

AcquireCas(g) ==
    /\ pc[g] = "cas"
    /\ IF in = old[g]
         THEN in' = in + 1 /\ Goto(g, "held")
         ELSE in' = in /\ Goto(g, "load")
    /\ UNCHANGED <<queue, old>>

-----------------------------------------------------------------------------
(* release() *)

CallRelease(g) ==
    /\ pc[g] = "held"
    /\ Goto(g, "rload")
    /\ UNCHANGED <<in, queue, old>>

(* The panic on in = 0 is the invariant ReleasePaired, not a branch. *)
ReleaseLoad(g) ==
    /\ pc[g] = "rload"
    /\ old' = [old EXCEPT ![g] = in]
    /\ Goto(g, "rcas")
    /\ UNCHANGED <<in, queue>>

(* Mutant: the off-by-one test in < capacity - 1. *)
ReleaseCasOffByOne(g) ==
    /\ pc[g] = "rcas"
    /\ IF in = old[g]
         THEN /\ in' = in - 1
              /\ Goto(g, IF in' < InitialCapacity - 1 THEN "rpoke" ELSE "idle")
         ELSE in' = in /\ Goto(g, "rload")
    /\ UNCHANGED <<queue, old>>

ReleaseCas(g) ==
    /\ pc[g] = "rcas"
    /\ IF in = old[g]
         THEN /\ in' = in - 1
              /\ Goto(g, IF in' < InitialCapacity THEN "rpoke" ELSE "idle")
         ELSE in' = in /\ Goto(g, "rload")
    /\ UNCHANGED <<queue, old>>

(* The non-blocking send: the wakeup is dropped when the buffer is full. *)
ReleasePoke(g) ==
    /\ pc[g] = "rpoke"
    /\ queue' = IF queue < MaxCapacity THEN queue + 1 ELSE queue
    /\ Goto(g, "idle")
    /\ UNCHANGED <<in, old>>

-----------------------------------------------------------------------------
(* What a goroutine does once it has called acquire. *)
SemInner(g) ==
    \/ AcquireLoad(g) \/ AcquireCtxDone(g) \/ AcquireWake(g) \/ AcquireCas(g)
    \/ CallRelease(g) \/ ReleaseLoad(g) \/ ReleaseCas(g) \/ ReleasePoke(g)

SemStep(g) == CallAcquire(g) \/ SemInner(g)

SemNext == \E g \in Goroutines : SemStep(g)

SemSpec == SemInit /\ [][SemNext]_semVars

-----------------------------------------------------------------------------
(* Every variable stays in its range; the channel never holds more than its *)
(* buffer.                                                                  *)
SemTypeOK ==
    /\ in \in 0..InitialCapacity
    /\ queue \in 0..MaxCapacity
    /\ pc \in [Goroutines -> Labels]
    /\ old \in [Goroutines -> 0..InitialCapacity]

(* The permits counted are exactly the permits held, whatever CAS failed on *)
(* the way.                                                                 *)
PermitsCounted == in = Cardinality(Holders)

(* "release and acquire are not paired" (semaphore.go:54): no goroutine in  *)
(* release can load a state with no permit in use.                          *)
ReleasePaired == \A g \in Goroutines : pc[g] = "rload" => in > 0

(* The comment at semaphore.go:63-67: dropping a poke is harmless.  A       *)
(* goroutine blocked in select while a permit is free always has somebody   *)
(* left to give it another try: a wakeup in the channel, a poke about to be *)
(* sent, or a goroutine about to take the permit.                           *)
NoLostWakeup ==
    (in < InitialCapacity /\ Waiters # {}) => (queue > 0 \/ Contenders # {} \/ Pokers # {})

(* The accounting that makes NoLostWakeup inductive: free permits never     *)
(* outnumber the tries to come, or there is a wakeup for every waiter.  A   *)
(* poke is only dropped when the channel is full, so this holds when the    *)
(* buffer has room for every permit or for every waiter.                    *)
WakeupsSuffice ==
    \/ queue + Cardinality(Contenders) + Cardinality(Pokers) >= InitialCapacity - in
    \/ queue + Cardinality(Pokers) >= Cardinality(Waiters)

(* A goroutine blocked in select does not stay there for ever as long as    *)
(* holders come out, although no deadline ends its wait.                    *)
NoStuckWaiter == \A g \in Goroutines : pc[g] = "select" ~> pc[g] # "select"

-----------------------------------------------------------------------------
(* The semaphore is a concurrency limiter: a caller enters at the CAS that  *)
(* takes a permit and leaves at the CAS that gives it back.                 *)
whereOf ==
    [g \in Goroutines |->
        CASE pc[g] \in {"idle", "rpoke"}           -> "outside"
          [] pc[g] \in {"load", "select", "cas"}   -> "waiting"
          [] OTHER                                 -> "inside"]

Lim == INSTANCE Limiter WITH Clients <- Goroutines, Limit <- InitialCapacity, where <- whereOf

(* Every step of the code is a step of the limiter or invisible to it: no   *)
(* caller gets in while InitialCapacity others are inside.                  *)
ImplementsLimiter == Lim!Spec

=============================================================================
