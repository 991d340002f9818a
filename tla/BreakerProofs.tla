--------------------------- MODULE BreakerProofs ---------------------------
(***************************************************************************)
(* Proofs about the breaker, for every number of calls and every setting   *)
(* of QueueDepth, MaxConcurrency and InitialCapacity.                      *)
(***************************************************************************)
EXTENDS Breaker, SemaphoreProofs

InsideLabels == {"sem", "slotLoad", "slotCas"}

(* One call moving changes the number of calls that own a slot. *)
LEMMA CountBpc ==
    ASSUME NEW g \in Goroutines, NEW S,
           \A x \in Goroutines : x # g => bpc'[x] = bpc[x]
    PROVE  /\ bpc[g] \in S /\ bpc'[g] \in S => CountOf(bpc', S) = CountOf(bpc, S)
           /\ bpc[g] \notin S /\ bpc'[g] \notin S => CountOf(bpc', S) = CountOf(bpc, S)
           /\ bpc[g] \notin S /\ bpc'[g] \in S => CountOf(bpc', S) = CountOf(bpc, S) + 1
           /\ bpc[g] \in S /\ bpc'[g] \notin S => CountOf(bpc', S) = CountOf(bpc, S) - 1
BY CountMove, Zenon

(* How a step changes the number of calls that own a slot. *)
LEMMA InsideMove ==
    ASSUME bpc \in [Goroutines -> BreakerLabels], NEW g \in Goroutines, NEW l \in BreakerLabels,
           bpc' = [bpc EXCEPT ![g] = l]
    PROVE  /\ Cardinality(Inside) \in Nat /\ Cardinality(Inside)' \in Nat
           /\ bpc[g] \in InsideLabels => Cardinality(Inside) > 0
           /\ Cardinality(Inside)' = Cardinality(Inside)
                + (IF l \in InsideLabels THEN 1 ELSE 0)
                - (IF bpc[g] \in InsideLabels THEN 1 ELSE 0)
<1>2. bpc'[g] = l /\ \A y \in Goroutines : y # g => bpc'[y] = bpc[y]
  OBVIOUS
<1>3. /\ CountOf(bpc, InsideLabels) \in Nat /\ CountOf(bpc', InsideLabels) \in Nat
      /\ bpc[g] \in InsideLabels => CountOf(bpc, InsideLabels) > 0
  BY CountIsNat, Zenon
<1>4. Cardinality(Inside) = CountOf(bpc, InsideLabels)
  BY DEF Inside, CountOf, InsideLabels
<1>5. Cardinality(Inside)' = CountOf(bpc', InsideLabels)
  BY DEF Inside, CountOf, InsideLabels
<1>6. /\ bpc[g] \in InsideLabels /\ bpc'[g] \in InsideLabels
            => CountOf(bpc', InsideLabels) = CountOf(bpc, InsideLabels)
      /\ bpc[g] \notin InsideLabels /\ bpc'[g] \notin InsideLabels
            => CountOf(bpc', InsideLabels) = CountOf(bpc, InsideLabels)
      /\ bpc[g] \notin InsideLabels /\ bpc'[g] \in InsideLabels
            => CountOf(bpc', InsideLabels) = CountOf(bpc, InsideLabels) + 1
      /\ bpc[g] \in InsideLabels /\ bpc'[g] \notin InsideLabels
            => CountOf(bpc', InsideLabels) = CountOf(bpc, InsideLabels) - 1
  BY <1>2, CountBpc
<1>. QED
  BY <1>2, <1>3, <1>4, <1>5, <1>6

-----------------------------------------------------------------------------
(* The inductive invariant: the types, the semaphore's own invariant, the   *)
(* slot count, and that a call about to swap saw a free slot.               *)
SlotSwapsSawRoom == \A g \in Goroutines : bpc[g] = "tryCas" => cur[g] < TotalSlots

BreakerInd == TypeOK /\ SemInd /\ SlotsNeverUndercounted /\ SlotSwapsSawRoom

(* A breaker step is a semaphore step of the same goroutine or leaves the   *)
(* semaphore alone: acquire and release are paired by Maybe.                *)
LEMMA StepUsesSemaphore ==
    ASSUME NEW g \in Goroutines, Step(g)
    PROVE  SemStep(g) \/ UNCHANGED semVars
BY DEF Step, CallMaybe, RejectQueueFull, TryLoad, TryCas, InSemaphore, SlotLoad, SlotCas, SemStep

(* Nobody is in Maybe at the start. *)
LEMMA BreakerIndInit == Init => BreakerInd
<1>. SUFFICES ASSUME Init PROVE BreakerInd
  OBVIOUS
<1>1. SemInd
  BY SemIndInit DEF Init
<1>2. TypeOK /\ SlotSwapsSawRoom
  BY <1>1, SemaphoreAssumption, BreakerAssumption
  DEF Init, SemInit, TypeOK, SemInd, TotalSlots, MaxConcurrency, BreakerLabels, SlotSwapsSawRoom
<1>3. Inside = {}
  BY DEF Init, Inside
<1>4. SlotsNeverUndercounted
  BY <1>3, FS_EmptySet DEF Init, SlotsNeverUndercounted
<1>. QED
  BY <1>1, <1>2, <1>4 DEF BreakerInd

(* Every step keeps the invariant, and no step gives a leaked slot back. *)
LEMMA BreakerIndStep ==
    ASSUME BreakerInd, NEW g \in Goroutines, Step(g)
    PROVE  BreakerInd' /\ Leaked' >= Leaked
<1>. USE SemaphoreAssumption, BreakerAssumption
<1>. DEFINE n == Cardinality(Inside)
<1>0. /\ bpc \in [Goroutines -> BreakerLabels] /\ cur \in [Goroutines -> 0..TotalSlots]
      /\ inFlight \in 0..TotalSlots /\ TotalSlots \in Nat /\ inFlight \in Nat
      /\ n <= inFlight
      /\ pc \in [Goroutines -> Labels]
      /\ \A x \in Goroutines : pc[x] # "idle" <=> bpc[x] = "sem"
  BY DEF BreakerInd, TypeOK, SemTypeOK, SlotsNeverUndercounted, TotalSlots, MaxConcurrency
<1>1. SemInd'
  BY StepUsesSemaphore, SemIndStep, SemIndStutter DEF BreakerInd
<1>2. SemTypeOK'
  BY <1>1 DEF SemInd
<1>3. ASSUME NEW l \in BreakerLabels, bpc' = [bpc EXCEPT ![g] = l]
      PROVE  /\ n \in Nat /\ n' \in Nat
             /\ bpc[g] \in InsideLabels => n > 0
             /\ n' = n + (IF l \in InsideLabels THEN 1 ELSE 0)
                       - (IF bpc[g] \in InsideLabels THEN 1 ELSE 0)
  BY <1>0, <1>3, InsideMove
<1>4. SUFFICES /\ inFlight' \in 0..TotalSlots
               /\ bpc' \in [Goroutines -> BreakerLabels]
               /\ cur' \in [Goroutines -> 0..TotalSlots]
               /\ \A x \in Goroutines : pc'[x] # "idle" <=> bpc'[x] = "sem"
               /\ n' <= inFlight'
               /\ SlotSwapsSawRoom'
               /\ inFlight' - n' >= inFlight - n
  BY <1>1, <1>2 DEF BreakerInd, TypeOK, SlotsNeverUndercounted, Leaked, TotalSlots, MaxConcurrency
<1>. HIDE DEF n
<1>5. CASE CallMaybe(g)
  <2>1. /\ bpc' = [bpc EXCEPT ![g] = "tryLoad"] /\ bpc[g] = "out"
        /\ inFlight' = inFlight /\ cur' = cur /\ pc' = pc
    BY <1>5 DEF CallMaybe, Move, semVars
  <2>2. n \in Nat /\ n' = n
    BY <1>3, <2>1 DEF BreakerLabels, InsideLabels
  <2>. QED
    BY <1>0, <2>1, <2>2 DEF BreakerInd, SlotSwapsSawRoom, BreakerLabels
<1>6. CASE RejectQueueFull(g)
  <2>1. /\ bpc' = [bpc EXCEPT ![g] = "out"] /\ bpc[g] = "tryLoad"
        /\ inFlight' = inFlight /\ cur' = [cur EXCEPT ![g] = inFlight] /\ pc' = pc
    BY <1>6 DEF RejectQueueFull, Move, semVars
  <2>2. n \in Nat /\ n' = n
    BY <1>3, <2>1 DEF BreakerLabels, InsideLabels
  <2>. QED
    BY <1>0, <2>1, <2>2 DEF BreakerInd, SlotSwapsSawRoom, BreakerLabels
<1>7. CASE TryLoad(g)
  <2>1. /\ bpc' = [bpc EXCEPT ![g] = "tryCas"] /\ bpc[g] = "tryLoad" /\ inFlight < TotalSlots
        /\ inFlight' = inFlight /\ cur' = [cur EXCEPT ![g] = inFlight] /\ pc' = pc
    BY <1>7 DEF TryLoad, Move, semVars
  <2>2. n \in Nat /\ n' = n
    BY <1>3, <2>1 DEF BreakerLabels, InsideLabels
  <2>. QED
    BY <1>0, <2>1, <2>2 DEF BreakerInd, SlotSwapsSawRoom, BreakerLabels
<1>8. CASE TryCas(g)
  <2>1. CASE inFlight = cur[g]
    <3>1. /\ bpc' = [bpc EXCEPT ![g] = "sem"] /\ bpc[g] = "tryCas"
          /\ inFlight' = inFlight + 1 /\ cur' = cur /\ pc' = [pc EXCEPT ![g] = "load"]
      BY <1>8, <2>1 DEF TryCas, Move, CallAcquire, Goto
    <3>2. n \in Nat /\ n' = n + 1
      BY <1>3, <3>1 DEF BreakerLabels, InsideLabels
    <3>3. inFlight < TotalSlots
      BY <2>1, <3>1 DEF BreakerInd, SlotSwapsSawRoom
    <3>4. inFlight' \in 0..TotalSlots /\ n' <= inFlight' /\ inFlight' - n' >= inFlight - n
      BY <1>0, <3>1, <3>2, <3>3
    <3>. QED
      BY <1>0, <3>1, <3>4 DEF BreakerInd, SlotSwapsSawRoom, BreakerLabels
  <2>2. CASE inFlight # cur[g]
    <3>1. /\ bpc' = [bpc EXCEPT ![g] = "tryLoad"] /\ bpc[g] = "tryCas"
          /\ inFlight' = inFlight /\ cur' = cur /\ pc' = pc
      BY <1>8, <2>2 DEF TryCas, Move, semVars
    <3>2. n \in Nat /\ n' = n
      BY <1>3, <3>1 DEF BreakerLabels, InsideLabels
    <3>. QED
      BY <1>0, <3>1, <3>2 DEF BreakerInd, SlotSwapsSawRoom, BreakerLabels
  <2>. QED
    BY <2>1, <2>2
<1>9. CASE InSemaphore(g)
  <2>1. bpc[g] = "sem" /\ inFlight' = inFlight /\ cur' = cur
    BY <1>9 DEF InSemaphore
  <2>2. \A x \in Goroutines : x # g => pc'[x] = pc[x]
    BY <1>0, <1>9 DEF InSemaphore, SemInner, AcquireLoad, AcquireCtxDone, AcquireWake, AcquireCas,
                  CallRelease, ReleaseLoad, ReleaseCas, ReleasePoke, Goto
  <2>3. CASE pc'[g] = "idle"
    <3>1. bpc' = [bpc EXCEPT ![g] = "slotLoad"]
      BY <1>9, <2>3 DEF InSemaphore, Move
    <3>2. n \in Nat /\ n' = n
      BY <1>3, <2>1, <3>1 DEF BreakerLabels, InsideLabels
    <3>. QED
      BY <1>0, <2>1, <2>2, <2>3, <3>1, <3>2 DEF BreakerInd, SlotSwapsSawRoom, BreakerLabels
  <2>4. CASE pc'[g] # "idle"
    <3>1. bpc' = [bpc EXCEPT ![g] = "sem"]
      BY <1>9, <2>4 DEF InSemaphore, Move
    <3>2. n \in Nat /\ n' = n
      BY <1>3, <2>1, <3>1 DEF BreakerLabels, InsideLabels
    <3>. QED
      BY <1>0, <2>1, <2>2, <2>4, <3>1, <3>2 DEF BreakerInd, SlotSwapsSawRoom, BreakerLabels
  <2>. QED
    BY <2>3, <2>4
<1>10. CASE SlotLoad(g)
  <2>1. /\ bpc' = [bpc EXCEPT ![g] = "slotCas"] /\ bpc[g] = "slotLoad"
        /\ inFlight' = inFlight /\ cur' = [cur EXCEPT ![g] = inFlight] /\ pc' = pc
    BY <1>10 DEF SlotLoad, Move, semVars
  <2>2. n \in Nat /\ n' = n
    BY <1>3, <2>1 DEF BreakerLabels, InsideLabels
  <2>. QED
    BY <1>0, <2>1, <2>2 DEF BreakerInd, SlotSwapsSawRoom, BreakerLabels
<1>11. CASE SlotCas(g)
  <2>1. /\ bpc' = [bpc EXCEPT ![g] = "out"] /\ bpc[g] = "slotCas"
        /\ inFlight' = IF inFlight = cur[g] THEN inFlight - 1 ELSE inFlight
        /\ cur' = cur /\ pc' = pc
    BY <1>11 DEF SlotCas, Move, semVars
  <2>2. n \in Nat /\ n > 0 /\ n' = n - 1
    BY <1>3, <2>1 DEF BreakerLabels, InsideLabels
  <2>3. inFlight' \in 0..TotalSlots /\ n' <= inFlight' /\ inFlight' - n' >= inFlight - n
    BY <1>0, <2>1, <2>2
  <2>. QED
    BY <1>0, <2>1, <2>3 DEF BreakerInd, SlotSwapsSawRoom, BreakerLabels
<1>. QED
  BY <1>5, <1>6, <1>7, <1>8, <1>9, <1>10, <1>11 DEF Step

(* A stuttering step keeps the invariant too. *)
LEMMA BreakerIndStutter == BreakerInd /\ UNCHANGED vars => BreakerInd'
BY DEF BreakerInd, TypeOK, SlotsNeverUndercounted, SlotSwapsSawRoom, Inside, TotalSlots, MaxConcurrency,
       SemInd, SemTypeOK, PermitsCounted, SwapsSawRoom, Holders, At, vars

(* However the slot CASes interleave (breaker.go:65-90), the counter covers *)
(* every call inside and never exceeds TotalSlots: at most TotalSlots calls *)
(* queue or run at once.                                                    *)
THEOREM BreakerInvariant == Spec => [](TypeOK /\ SlotsNeverUndercounted)
<1>1. BreakerInd /\ [Next]_vars => BreakerInd'
  BY BreakerIndStep, BreakerIndStutter DEF Next
<1>2. BreakerInd => TypeOK /\ SlotsNeverUndercounted
  BY DEF BreakerInd
<1>. QED
  BY BreakerIndInit, <1>1, <1>2, PTL DEF Spec

(* Type correctness of the breaker and of the semaphore it uses: a call is  *)
(* in the semaphore exactly between its two slot operations.                *)
THEOREM BreakerTypeOK == Spec => []TypeOK
BY BreakerInvariant, PTL

(* A slot leaked by the unretried CAS of releaseInFlightSlot                *)
(* (breaker.go:87-88) is never given back by any later step.                *)
THEOREM BreakerLeaksArePermanent == Spec => LeaksArePermanent
<1>1. BreakerInd /\ [Next]_vars => BreakerInd'
  BY BreakerIndStep, BreakerIndStutter DEF Next
<1>2. BreakerInd /\ [Next]_vars => [Leaked' >= Leaked]_vars
  BY BreakerIndStep DEF Next
<1>. QED
  BY BreakerIndInit, <1>1, <1>2, PTL DEF Spec, LeaksArePermanent

(* Maybe uses the semaphore as it must be used, so what is proved of the    *)
(* semaphore holds in the breaker (breaker.go:51-59).                       *)
THEOREM BreakerUsesSemaphore == Spec => UsesSemaphore
<1>1. Init => SemInit
  BY DEF Init
<1>2. [Next]_vars => [SemNext]_semVars
  BY StepUsesSemaphore DEF Next, SemNext, vars, semVars
<1>. QED
  BY <1>1, <1>2, PTL DEF Spec, SemSpec, UsesSemaphore

-----------------------------------------------------------------------------
(* Calls that hold a permit and calls that wait for one are distinct owners *)
(* of slots.                                                                *)
SlotsCoverWaitersAndHolders ==
    /\ Cardinality(Waiters) + Cardinality(Holders) <= TotalSlots
    /\ Cardinality(Waiters) \in Nat

(* What the slot count says of the semaphore.                               *)
LEMMA WaitersAndHoldersInside == BreakerInd => SlotsCoverWaitersAndHolders
<1>. SUFFICES ASSUME BreakerInd PROVE SlotsCoverWaitersAndHolders
  OBVIOUS
<1>. USE SemaphoreAssumption
<1>1. Waiters \cup Holders \subseteq Inside
  BY DEF BreakerInd, TypeOK, Waiters, Holders, At, Inside
<1>2. Waiters \cap Holders = {}
  BY DEF Waiters, Holders, At
<1>3. IsFiniteSet(Waiters) /\ IsFiniteSet(Holders) /\ IsFiniteSet(Inside)
  BY FS_Subset DEF Waiters, Holders, At, Inside
<1>4. /\ Cardinality(Waiters) \in Nat /\ Cardinality(Holders) \in Nat
      /\ Cardinality(Inside) \in Nat
  BY <1>3, FS_CardinalityType
<1>5. Cardinality(Waiters \cup Holders) = Cardinality(Waiters) + Cardinality(Holders)
  <2>1. Cardinality(Waiters \cap Holders) = 0
    BY <1>2, FS_EmptySet
  <2>2. Cardinality(Waiters \cup Holders)
          = Cardinality(Waiters) + Cardinality(Holders) - Cardinality(Waiters \cap Holders)
    BY <1>3, FS_Union
  <2>. QED
    BY <1>4, <2>1, <2>2
<1>6. Cardinality(Waiters \cup Holders) <= Cardinality(Inside)
  BY <1>1, <1>3, FS_Subset
<1>7. Cardinality(Inside) <= inFlight /\ inFlight \in 0..TotalSlots /\ TotalSlots \in Nat
  BY BreakerAssumption DEF BreakerInd, TypeOK, SlotsNeverUndercounted, TotalSlots, MaxConcurrency
<1>. QED
  BY <1>4, <1>5, <1>6, <1>7 DEF SlotsCoverWaitersAndHolders

(* The same after a step.                                                   *)
LEMMA WaitersAndHoldersInsidePrime == BreakerInd' => SlotsCoverWaitersAndHolders'
BY WaitersAndHoldersInside, PTL

(* A goroutine goes to sleep only when every permit is taken; then the      *)
(* slots left for waiters are at most MaxConcurrency.                       *)
LEMMA WaitersFitStep ==
    ASSUME QueueDepth <= InitialCapacity,
           BreakerInd, WaitersFitChannel, NEW g \in Goroutines, Step(g)
    PROVE  WaitersFitChannel'
<1>. USE SemaphoreAssumption, BreakerAssumption
<1>0. pc \in [Goroutines -> Labels] /\ in \in 0..InitialCapacity /\ MaxCapacity \in Nat
  BY DEF BreakerInd, TypeOK, SemTypeOK
<1>1. BreakerInd'
  BY BreakerIndStep
<1>2. Cardinality(Waiters) <= MaxCapacity
  BY DEF WaitersFitChannel, MaxConcurrency
<1>3. SUFFICES Cardinality(Waiters)' <= MaxCapacity
  BY DEF WaitersFitChannel, MaxConcurrency
<1>4. CASE UNCHANGED semVars
  BY <1>2, <1>4 DEF Waiters, At, semVars
<1>5. CASE AcquireLoad(g) /\ in >= InitialCapacity
  <2>1. in' >= InitialCapacity /\ in' \in Nat
    BY <1>0, <1>5 DEF AcquireLoad
  <2>2. in' = Cardinality(Holders)'
    BY <1>1 DEF BreakerInd, SemInd, PermitsCounted
  <2>3. /\ Cardinality(Waiters)' + Cardinality(Holders)' <= TotalSlots
        /\ Cardinality(Waiters)' \in Nat
    BY <1>1, WaitersAndHoldersInsidePrime
    DEF SlotsCoverWaitersAndHolders, TotalSlots, MaxConcurrency
  <2>. QED
    BY <2>1, <2>2, <2>3 DEF TotalSlots, MaxConcurrency
<1>6. CASE SemStep(g) /\ ~(AcquireLoad(g) /\ in >= InitialCapacity)
  <2>1. PICK l \in Labels : pc' = [pc EXCEPT ![g] = l] /\ l # "select"
    BY <1>0, <1>6 DEF SemStep, SemInner, CallAcquire, AcquireLoad, AcquireCtxDone, AcquireWake,
                  AcquireCas, CallRelease, ReleaseLoad, ReleaseCas, ReleasePoke, Goto, Labels
  <2>2. /\ Cardinality(Waiters) \in Nat
        /\ Cardinality(Waiters)' = Cardinality(Waiters)
                + (IF l = "select" THEN 1 ELSE 0) - (IF pc[g] = "select" THEN 1 ELSE 0)
    BY <1>0, <2>1, TriesMove
  <2>. QED
    BY <1>0, <1>2, <2>1, <2>2
<1>. QED
  BY <1>4, <1>5, <1>6, StepUsesSemaphore

(* With no more queue than permits, as in the defaults of                   *)
(* resolver/cmd/main.go:39-44, the waiters never outnumber the channel.     *)
THEOREM BreakerWaitersFitChannel ==
    ASSUME QueueDepth <= InitialCapacity
    PROVE  Spec => []WaitersFitChannel
<1>. DEFINE Inv == BreakerInd /\ WaitersFitChannel
<1>1. Init => Inv
  <2>1. ASSUME Init PROVE Waiters = {}
    BY <2>1 DEF Init, SemInit, Waiters, At
  <2>2. ASSUME Init PROVE WaitersFitChannel
    BY <2>1, <2>2, FS_EmptySet, SemaphoreAssumption DEF WaitersFitChannel, MaxConcurrency
  <2>. QED
    BY <2>2, BreakerIndInit
<1>2. Inv /\ [Next]_vars => Inv'
  <2>1. ASSUME Inv, NEW g \in Goroutines, Step(g) PROVE Inv'
    BY <2>1, BreakerIndStep, WaitersFitStep
  <2>2. ASSUME Inv, UNCHANGED vars PROVE Inv'
    BY <2>2, BreakerIndStutter DEF WaitersFitChannel, Waiters, At, vars, MaxConcurrency
  <2>. QED
    BY <2>1, <2>2 DEF Next
<1>. QED
  BY <1>1, <1>2, PTL DEF Spec

(* When the channel has room for every permit or the queue is no deeper     *)
(* than the permits, the tries to come cover the free permits or there is a *)
(* wakeup for every waiter: a poke is only dropped (semaphore.go:68-71)     *)
(* from a channel that has enough.                                          *)
THEOREM BreakerWakeupsSuffice ==
    ASSUME MaxConcurrency >= InitialCapacity \/ QueueDepth <= InitialCapacity
    PROVE  Spec => [](SemInd /\ WakeupsSuffice)
<1>. DEFINE Fit == MaxCapacity >= InitialCapacity \/ Cardinality(Waiters) <= MaxCapacity
            Inv == SemInd /\ WakeupsSuffice
<1>1. Spec => []Fit
  <2>1. CASE MaxConcurrency >= InitialCapacity
    <3>1. Fit
      BY <2>1 DEF MaxConcurrency
    <3>. QED
      BY <3>1, PTL
  <2>2. CASE QueueDepth <= InitialCapacity
    <3>1. Spec => []WaitersFitChannel
      BY <2>2, BreakerWaitersFitChannel
    <3>2. WaitersFitChannel => Fit
      BY DEF WaitersFitChannel, MaxConcurrency
    <3>. QED
      BY <3>1, <3>2, PTL
  <2>. QED
    BY <2>1, <2>2
<1>2. Init => Inv
  BY SemIndInit, WakeupsInit DEF Init
<1>3. Fit /\ Inv /\ [Next]_vars => Inv'
  <2>1. ASSUME Fit, Inv, NEW g \in Goroutines, SemStep(g) PROVE Inv'
    BY <2>1, SemIndStep, WakeupsStep
  <2>2. ASSUME Inv, UNCHANGED semVars PROVE Inv'
    BY <2>2, SemIndStutter DEF WakeupsSuffice, Contenders, Waiters, Pokers, At, semVars
  <2>. QED
    BY <2>1, <2>2, StepUsesSemaphore DEF Next, vars, semVars
<1>. QED
  BY <1>1, <1>2, <1>3, PTL DEF Spec

(* So the comment at semaphore.go:63-67 holds in the breaker: a call        *)
(* blocked in acquire while a permit is free always has a wakeup, a poke or *)
(* a contender to come.                                                     *)
THEOREM BreakerNoLostWakeup ==
    ASSUME MaxConcurrency >= InitialCapacity \/ QueueDepth <= InitialCapacity
    PROVE  Spec => []NoLostWakeup
BY BreakerWakeupsSuffice, WakeupsImplyNoneLost, PTL
-----------------------------------------------------------------------------
(* Maybe is a gate. *)

(* When one call moves, the place of no other changes. *)
LEMMA PlaceMove ==
    ASSUME NEW g \in Goroutines, NEW l,
           \A x \in Goroutines : x # g => bpc'[x] = bpc[x] /\ pc'[x] = pc[x],
           placeOf'[g] = l
    PROVE  placeOf' = [placeOf EXCEPT ![g] = l]
<1>1. \A x \in Goroutines : x # g => placeOf'[x] = placeOf[x]
  BY DEF placeOf
<1>2. placeOf' = [x \in Goroutines |-> placeOf'[x]]
  BY DEF placeOf
<1>3. [placeOf EXCEPT ![g] = l] = [x \in Goroutines |-> IF x = g THEN l ELSE placeOf[x]]
  BY DEF placeOf
<1>. QED
  BY <1>1, <1>2, <1>3

(* What a call's two labels say of its place. *)
LEMMA PlaceFacts ==
    ASSUME BreakerInd, NEW g \in Goroutines
    PROVE  /\ bpc[g] = "out" <=> placeOf[g] = "outside"
           /\ bpc[g] \in {"tryLoad", "tryCas"} <=> placeOf[g] = "asking"
           /\ pc[g] \in {"load", "select", "cas"} <=> placeOf[g] = "waiting"
           /\ pc[g] \in {"held", "rload", "rcas"} <=> placeOf[g] = "running"
           /\ bpc[g] \in {"slotLoad", "slotCas"} \/ pc[g] = "rpoke" <=> placeOf[g] = "leaving"
           /\ bpc[g] \in InsideLabels <=> placeOf[g] \in {"waiting", "running", "leaving"}
<1>1. /\ bpc[g] \in BreakerLabels /\ pc[g] \in Labels
      /\ pc[g] # "idle" <=> bpc[g] = "sem"
  BY DEF BreakerInd, TypeOK, SemTypeOK
<1>. QED
  BY <1>1 DEF placeOf, BreakerLabels, Labels, InsideLabels

LEMMA PlaceFactsPrime ==
    ASSUME BreakerInd', NEW g \in Goroutines
    PROVE  /\ bpc'[g] = "out" <=> placeOf'[g] = "outside"
           /\ bpc'[g] \in {"tryLoad", "tryCas"} <=> placeOf'[g] = "asking"
           /\ pc'[g] \in {"load", "select", "cas"} <=> placeOf'[g] = "waiting"
           /\ pc'[g] \in {"held", "rload", "rcas"} <=> placeOf'[g] = "running"
           /\ bpc'[g] \in {"slotLoad", "slotCas"} \/ pc'[g] = "rpoke" <=> placeOf'[g] = "leaving"
<1>1. /\ bpc'[g] \in BreakerLabels /\ pc'[g] \in Labels
      /\ pc'[g] # "idle" <=> bpc'[g] = "sem"
  BY DEF BreakerInd, TypeOK, SemTypeOK
<1>. QED
  BY <1>1 DEF placeOf, BreakerLabels, Labels

(* The counters of the code are those of the gate. *)
LEMMA GateCounts ==
    ASSUME BreakerInd
    PROVE  Promise!Taken = inFlight /\ Promise!Cardinality(Promise!Running) = in
<1>1. Promise!On({"waiting", "running", "leaving"}) = Inside
  BY PlaceFacts DEF Promise!On, Inside, InsideLabels
<1>2. Promise!Running = Holders
  BY PlaceFacts DEF Promise!Running, Promise!On, Holders, At
<1>3. Cardinality(Inside) \in Nat /\ inFlight \in Nat
  <2>1. Cardinality(Inside) = CountOf(bpc, InsideLabels)
    BY DEF Inside, CountOf, InsideLabels
  <2>2. CountOf(bpc, InsideLabels) \in Nat
    BY CountIsNat, Zenon
  <2>3. inFlight \in Nat
    BY BreakerAssumption, SemaphoreAssumption DEF BreakerInd, TypeOK, TotalSlots, MaxConcurrency
  <2>. QED
    BY <2>1, <2>2, <2>3
<1>4. Promise!Taken = Cardinality(Inside) + (inFlight - Cardinality(Inside))
  <2>1. Promise!Cardinality(Inside) = Cardinality(Inside)
    BY DEF Promise!Cardinality, Cardinality
  <2>. QED
    BY <1>1, <2>1 DEF Promise!Taken, Leaked
<1>5. in = Cardinality(Holders)
  BY DEF BreakerInd, SemInd, PermitsCounted
<1>6. Promise!Cardinality(Holders) = Cardinality(Holders)
  BY DEF Promise!Cardinality, Cardinality
<1>. QED
  BY <1>2, <1>3, <1>4, <1>5, <1>6

(* A step of a call is one of the gate, or the gate does not see it. *)
LEMMA StepIsGateStep ==
    ASSUME BreakerInd, NEW g \in Goroutines, Step(g)
    PROVE  Promise!Next \/ UNCHANGED <<placeOf, Leaked, disturbedOf>>
<1>. USE SemaphoreAssumption, BreakerAssumption
<1>0. /\ bpc \in [Goroutines -> BreakerLabels] /\ cur \in [Goroutines -> 0..TotalSlots]
      /\ inFlight \in Nat /\ TotalSlots \in Nat /\ pc \in [Goroutines -> Labels]
      /\ \A x \in Goroutines : pc[x] # "idle" <=> bpc[x] = "sem"
  BY DEF BreakerInd, TypeOK, SemTypeOK, TotalSlots, MaxConcurrency
<1>1. BreakerInd'
  BY BreakerIndStep
<1>2. Promise!Taken = inFlight /\ Promise!Cardinality(Promise!Running) = in
  BY GateCounts
<1>. DEFINE n == Cardinality(Inside)
<1>a. ASSUME NEW l \in BreakerLabels, bpc' = [bpc EXCEPT ![g] = l]
      PROVE  /\ n \in Nat /\ n' \in Nat
             /\ n' = n + (IF l \in InsideLabels THEN 1 ELSE 0)
                       - (IF bpc[g] \in InsideLabels THEN 1 ELSE 0)
  BY <1>0, <1>a, InsideMove
<1>b. Leaked = inFlight - n /\ Leaked' = inFlight' - n'
  BY DEF Leaked
<1>. HIDE DEF n
<1>3. ASSUME NEW l \in BreakerLabels, bpc' = [bpc EXCEPT ![g] = l], inFlight' = inFlight,
             l \in InsideLabels <=> bpc[g] \in InsideLabels
      PROVE  Leaked' = Leaked
  <2>1. n \in Nat /\ n' = n
    <3>1. /\ n \in Nat /\ n' \in Nat
          /\ n' = n + (IF l \in InsideLabels THEN 1 ELSE 0)
                    - (IF bpc[g] \in InsideLabels THEN 1 ELSE 0)
      BY <1>3, <1>a
    <3>2. CASE l \in InsideLabels
      BY <1>3, <3>1, <3>2
    <3>3. CASE l \notin InsideLabels
      BY <1>3, <3>1, <3>3
    <3>. QED
      BY <3>2, <3>3
  <2>. QED
    BY <1>3, <1>b, <2>1
<1>4. CASE CallMaybe(g)
  <2>1. /\ bpc' = [bpc EXCEPT ![g] = "tryLoad"] /\ bpc[g] = "out"
        /\ inFlight' = inFlight /\ cur' = cur /\ pc' = pc
    BY <1>4 DEF CallMaybe, Move, semVars
  <2>2. placeOf[g] = "outside" /\ placeOf'[g] = "asking"
    BY <1>0, <1>1, <2>1, PlaceFacts, PlaceFactsPrime
  <2>3. placeOf' = [placeOf EXCEPT ![g] = "asking"]
    BY <1>0, <2>1, <2>2, PlaceMove
  <2>4. Leaked' = Leaked
    BY <1>3, <2>1 DEF BreakerLabels, InsideLabels
  <2>5. disturbedOf' = disturbedOf
    BY <1>0, <2>1 DEF disturbedOf
  <2>. QED
    BY <2>2, <2>3, <2>4, <2>5 DEF Promise!Next, Promise!Ask, Promise!Go
<1>5. CASE RejectQueueFull(g)
  <2>1. /\ bpc' = [bpc EXCEPT ![g] = "out"] /\ bpc[g] = "tryLoad" /\ inFlight >= TotalSlots
        /\ inFlight' = inFlight /\ cur' = [cur EXCEPT ![g] = inFlight] /\ pc' = pc
    BY <1>5 DEF RejectQueueFull, Move, semVars
  <2>2. placeOf[g] = "asking" /\ placeOf'[g] = "outside"
    BY <1>0, <1>1, <2>1, PlaceFacts, PlaceFactsPrime
  <2>3. placeOf' = [placeOf EXCEPT ![g] = "outside"]
    BY <1>0, <2>1, <2>2, PlaceMove
  <2>4. Leaked' = Leaked
    BY <1>3, <2>1 DEF BreakerLabels, InsideLabels
  <2>5. disturbedOf' = disturbedOf
    BY <1>0, <2>1 DEF disturbedOf
  <2>. QED
    BY <1>2, <2>1, <2>2, <2>3, <2>4, <2>5 DEF Promise!Next, Promise!Refuse, Promise!Go
<1>6. CASE TryLoad(g) \/ (TryCas(g) /\ inFlight # cur[g])
  <2>1. PICK l \in {"tryLoad", "tryCas"} :
            /\ bpc' = [bpc EXCEPT ![g] = l] /\ bpc[g] \in {"tryLoad", "tryCas"}
            /\ inFlight' = inFlight /\ pc' = pc
            /\ \A x \in Goroutines : x # g => cur'[x] = cur[x]
    BY <1>0, <1>6 DEF TryLoad, TryCas, Move, semVars
  <2>2. placeOf[g] = "asking" /\ placeOf'[g] = "asking"
    BY <1>0, <1>1, <2>1, PlaceFacts, PlaceFactsPrime
  <2>3. placeOf' = [placeOf EXCEPT ![g] = "asking"]
    BY <1>0, <2>1, <2>2, PlaceMove
  <2>4. placeOf' = placeOf
    BY <2>2, <2>3 DEF placeOf
  <2>5. Leaked' = Leaked
    BY <1>3, <2>1 DEF BreakerLabels, InsideLabels
  <2>6. disturbedOf' = disturbedOf
    BY <1>0, <2>1 DEF disturbedOf
  <2>. QED
    BY <2>4, <2>5, <2>6
<1>7. CASE TryCas(g) /\ inFlight = cur[g]
  <2>1. /\ bpc' = [bpc EXCEPT ![g] = "sem"] /\ bpc[g] = "tryCas"
        /\ inFlight' = inFlight + 1 /\ cur' = cur /\ pc' = [pc EXCEPT ![g] = "load"]
    BY <1>7 DEF TryCas, Move, CallAcquire, Goto
  <2>2. placeOf[g] = "asking" /\ placeOf'[g] = "waiting"
    BY <1>0, <1>1, <2>1, PlaceFacts, PlaceFactsPrime
  <2>3. placeOf' = [placeOf EXCEPT ![g] = "waiting"]
    BY <1>0, <2>1, <2>2, PlaceMove
  <2>4. inFlight < TotalSlots
    BY <1>7, <2>1 DEF BreakerInd, SlotSwapsSawRoom
  <2>5. Leaked' = Leaked
    <3>1. n \in Nat /\ n' = n + 1
      BY <1>a, <2>1 DEF BreakerLabels, InsideLabels
    <3>. QED
      BY <1>0, <1>b, <2>1, <3>1
  <2>6. disturbedOf' \in SUBSET Promise!Leaving
    <3>1. \A x \in Goroutines : bpc'[x] = "slotCas" => placeOf[x] = "leaving"
      BY <1>0, <2>1, PlaceFacts
    <3>. QED
      BY <3>1 DEF disturbedOf, Promise!Leaving, Promise!On
  <2>. QED
    BY <1>2, <2>2, <2>3, <2>4, <2>5, <2>6 DEF Promise!Next, Promise!Enter, Promise!Go
<1>8. CASE InSemaphore(g)
  <2>1. /\ bpc[g] = "sem" /\ inFlight' = inFlight /\ cur' = cur
        /\ \E l \in {"sem", "slotLoad"} : bpc' = [bpc EXCEPT ![g] = l]
    BY <1>8 DEF InSemaphore, Move
  <2>2. \A x \in Goroutines : x # g => pc'[x] = pc[x]
    BY <1>0, <1>8 DEF InSemaphore, SemInner, AcquireLoad, AcquireCtxDone, AcquireWake, AcquireCas,
                  CallRelease, ReleaseLoad, ReleaseCas, ReleasePoke, Goto
  <2>3. \A x \in Goroutines : x # g => bpc'[x] = bpc[x]
    BY <1>0, <2>1
  <2>4. Leaked' = Leaked
    BY <1>3, <2>1 DEF BreakerLabels, InsideLabels
  <2>5. disturbedOf' = disturbedOf
    BY <1>0, <2>1 DEF disturbedOf
  <2>6. placeOf' = [placeOf EXCEPT ![g] = placeOf'[g]]
    BY <2>2, <2>3, PlaceMove
  <2>7. CASE \/ placeOf[g] = "waiting" /\ placeOf'[g] = "leaving"
             \/ placeOf[g] = "running" /\ placeOf'[g] = "leaving"
    BY <2>4, <2>5, <2>6, <2>7 DEF Promise!Next, Promise!Finish, Promise!Go
  <2>8. CASE placeOf[g] = "waiting" /\ placeOf'[g] = "running" /\ in < InitialCapacity
    BY <1>2, <2>4, <2>5, <2>6, <2>8 DEF Promise!Next, Promise!Run, Promise!Go
  <2>9. CASE placeOf'[g] = placeOf[g]
    <3>1. placeOf = [x \in Goroutines |-> placeOf[x]]
      BY DEF placeOf
    <3>2. placeOf' = placeOf
      BY <2>6, <2>9, <3>1
    <3>. QED
      BY <3>2, <2>4, <2>5
  <2>10. CASE AcquireLoad(g) \/ AcquireWake(g) \/ (AcquireCas(g) /\ in # old[g])
    <3>1. pc[g] \in {"load", "select", "cas"} /\ pc'[g] \in {"load", "select", "cas"}
      BY <1>0, <2>10 DEF AcquireLoad, AcquireWake, AcquireCas, Goto
    <3>. QED
      BY <1>1, <2>9, <3>1, PlaceFacts, PlaceFactsPrime
  <2>11. CASE AcquireCtxDone(g)
    <3>1. pc[g] = "select" /\ pc'[g] = "idle"
      BY <1>0, <2>11 DEF AcquireCtxDone, Goto
    <3>2. bpc'[g] = "slotLoad"
      BY <1>0, <1>8, <3>1 DEF InSemaphore, Move
    <3>. QED
      BY <1>1, <2>7, <3>1, <3>2, PlaceFacts, PlaceFactsPrime
  <2>12. CASE AcquireCas(g) /\ in = old[g]
    <3>1. pc[g] = "cas" /\ pc'[g] = "held"
      BY <1>0, <2>12 DEF AcquireCas, Goto
    <3>2. in < InitialCapacity
      BY <2>12, <3>1 DEF BreakerInd, SemInd, SwapsSawRoom
    <3>. QED
      BY <1>1, <2>8, <3>1, <3>2, PlaceFacts, PlaceFactsPrime
  <2>13. CASE CallRelease(g) \/ ReleaseLoad(g) \/ (ReleaseCas(g) /\ in # old[g])
    <3>1. pc[g] \in {"held", "rload", "rcas"} /\ pc'[g] \in {"held", "rload", "rcas"}
      BY <1>0, <2>13 DEF CallRelease, ReleaseLoad, ReleaseCas, Goto
    <3>. QED
      BY <1>1, <2>9, <3>1, PlaceFacts, PlaceFactsPrime
  <2>14. CASE ReleaseCas(g) /\ in = old[g]
    <3>1. pc[g] = "rcas" /\ pc'[g] \in {"rpoke", "idle"}
      BY <1>0, <2>14 DEF ReleaseCas, Goto
    <3>2. bpc'[g] = "slotLoad" \/ pc'[g] = "rpoke"
      BY <1>0, <1>8, <3>1 DEF InSemaphore, Move
    <3>. QED
      BY <1>1, <2>7, <3>1, <3>2, PlaceFacts, PlaceFactsPrime
  <2>15. CASE ReleasePoke(g)
    <3>1. pc[g] = "rpoke" /\ pc'[g] = "idle"
      BY <1>0, <2>15 DEF ReleasePoke, Goto
    <3>2. bpc'[g] = "slotLoad"
      BY <1>0, <1>8, <3>1 DEF InSemaphore, Move
    <3>. QED
      BY <1>1, <2>9, <3>1, <3>2, PlaceFacts, PlaceFactsPrime
  <2>. QED
    BY <1>8, <2>10, <2>11, <2>12, <2>13, <2>14, <2>15 DEF InSemaphore, SemInner
<1>9. CASE SlotLoad(g)
  <2>1. /\ bpc' = [bpc EXCEPT ![g] = "slotCas"] /\ bpc[g] = "slotLoad"
        /\ inFlight' = inFlight /\ cur' = [cur EXCEPT ![g] = inFlight] /\ pc' = pc
    BY <1>9 DEF SlotLoad, Move, semVars
  <2>2. placeOf[g] = "leaving" /\ placeOf'[g] = "leaving"
    BY <1>0, <1>1, <2>1, PlaceFacts, PlaceFactsPrime
  <2>3. placeOf' = [placeOf EXCEPT ![g] = "leaving"]
    BY <1>0, <2>1, <2>2, PlaceMove
  <2>4. placeOf' = placeOf
    BY <2>2, <2>3 DEF placeOf
  <2>5. Leaked' = Leaked
    BY <1>3, <2>1 DEF BreakerLabels, InsideLabels
  <2>6. disturbedOf' = disturbedOf
    BY <1>0, <2>1 DEF disturbedOf
  <2>. QED
    BY <2>4, <2>5, <2>6
<1>10. CASE SlotCas(g)
  <2>1. /\ bpc' = [bpc EXCEPT ![g] = "out"] /\ bpc[g] = "slotCas"
        /\ inFlight' = IF inFlight = cur[g] THEN inFlight - 1 ELSE inFlight
        /\ cur' = cur /\ pc' = pc
    BY <1>10 DEF SlotCas, Move, semVars
  <2>2. placeOf[g] = "leaving" /\ placeOf'[g] = "outside"
    BY <1>0, <1>1, <2>1, PlaceFacts, PlaceFactsPrime
  <2>3. placeOf' = [placeOf EXCEPT ![g] = "outside"]
    BY <1>0, <2>1, <2>2, PlaceMove
  <2>4. n \in Nat /\ n' = n - 1
    BY <1>a, <2>1 DEF BreakerLabels, InsideLabels
  <2>5. CASE inFlight = cur[g]
    <3>1. Leaked' = Leaked
      BY <1>0, <1>b, <2>1, <2>4, <2>5
    <3>2. g \notin disturbedOf
      BY <2>5 DEF disturbedOf
    <3>3. disturbedOf' \in SUBSET (Promise!Leaving \ {g})
      <4>1. \A x \in Goroutines : bpc'[x] = "slotCas" => placeOf[x] = "leaving" /\ x # g
        BY <1>0, <2>1, PlaceFacts
      <4>. QED
        BY <4>1 DEF disturbedOf, Promise!Leaving, Promise!On
    <3>. QED
      BY <2>2, <2>3, <3>1, <3>2, <3>3 DEF Promise!Next, Promise!GiveBack, Promise!Go
  <2>6. CASE inFlight # cur[g]
    <3>1. Leaked' = Leaked + 1
      BY <1>0, <1>b, <2>1, <2>4, <2>6
    <3>2. g \in disturbedOf /\ disturbedOf' = disturbedOf \ {g}
      BY <1>0, <2>1, <2>6 DEF disturbedOf
    <3>. QED
      BY <2>2, <2>3, <3>1, <3>2 DEF Promise!Next, Promise!Leak, Promise!Go
  <2>. QED
    BY <2>5, <2>6
<1>. QED
  BY <1>4, <1>5, <1>6, <1>7, <1>8, <1>9, <1>10 DEF Step

(* Maybe keeps the promise of Gate for every number of callers and every setting   *)
(* (breaker.go:41-90): a call is refused only if the slots, leaked ones included,  *)
(* are used up, runs only with a permit, and loses its slot only if another call   *)
(* took or gave back one while it was leaving.                                     *)
THEOREM BreakerImplementsGate == Spec => ImplementsGate
<1>1. Init => Promise!Init
  <2>. SUFFICES ASSUME Init PROVE Promise!Init
    OBVIOUS
  <2>1. placeOf = [g \in Goroutines |-> "outside"] /\ disturbedOf = {}
    BY DEF Init, placeOf, disturbedOf
  <2>2. Inside = {}
    BY DEF Init, Inside
  <2>3. Leaked = 0
    BY <2>2, FS_EmptySet DEF Init, Leaked
  <2>. QED
    BY <2>1, <2>3 DEF Promise!Init
<1>2. BreakerInd /\ [Next]_vars => BreakerInd'
  BY BreakerIndStep, BreakerIndStutter DEF Next
<1>3. BreakerInd /\ [Next]_vars => [Promise!Next]_(Promise!gateVars)
  <2>1. ASSUME BreakerInd, Next PROVE Promise!Next \/ UNCHANGED <<placeOf, Leaked, disturbedOf>>
    BY <2>1, StepIsGateStep DEF Next
  <2>2. UNCHANGED vars => UNCHANGED <<placeOf, Leaked, disturbedOf>>
    BY DEF vars, placeOf, Leaked, Inside, disturbedOf
  <2>. QED
    BY <2>1, <2>2 DEF Promise!gateVars
<1>. QED
  BY BreakerIndInit, <1>1, <1>2, <1>3, PTL DEF Spec, ImplementsGate, Promise!GateSpec
=============================================================================
