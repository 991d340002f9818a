-------------------------- MODULE SemaphoreProofs --------------------------
(***************************************************************************)
(* Proofs about the semaphore, for every number of goroutines, permits and *)
(* channel size.                                                           *)
(***************************************************************************)
EXTENDS Semaphore, FiniteSetTheorems, TLAPS

(* The number of goroutines that a program counter f puts at a label of S. *)
CountOf(f, S) == Cardinality({x \in Goroutines : f[x] \in S})

(* A count is a number, and positive as soon as one goroutine is counted.   *)
LEMMA CountIsNat ==
    ASSUME NEW f, NEW S
    PROVE  /\ IsFiniteSet({x \in Goroutines : f[x] \in S})
           /\ CountOf(f, S) \in Nat
           /\ \A g \in Goroutines : f[g] \in S => CountOf(f, S) > 0
           /\ CountOf(f, S) > 0 => \E g \in Goroutines : f[g] \in S
<1>. DEFINE A == {x \in Goroutines : f[x] \in S}
<1>1. IsFiniteSet(A)
  BY FS_Subset, SemaphoreAssumption
<1>2. Cardinality(A) \in Nat
  BY <1>1, FS_CardinalityType
<1>3. Cardinality(A) = 0 <=> A = {}
  BY <1>1, FS_EmptySet
<1>. QED
  BY <1>1, <1>2, <1>3 DEF CountOf

(* Moving one goroutine to another label changes a count by what it leaves  *)
(* and what it enters.                                                      *)
LEMMA CountMove ==
    ASSUME NEW f, NEW h, NEW g \in Goroutines, NEW S,
           \A x \in Goroutines : x # g => h[x] = f[x]
    PROVE  /\ f[g] \in S /\ h[g] \in S => CountOf(h, S) = CountOf(f, S)
           /\ f[g] \notin S /\ h[g] \notin S => CountOf(h, S) = CountOf(f, S)
           /\ f[g] \notin S /\ h[g] \in S => CountOf(h, S) = CountOf(f, S) + 1
           /\ f[g] \in S /\ h[g] \notin S => CountOf(h, S) = CountOf(f, S) - 1
<1>. DEFINE A == {x \in Goroutines : f[x] \in S}
            B == {x \in Goroutines : h[x] \in S}
<1>0. IsFiniteSet(A) /\ Cardinality(A) \in Nat
  BY CountIsNat DEF CountOf
<1>1. CASE (h[g] \in S) <=> (f[g] \in S)
  <2>1. A = B
    BY <1>1
  <2>. QED
    BY <1>1, <2>1 DEF CountOf
<1>2. CASE h[g] \in S /\ f[g] \notin S
  <2>1. B = A \cup {g} /\ g \notin A
    BY <1>2
  <2>2. Cardinality(B) = Cardinality(A) + 1
    BY <1>0, <2>1, FS_AddElement
  <2>. QED
    BY <1>2, <2>2 DEF CountOf
<1>3. CASE h[g] \notin S /\ f[g] \in S
  <2>1. B = A \ {g} /\ g \in A
    BY <1>3
  <2>2. Cardinality(B) = Cardinality(A) - 1
    BY <1>0, <2>1, FS_RemoveElement
  <2>. QED
    BY <1>3, <2>2 DEF CountOf
<1>. QED
  BY <1>1, <1>2, <1>3

(* The same for a step that changes pc. *)
LEMMA CountPc ==
    ASSUME NEW g \in Goroutines, NEW S,
           \A x \in Goroutines : x # g => pc'[x] = pc[x]
    PROVE  /\ pc[g] \in S /\ pc'[g] \in S => CountOf(pc', S) = CountOf(pc, S)
           /\ pc[g] \notin S /\ pc'[g] \notin S => CountOf(pc', S) = CountOf(pc, S)
           /\ pc[g] \notin S /\ pc'[g] \in S => CountOf(pc', S) = CountOf(pc, S) + 1
           /\ pc[g] \in S /\ pc'[g] \notin S => CountOf(pc', S) = CountOf(pc, S) - 1
BY CountMove, Zenon

(* The same for a step of the code that moves g to label l. *)
LEMMA CountStep ==
    ASSUME pc \in [Goroutines -> Labels], NEW g \in Goroutines, NEW l \in Labels,
           pc' = [pc EXCEPT ![g] = l], NEW S
    PROVE  /\ pc[g] \in S /\ l \in S => CountOf(pc', S) = CountOf(pc, S)
           /\ pc[g] \notin S /\ l \notin S => CountOf(pc', S) = CountOf(pc, S)
           /\ pc[g] \notin S /\ l \in S => CountOf(pc', S) = CountOf(pc, S) + 1
           /\ pc[g] \in S /\ l \notin S => CountOf(pc', S) = CountOf(pc, S) - 1
<1>1. pc'[g] = l /\ \A x \in Goroutines : x # g => pc'[x] = pc[x]
  OBVIOUS
<1>. QED
  BY <1>1, CountPc

(* The four classes of goroutines as counts. *)
LEMMA Classes ==
    /\ Cardinality(Waiters) = CountOf(pc, {"select"})
    /\ Cardinality(Contenders) = CountOf(pc, {"load", "cas"})
    /\ Cardinality(Holders) = CountOf(pc, {"held", "rload", "rcas"})
    /\ Cardinality(Pokers) = CountOf(pc, {"rpoke"})
BY DEF Waiters, Contenders, Holders, Pokers, At, CountOf

(* The same after a step. *)
LEMMA ClassesPrime ==
    /\ Cardinality(Waiters)' = CountOf(pc', {"select"})
    /\ Cardinality(Contenders)' = CountOf(pc', {"load", "cas"})
    /\ Cardinality(Holders)' = CountOf(pc', {"held", "rload", "rcas"})
    /\ Cardinality(Pokers)' = CountOf(pc', {"rpoke"})
BY DEF Waiters, Contenders, Holders, Pokers, At, CountOf

-----------------------------------------------------------------------------
(* The inductive invariant.  PermitsCounted is not inductive without the    *)
(* types, and the bound on `in` needs that a goroutine about to swap saw a  *)
(* free permit.                                                             *)
SwapsSawRoom == \A g \in Goroutines : pc[g] = "cas" => old[g] < InitialCapacity

SemInd == SemTypeOK /\ PermitsCounted /\ SwapsSawRoom

(* The initial state has no holder.                                         *)
LEMMA SemIndInit == SemInit => SemInd
<1>. SUFFICES ASSUME SemInit PROVE SemInd
  OBVIOUS
<1>1. SemTypeOK /\ SwapsSawRoom
  BY SemaphoreAssumption DEF SemInit, InitialWakeups, SemTypeOK, SwapsSawRoom, Labels
<1>2. Holders = {}
  BY DEF SemInit, Holders, At
<1>3. PermitsCounted
  BY <1>2, FS_EmptySet DEF SemInit, PermitsCounted
<1>. QED
  BY <1>1, <1>3 DEF SemInd

(* Every step of a goroutine inside the semaphore keeps the permits counted.*)
LEMMA SemIndStep ==
    ASSUME SemInd, NEW g \in Goroutines, SemStep(g)
    PROVE  SemInd'
<1>. USE SemaphoreAssumption
<1>. DEFINE HL == {"held", "rload", "rcas"}
<1>a. /\ pc \in [Goroutines -> Labels] /\ old \in [Goroutines -> 0..InitialCapacity]
      /\ in \in 0..InitialCapacity /\ queue \in 0..MaxCapacity /\ in \in Nat
  BY DEF SemInd, SemTypeOK
<1>b. in = CountOf(pc, HL)
  BY Classes DEF SemInd, PermitsCounted
<1>c. pc[g] \in HL => in > 0
  BY <1>b, CountIsNat
<1>0. /\ pc \in [Goroutines -> Labels] /\ old \in [Goroutines -> 0..InitialCapacity]
      /\ in \in 0..InitialCapacity /\ queue \in 0..MaxCapacity
      /\ in = CountOf(pc, HL) /\ in \in Nat
      /\ pc[g] \in HL => in > 0
  BY <1>a, <1>b, <1>c
<1>1. ASSUME NEW l \in Labels, pc' = [pc EXCEPT ![g] = l]
      PROVE  /\ pc[g] \in HL /\ l \in HL => CountOf(pc', HL) = in
             /\ pc[g] \notin HL /\ l \notin HL => CountOf(pc', HL) = in
             /\ pc[g] \notin HL /\ l \in HL => CountOf(pc', HL) = in + 1
             /\ pc[g] \in HL /\ l \notin HL => CountOf(pc', HL) = in - 1
  <2>. HIDE DEF HL
  <2>1. /\ pc[g] \in HL /\ l \in HL => CountOf(pc', HL) = CountOf(pc, HL)
        /\ pc[g] \notin HL /\ l \notin HL => CountOf(pc', HL) = CountOf(pc, HL)
        /\ pc[g] \notin HL /\ l \in HL => CountOf(pc', HL) = CountOf(pc, HL) + 1
        /\ pc[g] \in HL /\ l \notin HL => CountOf(pc', HL) = CountOf(pc, HL) - 1
    BY <1>a, <1>1, CountStep, Zenon
  <2>. QED
    BY <1>b, <2>1
<1>2. SUFFICES SemTypeOK' /\ in' = CountOf(pc', HL) /\ SwapsSawRoom'
  BY ClassesPrime DEF SemInd, PermitsCounted
<1>3. CASE CallAcquire(g)
  <2>1. pc' = [pc EXCEPT ![g] = "load"] /\ pc[g] = "idle"
    BY <1>3 DEF CallAcquire, Goto
  <2>. QED
    BY <1>0, <1>1, <1>3, <2>1 DEF SemInd, SemTypeOK, SwapsSawRoom, CallAcquire, Labels
<1>4. CASE AcquireLoad(g)
  <2>0. pc[g] = "load" /\ old' = [old EXCEPT ![g] = in] /\ in' = in /\ queue' = queue
    BY <1>4 DEF AcquireLoad
  <2>1. CASE in >= InitialCapacity
    <3>1. pc' = [pc EXCEPT ![g] = "select"]
      BY <1>4, <2>1 DEF AcquireLoad, Goto
    <3>. QED
      BY <1>0, <1>1, <2>0, <3>1 DEF SemInd, SemTypeOK, SwapsSawRoom, Labels
  <2>2. CASE ~(in >= InitialCapacity)
    <3>1. pc' = [pc EXCEPT ![g] = "cas"]
      BY <1>4, <2>2 DEF AcquireLoad, Goto
    <3>. QED
      BY <1>0, <1>1, <2>0, <2>2, <3>1 DEF SemInd, SemTypeOK, SwapsSawRoom, Labels
  <2>. QED
    BY <2>1, <2>2
<1>5. CASE AcquireCtxDone(g)
  <2>1. pc' = [pc EXCEPT ![g] = "idle"] /\ pc[g] = "select"
    BY <1>5 DEF AcquireCtxDone, Goto
  <2>. QED
    BY <1>0, <1>1, <1>5, <2>1 DEF SemInd, SemTypeOK, SwapsSawRoom, AcquireCtxDone, Labels
<1>6. CASE AcquireWake(g)
  <2>1. pc' = [pc EXCEPT ![g] = "load"] /\ pc[g] = "select"
    BY <1>6 DEF AcquireWake, Goto
  <2>. QED
    BY <1>0, <1>1, <1>6, <2>1 DEF SemInd, SemTypeOK, SwapsSawRoom, AcquireWake, Labels
<1>7. CASE AcquireCas(g)
  <2>1. CASE in = old[g]
    <3>1. pc' = [pc EXCEPT ![g] = "held"] /\ pc[g] = "cas" /\ in' = in + 1
      BY <1>7, <2>1 DEF AcquireCas, Goto
    <3>2. in < InitialCapacity
      BY <2>1, <3>1 DEF SemInd, SwapsSawRoom
    <3>. QED
      BY <1>0, <1>1, <1>7, <3>1, <3>2 DEF SemInd, SemTypeOK, SwapsSawRoom, AcquireCas, Labels
  <2>2. CASE in # old[g]
    <3>1. pc' = [pc EXCEPT ![g] = "load"] /\ pc[g] = "cas" /\ in' = in
      BY <1>7, <2>2 DEF AcquireCas, Goto
    <3>. QED
      BY <1>0, <1>1, <1>7, <3>1 DEF SemInd, SemTypeOK, SwapsSawRoom, AcquireCas, Labels
  <2>. QED
    BY <2>1, <2>2
<1>8. CASE CallRelease(g)
  <2>1. pc' = [pc EXCEPT ![g] = "rload"] /\ pc[g] = "held"
    BY <1>8 DEF CallRelease, Goto
  <2>. QED
    BY <1>0, <1>1, <1>8, <2>1 DEF SemInd, SemTypeOK, SwapsSawRoom, CallRelease, Labels
<1>9. CASE ReleaseLoad(g)
  <2>1. pc' = [pc EXCEPT ![g] = "rcas"] /\ pc[g] = "rload"
    BY <1>9 DEF ReleaseLoad, Goto
  <2>. QED
    BY <1>0, <1>1, <1>9, <2>1 DEF SemInd, SemTypeOK, SwapsSawRoom, ReleaseLoad, Labels
<1>10. CASE ReleaseCas(g)
  <2>1. CASE in = old[g]
    <3>1. pc[g] = "rcas" /\ in' = in - 1 /\ in > 0
      BY <1>0, <1>10, <2>1 DEF ReleaseCas
    <3>2. pc' = [pc EXCEPT ![g] = "rpoke"]
      BY <1>0, <1>10, <2>1, <3>1 DEF ReleaseCas, Goto
    <3>. QED
      BY <1>0, <1>1, <1>10, <3>1, <3>2 DEF SemInd, SemTypeOK, SwapsSawRoom, ReleaseCas, Labels
  <2>2. CASE in # old[g]
    <3>1. pc' = [pc EXCEPT ![g] = "rload"] /\ pc[g] = "rcas" /\ in' = in
      BY <1>10, <2>2 DEF ReleaseCas, Goto
    <3>. QED
      BY <1>0, <1>1, <1>10, <3>1 DEF SemInd, SemTypeOK, SwapsSawRoom, ReleaseCas, Labels
  <2>. QED
    BY <2>1, <2>2
<1>11. CASE ReleasePoke(g)
  <2>1. pc' = [pc EXCEPT ![g] = "idle"] /\ pc[g] = "rpoke"
    BY <1>11 DEF ReleasePoke, Goto
  <2>. QED
    BY <1>0, <1>1, <1>11, <2>1 DEF SemInd, SemTypeOK, SwapsSawRoom, ReleasePoke, Labels
<1>. QED
  BY <1>3, <1>4, <1>5, <1>6, <1>7, <1>8, <1>9, <1>10, <1>11 DEF SemStep, SemInner

(* A stuttering step keeps it too.                                          *)
LEMMA SemIndStutter == SemInd /\ UNCHANGED semVars => SemInd'
BY DEF SemInd, SemTypeOK, PermitsCounted, SwapsSawRoom, Holders, At, semVars

(* Type correctness and the exact count of permits (semaphore.go:23-73):    *)
(* whatever the number of goroutines, `in` is the number of holders and     *)
(* never exceeds the capacity.                                              *)
THEOREM SemaphoreInvariant == SemSpec => [](SemTypeOK /\ PermitsCounted)
<1>1. SemInd /\ [SemNext]_semVars => SemInd'
  BY SemIndStep, SemIndStutter DEF SemNext
<1>2. SemInd => SemTypeOK /\ PermitsCounted
  BY DEF SemInd
<1>. QED
  BY SemIndInit, <1>1, <1>2, PTL DEF SemSpec

(* The panic "release and acquire are not paired" (semaphore.go:54) cannot  *)
(* happen.                                                                  *)
THEOREM SemaphoreNeverPanics == SemSpec => []ReleasePaired
<1>1. ASSUME PermitsCounted, NEW g \in Goroutines, pc[g] = "rload"
      PROVE  in > 0
  <2>1. in = CountOf(pc, {"held", "rload", "rcas"})
    BY <1>1, Classes DEF PermitsCounted
  <2>. QED
    BY <1>1, <2>1, CountIsNat
<1>2. PermitsCounted => ReleasePaired
  BY <1>1 DEF ReleasePaired
<1>. QED
  BY SemaphoreInvariant, <1>2, PTL

-----------------------------------------------------------------------------
(* How a step changes the numbers of contenders, waiters and pokers. *)
LEMMA TriesMove ==
    ASSUME pc \in [Goroutines -> Labels], NEW g \in Goroutines, NEW l \in Labels,
           pc' = [pc EXCEPT ![g] = l]
    PROVE  /\ Cardinality(Contenders) \in Nat /\ Cardinality(Waiters) \in Nat
           /\ Cardinality(Pokers) \in Nat
           /\ Cardinality(Contenders)' \in Nat /\ Cardinality(Pokers)' \in Nat
           /\ Cardinality(Contenders)' = Cardinality(Contenders)
                + (IF l \in {"load", "cas"} THEN 1 ELSE 0)
                - (IF pc[g] \in {"load", "cas"} THEN 1 ELSE 0)
           /\ Cardinality(Waiters)' = Cardinality(Waiters)
                + (IF l = "select" THEN 1 ELSE 0) - (IF pc[g] = "select" THEN 1 ELSE 0)
           /\ Cardinality(Pokers)' = Cardinality(Pokers)
                + (IF l = "rpoke" THEN 1 ELSE 0) - (IF pc[g] = "rpoke" THEN 1 ELSE 0)
<1>1. ASSUME NEW S
      PROVE  /\ CountOf(pc, S) \in Nat /\ CountOf(pc', S) \in Nat
             /\ CountOf(pc', S) = CountOf(pc, S) + (IF l \in S THEN 1 ELSE 0)
                                                - (IF pc[g] \in S THEN 1 ELSE 0)
  <2>1. CountOf(pc, S) \in Nat /\ CountOf(pc', S) \in Nat
    BY CountIsNat, Zenon
  <2>2. /\ pc[g] \in S /\ l \in S => CountOf(pc', S) = CountOf(pc, S)
        /\ pc[g] \notin S /\ l \notin S => CountOf(pc', S) = CountOf(pc, S)
        /\ pc[g] \notin S /\ l \in S => CountOf(pc', S) = CountOf(pc, S) + 1
        /\ pc[g] \in S /\ l \notin S => CountOf(pc', S) = CountOf(pc, S) - 1
    BY CountStep, Zenon
  <2>. QED
    BY <2>1, <2>2
<1>. DEFINE CL == {"load", "cas"}
            WL == {"select"}
            PL == {"rpoke"}
<1>2. /\ CountOf(pc, CL) \in Nat /\ CountOf(pc', CL) \in Nat
      /\ CountOf(pc', CL) = CountOf(pc, CL) + (IF l \in CL THEN 1 ELSE 0)
                                           - (IF pc[g] \in CL THEN 1 ELSE 0)
  BY <1>1, Zenon
<1>3. /\ CountOf(pc, WL) \in Nat
      /\ CountOf(pc', WL) = CountOf(pc, WL) + (IF l \in WL THEN 1 ELSE 0)
                                           - (IF pc[g] \in WL THEN 1 ELSE 0)
  BY <1>1, Zenon
<1>4. /\ CountOf(pc, PL) \in Nat /\ CountOf(pc', PL) \in Nat
      /\ CountOf(pc', PL) = CountOf(pc, PL) + (IF l \in PL THEN 1 ELSE 0)
                                           - (IF pc[g] \in PL THEN 1 ELSE 0)
  BY <1>1, Zenon
<1>. QED
  BY <1>2, <1>3, <1>4, Classes, ClassesPrime

(* The step lemma of WakeupsSuffice.  Only two steps could break it: a      *)
(* goroutine that goes to sleep saw no free permit, and a poke is dropped   *)
(* only when the channel is full, which the last hypothesis makes enough.   *)
LEMMA WakeupsStep ==
    ASSUME SemInd, WakeupsSuffice, NEW g \in Goroutines, SemStep(g),
           MaxCapacity >= InitialCapacity \/ Cardinality(Waiters) <= MaxCapacity
    PROVE  WakeupsSuffice'
<1>. USE SemaphoreAssumption
<1>. DEFINE c == Cardinality(Contenders)
            w == Cardinality(Waiters)
            p == Cardinality(Pokers)
<1>0. /\ pc \in [Goroutines -> Labels]
      /\ in \in 0..InitialCapacity /\ queue \in 0..MaxCapacity
  BY DEF SemInd, SemTypeOK
<1>1. queue + c + p >= InitialCapacity - in \/ queue + p >= w
  BY DEF WakeupsSuffice
<1>2. SUFFICES queue' + c' + p' >= InitialCapacity - in' \/ queue' + p' >= w'
  BY DEF WakeupsSuffice
<1>3. ASSUME NEW l \in Labels, pc' = [pc EXCEPT ![g] = l]
      PROVE  /\ c \in Nat /\ w \in Nat /\ p \in Nat /\ c' \in Nat /\ p' \in Nat
             /\ c' = c + (IF l \in {"load", "cas"} THEN 1 ELSE 0)
                      - (IF pc[g] \in {"load", "cas"} THEN 1 ELSE 0)
             /\ w' = w + (IF l = "select" THEN 1 ELSE 0) - (IF pc[g] = "select" THEN 1 ELSE 0)
             /\ p' = p + (IF l = "rpoke" THEN 1 ELSE 0) - (IF pc[g] = "rpoke" THEN 1 ELSE 0)
  BY <1>0, <1>3, TriesMove
<1>. HIDE DEF c, w, p
<1>4. CASE CallAcquire(g)
  <2>1. pc' = [pc EXCEPT ![g] = "load"] /\ pc[g] = "idle" /\ in' = in /\ queue' = queue
    BY <1>4 DEF CallAcquire, Goto
  <2>2. c \in Nat /\ w \in Nat /\ p \in Nat /\ c' = c + 1 /\ w' = w /\ p' = p
    BY <1>3, <2>1 DEF Labels
  <2>. QED
    BY <1>0, <1>1, <2>1, <2>2
<1>5. CASE AcquireLoad(g)
  <2>0. pc[g] = "load" /\ in' = in /\ queue' = queue
    BY <1>5 DEF AcquireLoad
  <2>1. CASE in >= InitialCapacity
    <3>1. pc' = [pc EXCEPT ![g] = "select"]
      BY <1>5, <2>1 DEF AcquireLoad, Goto
    <3>2. c' \in Nat /\ p' \in Nat
      BY <1>3, <2>0, <3>1 DEF Labels
    <3>3. InitialCapacity - in' = 0 /\ queue' \in Nat
      BY <1>0, <2>0, <2>1
    <3>4. queue' + c' + p' >= InitialCapacity - in'
      BY <3>2, <3>3
    <3>. QED
      BY <3>4
  <2>2. CASE ~(in >= InitialCapacity)
    <3>1. pc' = [pc EXCEPT ![g] = "cas"]
      BY <1>5, <2>2 DEF AcquireLoad, Goto
    <3>2. c \in Nat /\ w \in Nat /\ p \in Nat /\ c' = c /\ w' = w /\ p' = p
      BY <1>3, <2>0, <3>1 DEF Labels
    <3>. QED
      BY <1>0, <1>1, <2>0, <3>2
  <2>. QED
    BY <2>1, <2>2
<1>6. CASE AcquireCtxDone(g)
  <2>1. pc' = [pc EXCEPT ![g] = "idle"] /\ pc[g] = "select" /\ in' = in /\ queue' = queue
    BY <1>6 DEF AcquireCtxDone, Goto
  <2>2. c \in Nat /\ w \in Nat /\ p \in Nat /\ c' = c /\ w' = w - 1 /\ p' = p
    BY <1>3, <2>1 DEF Labels
  <2>. QED
    BY <1>0, <1>1, <2>1, <2>2
<1>7. CASE AcquireWake(g)
  <2>1. pc' = [pc EXCEPT ![g] = "load"] /\ pc[g] = "select" /\ in' = in /\ queue' = queue - 1
    BY <1>7 DEF AcquireWake, Goto
  <2>2. c \in Nat /\ w \in Nat /\ p \in Nat /\ c' = c + 1 /\ w' = w - 1 /\ p' = p
    BY <1>3, <2>1 DEF Labels
  <2>. QED
    BY <1>0, <1>1, <2>1, <2>2
<1>8. CASE AcquireCas(g)
  <2>1. CASE in = old[g]
    <3>1. pc' = [pc EXCEPT ![g] = "held"] /\ pc[g] = "cas" /\ in' = in + 1 /\ queue' = queue
      BY <1>8, <2>1 DEF AcquireCas, Goto
    <3>2. c \in Nat /\ w \in Nat /\ p \in Nat /\ c' = c - 1 /\ w' = w /\ p' = p
      BY <1>3, <3>1 DEF Labels
    <3>. QED
      BY <1>0, <1>1, <3>1, <3>2
  <2>2. CASE in # old[g]
    <3>1. pc' = [pc EXCEPT ![g] = "load"] /\ pc[g] = "cas" /\ in' = in /\ queue' = queue
      BY <1>8, <2>2 DEF AcquireCas, Goto
    <3>2. c \in Nat /\ w \in Nat /\ p \in Nat /\ c' = c /\ w' = w /\ p' = p
      BY <1>3, <3>1 DEF Labels
    <3>. QED
      BY <1>0, <1>1, <3>1, <3>2
  <2>. QED
    BY <2>1, <2>2
<1>9. CASE CallRelease(g)
  <2>1. pc' = [pc EXCEPT ![g] = "rload"] /\ pc[g] = "held" /\ in' = in /\ queue' = queue
    BY <1>9 DEF CallRelease, Goto
  <2>2. c \in Nat /\ w \in Nat /\ p \in Nat /\ c' = c /\ w' = w /\ p' = p
    BY <1>3, <2>1 DEF Labels
  <2>. QED
    BY <1>0, <1>1, <2>1, <2>2
<1>10. CASE ReleaseLoad(g)
  <2>1. pc' = [pc EXCEPT ![g] = "rcas"] /\ pc[g] = "rload" /\ in' = in /\ queue' = queue
    BY <1>10 DEF ReleaseLoad, Goto
  <2>2. c \in Nat /\ w \in Nat /\ p \in Nat /\ c' = c /\ w' = w /\ p' = p
    BY <1>3, <2>1 DEF Labels
  <2>. QED
    BY <1>0, <1>1, <2>1, <2>2
<1>11. CASE ReleaseCas(g)
  <2>1. CASE in = old[g]
    <3>1. pc[g] = "rcas" /\ in' = in - 1 /\ queue' = queue
      BY <1>11, <2>1 DEF ReleaseCas
    <3>2. pc' = [pc EXCEPT ![g] = "rpoke"]
      BY <1>0, <1>11, <2>1, <3>1 DEF ReleaseCas, Goto
    <3>3. c \in Nat /\ w \in Nat /\ p \in Nat /\ c' = c /\ w' = w /\ p' = p + 1
      BY <1>3, <3>1, <3>2 DEF Labels
    <3>. QED
      BY <1>0, <1>1, <3>1, <3>3
  <2>2. CASE in # old[g]
    <3>1. pc' = [pc EXCEPT ![g] = "rload"] /\ pc[g] = "rcas" /\ in' = in /\ queue' = queue
      BY <1>11, <2>2 DEF ReleaseCas, Goto
    <3>2. c \in Nat /\ w \in Nat /\ p \in Nat /\ c' = c /\ w' = w /\ p' = p
      BY <1>3, <3>1 DEF Labels
    <3>. QED
      BY <1>0, <1>1, <3>1, <3>2
  <2>. QED
    BY <2>1, <2>2
<1>12. CASE ReleasePoke(g)
  <2>1. /\ pc' = [pc EXCEPT ![g] = "idle"] /\ pc[g] = "rpoke" /\ in' = in
        /\ queue' = IF queue < MaxCapacity THEN queue + 1 ELSE queue
    BY <1>12 DEF ReleasePoke, Goto
  <2>2. c \in Nat /\ w \in Nat /\ p \in Nat /\ c' = c /\ w' = w /\ p' = p - 1
    BY <1>3, <2>1 DEF Labels
  <2>3. p' \in Nat
    BY <1>3, <2>1 DEF Labels
  <2>4. MaxCapacity >= InitialCapacity \/ w <= MaxCapacity
    BY DEF w
  <2>. QED
    BY <1>0, <1>1, <2>1, <2>2, <2>3, <2>4
<1>. QED
  BY <1>4, <1>5, <1>6, <1>7, <1>8, <1>9, <1>10, <1>11, <1>12 DEF SemStep, SemInner

(* The initial wakeups cover the initial permits or fill the channel. *)
LEMMA WakeupsInit == SemInit => WakeupsSuffice
<1>. SUFFICES ASSUME SemInit PROVE WakeupsSuffice
  OBVIOUS
<1>1. Waiters = {}
  BY DEF SemInit, Waiters, At
<1>2. Cardinality(Waiters) = 0
  BY <1>1, FS_EmptySet
<1>3. Cardinality(Pokers) \in Nat
  BY CountIsNat, Classes, Zenon
<1>4. queue \in Nat
  BY SemaphoreAssumption DEF SemInit, InitialWakeups
<1>. QED
  BY <1>2, <1>3, <1>4 DEF WakeupsSuffice

(* The accounting implies that no wakeup is lost. *)
LEMMA WakeupsImplyNoneLost == SemInd /\ WakeupsSuffice => NoLostWakeup
<1>. SUFFICES ASSUME SemInd, WakeupsSuffice, in < InitialCapacity, Waiters # {},
                     queue = 0, Contenders = {}, Pokers = {}
              PROVE  FALSE
  BY SemaphoreAssumption DEF NoLostWakeup, SemInd, SemTypeOK
<1>1. Cardinality(Contenders) = 0 /\ Cardinality(Pokers) = 0
  BY FS_EmptySet
<1>2. Cardinality(Waiters) > 0 /\ Cardinality(Waiters) \in Nat
  <2>1. PICK g \in Goroutines : pc[g] \in {"select"}
    BY DEF Waiters, At
  <2>. DEFINE WL == {"select"}
  <2>2. pc[g] \in WL
    BY <2>1
  <2>. HIDE DEF WL
  <2>3. CountOf(pc, WL) > 0 /\ CountOf(pc, WL) \in Nat
    BY <2>2, CountIsNat, Zenon
  <2>. QED
    BY <2>3, Classes DEF WL
<1>. QED
  BY <1>1, <1>2, SemaphoreAssumption DEF WakeupsSuffice, SemInd, SemTypeOK

(* The comment at semaphore.go:63-67 is right when the channel has room for *)
(* every permit: dropped pokes never strand a waiter.                       *)
THEOREM SemaphoreNoLostWakeup ==
    ASSUME MaxCapacity >= InitialCapacity
    PROVE  SemSpec => []NoLostWakeup
<1>. DEFINE Inv == SemInd /\ WakeupsSuffice
<1>1. SemInit => Inv
  BY SemIndInit, WakeupsInit
<1>2. Inv /\ [SemNext]_semVars => Inv'
  <2>1. ASSUME Inv, NEW g \in Goroutines, SemStep(g) PROVE Inv'
    BY <2>1, SemIndStep, WakeupsStep
  <2>2. ASSUME Inv, UNCHANGED semVars PROVE Inv'
    BY <2>2, SemIndStutter DEF WakeupsSuffice, Contenders, Waiters, Pokers, At, semVars
  <2>. QED
    BY <2>1, <2>2 DEF SemNext
<1>3. Inv => NoLostWakeup
  BY WakeupsImplyNoneLost
<1>. QED
  BY <1>1, <1>2, <1>3, PTL DEF SemSpec

-----------------------------------------------------------------------------
(* The semaphore implements the abstract limiter: the CAS of acquire is     *)
(* Enter, the CAS of release is Leave (semaphore.go:39, 58).                *)
THEOREM SemaphoreImplementsLimiter == SemSpec => ImplementsLimiter
<1>1. SemInit => Lim!Init
  BY DEF SemInit, Lim!Init, whereOf
<1>2. ASSUME SemInd, NEW g \in Goroutines, SemStep(g)
      PROVE  Lim!Next \/ UNCHANGED whereOf
  <2>0. pc \in [Goroutines -> Labels] /\ in = Cardinality(Holders)
    BY <1>2 DEF SemInd, SemTypeOK, PermitsCounted
  <2>1. Lim!Inside = Holders
    BY <2>0 DEF Lim!Inside, whereOf, Holders, At, Labels
  <2>2. ASSUME NEW l \in Labels, pc' = [pc EXCEPT ![g] = l]
        PROVE  whereOf' = [whereOf EXCEPT ![g] =
                  CASE l \in {"idle", "rpoke"} -> "outside"
                    [] l \in {"load", "select", "cas"} -> "waiting"
                    [] OTHER -> "inside"]
    BY <2>0, <2>2 DEF whereOf
  <2>3. CASE CallAcquire(g)
    <3>1. Lim!Request(g)
      BY <2>0, <2>2, <2>3 DEF CallAcquire, Goto, Lim!Request, whereOf, Labels
    <3>. QED
      BY <3>1 DEF Lim!Next
  <2>4. CASE AcquireLoad(g)
    BY <2>0, <2>4 DEF AcquireLoad, Goto, whereOf, Labels
  <2>5. CASE AcquireCtxDone(g)
    <3>1. Lim!GiveUp(g)
      BY <2>0, <2>2, <2>5 DEF AcquireCtxDone, Goto, Lim!GiveUp, whereOf, Labels
    <3>. QED
      BY <3>1 DEF Lim!Next
  <2>6. CASE AcquireWake(g)
    BY <2>0, <2>6 DEF AcquireWake, Goto, whereOf, Labels
  <2>7. CASE AcquireCas(g)
    <3>1. CASE in = old[g]
      <4>1. pc[g] = "cas" /\ pc' = [pc EXCEPT ![g] = "held"]
        BY <2>7, <3>1 DEF AcquireCas, Goto
      <4>2. Lim!Cardinality(Lim!Inside) < InitialCapacity
        <5>1. Cardinality(Holders) < InitialCapacity
          BY <1>2, <2>0, <3>1, <4>1 DEF SemInd, SwapsSawRoom
        <5>2. Lim!Cardinality(Holders) = Cardinality(Holders)
          BY DEF Lim!Cardinality, Cardinality
        <5>. QED
          BY <2>1, <5>1, <5>2
      <4>3. Lim!Enter(g)
        BY <2>0, <2>2, <4>1, <4>2 DEF Lim!Enter, whereOf, Labels
      <4>. QED
        BY <4>3 DEF Lim!Next
    <3>2. CASE in # old[g]
      BY <2>0, <2>7, <3>2 DEF AcquireCas, Goto, whereOf, Labels
    <3>. QED
      BY <3>1, <3>2
  <2>8. CASE CallRelease(g)
    BY <2>0, <2>8 DEF CallRelease, Goto, whereOf, Labels
  <2>9. CASE ReleaseLoad(g)
    BY <2>0, <2>9 DEF ReleaseLoad, Goto, whereOf, Labels
  <2>10. CASE ReleaseCas(g)
    <3>1. CASE in = old[g]
      <4>1. pc[g] = "rcas"
        BY <2>10 DEF ReleaseCas
      <4>2. PICK l \in {"rpoke", "idle"} : pc' = [pc EXCEPT ![g] = l]
        BY <2>10, <3>1 DEF ReleaseCas, Goto
      <4>3. Lim!Leave(g)
        BY <2>0, <2>2, <4>1, <4>2 DEF Lim!Leave, whereOf, Labels
      <4>. QED
        BY <4>3 DEF Lim!Next
    <3>2. CASE in # old[g]
      BY <2>0, <2>10, <3>2 DEF ReleaseCas, Goto, whereOf, Labels
    <3>. QED
      BY <3>1, <3>2
  <2>11. CASE ReleasePoke(g)
    BY <2>0, <2>11 DEF ReleasePoke, Goto, whereOf, Labels
  <2>. QED
    BY <1>2, <2>3, <2>4, <2>5, <2>6, <2>7, <2>8, <2>9, <2>10, <2>11 DEF SemStep, SemInner
<1>3. UNCHANGED semVars => UNCHANGED whereOf
  BY DEF semVars, whereOf
<1>4. SemInd /\ [SemNext]_semVars => [Lim!Next]_whereOf
  BY <1>2, <1>3 DEF SemNext
<1>5. SemInd /\ [SemNext]_semVars => SemInd'
  BY SemIndStep, SemIndStutter DEF SemNext
<1>. QED
  BY <1>1, <1>4, <1>5, SemIndInit, PTL DEF SemSpec, ImplementsLimiter, Lim!Spec
=============================================================================
