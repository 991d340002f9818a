------------------------- MODULE ScaleHandlerProofs -------------------------
(***************************************************************************)
(* Proofs about scale jobs, for any services, goroutines, triggers and     *)
(* cooldown.                                                               *)
(***************************************************************************)
EXTENDS ScaleHandler, WellFoundedInduction, TLAPS

(* A goroutine between its Lock and its Unlock owns the mutex. *)
LockOwned == \A p \in Procs : pc[p] \in {"get", "patch"} => lock[Svc(p)] = p

(* A scale-up job goes on to patch only when it saw fewer replicas. *)
SawFewer == \A p \in Procs : pc[p] = "patch" /\ job[p].dir = "up" => seen[p] < Desired(p)

ScaleInd == TypeOK /\ LockOwned /\ FreshRead

(* The initial states have no job. *)
LEMMA ScaleIndInit == Init => ScaleInd
<1>. SUFFICES ASSUME Init PROVE ScaleInd
  OBVIOUS
<1>1. TypeOK
  BY ScaleHandlerAssumption DEF Init, TypeOK, Labels, NoJob, Procs
<1>2. LockOwned /\ FreshRead
  BY DEF Init, LockOwned, FreshRead
<1>. QED
  BY <1>1, <1>2 DEF ScaleInd

(* A step of a job keeps the types. *)
LEMMA JobStepType ==
    ASSUME TypeOK, NEW p \in Procs, JobStep(p)
    PROVE  TypeOK'
<1>. USE ScaleHandlerAssumption
<1>0. CASE Stamp(p)
  BY <1>0 DEF TypeOK, Stamp, Goto, KedaOrLock, Labels, Svc
<1>1. CASE KedaPatch(p)
  BY <1>1 DEF TypeOK, KedaPatch, Goto, Labels, Svc
<1>2. CASE Lock(p)
  BY <1>2 DEF TypeOK, Lock, Goto, Labels, Svc, cluster
<1>3. CASE GetNothingToDo(p)
  BY <1>3 DEF TypeOK, GetNothingToDo, Goto, Return, Unlock, Labels, Svc, cluster, NoJob, Procs
<1>4. CASE GetAndPatch(p)
  BY <1>4 DEF TypeOK, GetAndPatch, Goto, Labels, Svc, cluster
<1>5. CASE Patch(p)
  BY <1>5 DEF TypeOK, Patch, Goto, Return, Unlock, Labels, Svc, NoJob, Procs, Desired
<1>6. CASE Fail(p)
  BY <1>6 DEF TypeOK, Fail, Goto, Return, Labels, Svc, cluster, NoJob, Procs
<1>. QED
  BY <1>0, <1>1, <1>2, <1>3, <1>4, <1>5, <1>6 DEF JobStep

(* So does every other step. *)
LEMMA OtherStepType ==
    ASSUME TypeOK,
           \/ \E h \in Handlers : HandleRequest(h)
           \/ WatcherStep \/ Tick \/ Restart
           \/ \E s \in Services : ChangeTriggers(s) \/ Autoscale(s)
    PROVE  TypeOK'
<1>. USE ScaleHandlerAssumption
<1>0. Watcher \in Procs /\ Handlers \subseteq Procs /\ Cooldown \in Nat
  BY DEF Procs
<1>1. ASSUME NEW h \in Handlers, HandleRequest(h) PROVE TypeOK'
  BY <1>0, <1>1 DEF TypeOK, HandleRequest, Goto, Labels, cluster, NoJob
<1>2. CASE Poll
  BY <1>0, <1>2 DEF TypeOK, Poll, Goto, Labels, cluster
<1>3. CASE PollDone
  BY <1>0, <1>3 DEF TypeOK, PollDone, Goto, Labels, cluster
<1>4. CASE CooldownMet
  BY <1>0, <1>4 DEF TypeOK, CooldownMet, Goto, KedaOrLock, Labels, cluster
<1>5. CASE CooldownNotMet
  BY <1>0, <1>5 DEF TypeOK, CooldownNotMet, Goto, Return, Labels, cluster, NoJob
<1>6. ASSUME NEW s \in Services, Evaluate(s) PROVE TypeOK'
  <2>. DEFINE d == Direction(triggers[s], created[s] >= Cooldown)
  <2>. HIDE DEF d
  <2>0. /\ pc[Watcher] = "loop" /\ todo' = todo \ {s}
        /\ UNCHANGED <<autoscaler, replicas, paused, age, created, triggers, lock, seen, snap, restarts>>
    BY <1>6 DEF Evaluate, cluster
  <2>1. CASE d = "scaleup"
    <3>1. /\ job' = [job EXCEPT ![Watcher] = [svc |-> s, dir |-> "up"]]
          /\ pc' = [pc EXCEPT ![Watcher] = "stamp"]
      BY <1>6, <2>1 DEF Evaluate, Goto, d
    <3>. QED
      BY <1>0, <2>0, <3>1 DEF TypeOK, Labels, NoJob
  <2>2. CASE d = "scaledown"
    <3>1. /\ job' = [job EXCEPT ![Watcher] = [svc |-> s, dir |-> "down"]]
          /\ pc' = [pc EXCEPT ![Watcher] = "cooldown"]
      BY <1>6, <2>2 DEF Evaluate, Goto, d
    <3>. QED
      BY <1>0, <2>0, <3>1 DEF TypeOK, Labels, NoJob
  <2>3. CASE d \notin {"scaleup", "scaledown"}
    <3>1. UNCHANGED <<job, pc>>
      BY <1>6, <2>3 DEF Evaluate, d
    <3>. QED
      BY <1>0, <2>0, <3>1 DEF TypeOK
  <2>. QED
    BY <2>1, <2>2, <2>3
<1>7. CASE Tick
  BY <1>0, <1>7 DEF TypeOK, Tick, Older
<1>8. CASE Restart
  BY <1>0, <1>8 DEF TypeOK, Restart, Labels, cluster, NoJob
<1>9. ASSUME NEW s \in Services, ChangeTriggers(s) PROVE TypeOK'
  BY <1>0, <1>9 DEF TypeOK, ChangeTriggers
<1>10. ASSUME NEW s \in Services, Autoscale(s) PROVE TypeOK'
  BY <1>0, <1>10 DEF TypeOK, Autoscale
<1>. QED
  BY <1>1, <1>2, <1>3, <1>4, <1>5, <1>6, <1>7, <1>8, <1>9, <1>10 DEF WatcherStep

-----------------------------------------------------------------------------
(* A job's step keeps the mutex owned and the reads fresh: two jobs of one   *)
(* service are never both between Lock and Unlock.                           *)
LEMMA JobStepFresh ==
    ASSUME ScaleInd, TypeOK', NEW p \in Procs, JobStep(p)
    PROVE  LockOwned' /\ FreshRead'
<1>. USE ScaleHandlerAssumption
<1>0. /\ pc \in [Procs -> Labels] /\ lock \in [Services -> Procs \cup {None}]
      /\ replicas \in [Services -> 0..MaxReplicas] /\ seen \in [Procs -> 0..MaxReplicas]
      /\ \A q \in Procs : pc[q] \notin {"idle", "loop"} => job[q].svc \in Services
      /\ job = [q \in Procs |-> job[q]]
      /\ None \notin Procs
  BY DEF ScaleInd, TypeOK, NoJob
<1>1. /\ \A q \in Procs : pc[q] \in {"get", "patch"} => lock[job[q].svc] = q
      /\ \A q \in Procs : pc[q] = "patch" /\ autoscaler[job[q].svc] = "none"
                            => replicas[job[q].svc] = seen[q]
  BY DEF ScaleInd, LockOwned, FreshRead, Svc
<1>. SUFFICES ASSUME NEW q \in Procs
              PROVE  /\ pc'[q] \in {"get", "patch"} => lock'[job'[q].svc] = q
                     /\ pc'[q] = "patch" /\ autoscaler'[job'[q].svc] = "none"
                            => replicas'[job'[q].svc] = seen'[q]
  BY DEF LockOwned, FreshRead, Svc
<1>2. CASE Stamp(p)
  BY <1>0, <1>1, <1>2 DEF Stamp, Goto, KedaOrLock
<1>3. CASE KedaPatch(p)
  BY <1>0, <1>1, <1>3 DEF KedaPatch, Goto
<1>4. CASE Lock(p)
  BY <1>0, <1>1, <1>4 DEF Lock, Goto, Svc, cluster
<1>5. CASE GetNothingToDo(p)
  BY <1>0, <1>1, <1>5 DEF GetNothingToDo, Goto, Return, Unlock, Svc, cluster
<1>6. CASE GetAndPatch(p)
  BY <1>0, <1>1, <1>6 DEF GetAndPatch, Goto, Svc, cluster
<1>7. CASE Patch(p)
  BY <1>0, <1>1, <1>7 DEF Patch, Goto, Return, Unlock, Svc
<1>8. CASE Fail(p)
  BY <1>0, <1>1, <1>8 DEF Fail, Goto, Return, Svc, cluster
<1>. QED
  BY <1>2, <1>3, <1>4, <1>5, <1>6, <1>7, <1>8 DEF JobStep

(* The other steps leave the mutexes alone, or drop every job with them.     *)
LEMMA OtherStepFresh ==
    ASSUME ScaleInd,
           \/ \E h \in Handlers : HandleRequest(h)
           \/ WatcherStep \/ Tick \/ Restart
           \/ \E s \in Services : ChangeTriggers(s) \/ Autoscale(s)
    PROVE  LockOwned' /\ FreshRead'
<1>. USE ScaleHandlerAssumption
<1>0. /\ pc \in [Procs -> Labels] /\ lock \in [Services -> Procs \cup {None}]
      /\ replicas \in [Services -> 0..MaxReplicas] /\ seen \in [Procs -> 0..MaxReplicas]
      /\ \A q \in Procs : pc[q] \notin {"idle", "loop"} => job[q].svc \in Services
      /\ job = [q \in Procs |-> job[q]]
      /\ Watcher \in Procs /\ Handlers \subseteq Procs
  BY DEF ScaleInd, TypeOK, NoJob, Procs
<1>1. /\ \A q \in Procs : pc[q] \in {"get", "patch"} => lock[job[q].svc] = q
      /\ \A q \in Procs : pc[q] = "patch" /\ autoscaler[job[q].svc] = "none"
                            => replicas[job[q].svc] = seen[q]
  BY DEF ScaleInd, LockOwned, FreshRead, Svc
<1>. SUFFICES ASSUME NEW q \in Procs
              PROVE  /\ pc'[q] \in {"get", "patch"} => lock'[job'[q].svc] = q
                     /\ pc'[q] = "patch" /\ autoscaler'[job'[q].svc] = "none"
                            => replicas'[job'[q].svc] = seen'[q]
  BY DEF LockOwned, FreshRead, Svc
<1>2. CASE \E h \in Handlers : HandleRequest(h)
  BY <1>0, <1>1, <1>2 DEF HandleRequest, Goto, cluster
<1>3. CASE Poll \/ PollDone \/ CooldownMet \/ CooldownNotMet
  BY <1>0, <1>1, <1>3 DEF Poll, PollDone, CooldownMet, CooldownNotMet, Goto, Return, KedaOrLock, cluster
<1>4. ASSUME NEW s \in Services, Evaluate(s)
      PROVE  /\ pc'[q] \in {"get", "patch"} => lock'[job'[q].svc] = q
             /\ pc'[q] = "patch" /\ autoscaler'[job'[q].svc] = "none"
                    => replicas'[job'[q].svc] = seen'[q]
  <2>1. /\ pc[Watcher] = "loop" /\ lock' = lock /\ replicas' = replicas /\ seen' = seen
        /\ autoscaler' = autoscaler
        /\ q # Watcher => pc'[q] = pc[q] /\ job'[q] = job[q]
        /\ pc'[Watcher] \in {"stamp", "cooldown", "loop"}
    <3>1. /\ pc[Watcher] = "loop" /\ lock' = lock /\ replicas' = replicas /\ seen' = seen
          /\ autoscaler' = autoscaler
      BY <1>4 DEF Evaluate, cluster
    <3>2. \/ \E j, l : /\ l \in {"stamp", "cooldown"}
                       /\ job' = [job EXCEPT ![Watcher] = j] /\ pc' = [pc EXCEPT ![Watcher] = l]
          \/ job' = job /\ pc' = pc
      <4>. DEFINE d == Direction(triggers[s], created[s] >= Cooldown)
      <4>. HIDE DEF d
      <4>1. CASE d = "scaleup"
        BY <1>4, <4>1 DEF Evaluate, Goto, d
      <4>2. CASE d = "scaledown"
        BY <1>4, <4>2 DEF Evaluate, Goto, d
      <4>3. CASE d \notin {"scaleup", "scaledown"}
        BY <1>4, <4>3 DEF Evaluate, d
      <4>. QED
        BY <4>1, <4>2, <4>3
    <3>. QED
      BY <1>0, <3>1, <3>2
  <2>. QED
    BY <1>1, <2>1
<1>5. CASE Tick
  BY <1>0, <1>1, <1>5 DEF Tick
<1>6. CASE Restart
  BY <1>0, <1>6 DEF Restart
<1>7. CASE \E s \in Services : ChangeTriggers(s)
  BY <1>1, <1>7 DEF ChangeTriggers
<1>8. CASE \E s \in Services : Autoscale(s)
  BY <1>0, <1>1, <1>8 DEF Autoscale
<1>. QED
  BY <1>2, <1>3, <1>4, <1>5, <1>6, <1>7, <1>8 DEF WatcherStep

(* The invariant is inductive. *)
LEMMA ScaleIndNext == ScaleInd /\ [Next]_vars => ScaleInd'
<1>. SUFFICES ASSUME ScaleInd, [Next]_vars PROVE ScaleInd'
  OBVIOUS
<1>1. ASSUME NEW p \in Procs, JobStep(p) PROVE ScaleInd'
  BY <1>1, JobStepType, JobStepFresh DEF ScaleInd
<1>2. ASSUME \/ \E h \in Handlers : HandleRequest(h)
             \/ WatcherStep \/ Tick \/ Restart
             \/ \E s \in Services : ChangeTriggers(s) \/ Autoscale(s)
      PROVE  ScaleInd'
  BY <1>2, OtherStepType, OtherStepFresh DEF ScaleInd
<1>3. CASE UNCHANGED vars
  BY <1>3 DEF ScaleInd, TypeOK, LockOwned, FreshRead, Svc, vars
<1>. QED
  BY <1>1, <1>2, <1>3 DEF Next

(* Type correctness of the scale jobs. *)
THEOREM ScaleHandlerTypeOK == Spec => []TypeOK
<1>1. ScaleInd => TypeOK
  BY DEF ScaleInd
<1>. QED
  BY ScaleIndInit, ScaleIndNext, <1>1, PTL DEF Spec

(* The mutex of a service makes Get-then-Patch atomic among elasti's jobs,   *)
(* for any number of goroutines and restarts (scale_handler.go:286-288).     *)
THEOREM ScaleHandlerFreshRead == Spec => []FreshRead
<1>1. ScaleInd => FreshRead
  BY DEF ScaleInd
<1>. QED
  BY ScaleIndInit, ScaleIndNext, <1>1, PTL DEF Spec

-----------------------------------------------------------------------------
(* A goroutine comes to its Patch only through the Get that saw fewer        *)
(* replicas than it asks for.                                                *)
LEMMA SawFewerStep ==
    ASSUME MinTargetReplicas > 0, ScaleInd, SawFewer, Next
    PROVE  SawFewer'
<1>. USE ScaleHandlerAssumption
<1>0. /\ pc \in [Procs -> Labels] /\ seen \in [Procs -> 0..MaxReplicas]
      /\ replicas \in [Services -> 0..MaxReplicas]
      /\ \A q \in Procs : pc[q] \notin {"idle", "loop"} => job[q].svc \in Services
      /\ job = [q \in Procs |-> job[q]]
      /\ Watcher \in Procs /\ Handlers \subseteq Procs
  BY DEF ScaleInd, TypeOK, NoJob, Procs
<1>1. \A q \in Procs : pc[q] = "patch" /\ job[q].dir = "up" => seen[q] < MinTargetReplicas
  BY DEF SawFewer, Desired
<1>. SUFFICES ASSUME NEW q \in Procs, pc'[q] = "patch", job'[q].dir = "up"
              PROVE  seen'[q] < MinTargetReplicas
  BY DEF SawFewer, Desired
<1>. DEFINE Same == pc[q] = "patch" /\ job'[q] = job[q] /\ seen'[q] = seen[q]
<1>2. Same => seen'[q] < MinTargetReplicas
  BY <1>1
<1>3. ASSUME NEW p \in Procs, JobStep(p) PROVE seen'[q] < MinTargetReplicas
  <2>1. CASE GetAndPatch(p)
    <3>1. CASE q = p
      <4>1. job'[q] = job[q] /\ seen'[q] = replicas[job[q].svc] /\ pc[q] = "get"
        BY <1>0, <2>1, <3>1 DEF GetAndPatch, Svc
      <4>2. ~(replicas[job[q].svc] = MinTargetReplicas \/ replicas[job[q].svc] > MinTargetReplicas)
        BY <2>1, <3>1, <4>1 DEF GetAndPatch, AlreadyScaled, Desired, Svc
      <4>3. replicas[job[q].svc] \in 0..MaxReplicas
        BY <1>0, <4>1
      <4>. QED
        BY <4>1, <4>2, <4>3
    <3>2. CASE q # p
      BY <1>0, <1>2, <2>1, <3>2 DEF GetAndPatch, Goto
    <3>. QED
      BY <3>1, <3>2
  <2>2. CASE Stamp(p)
    BY <1>0, <1>2, <2>2 DEF Stamp, Goto, KedaOrLock
  <2>3. CASE KedaPatch(p) \/ Lock(p)
    BY <1>0, <1>2, <2>3 DEF KedaPatch, Lock, Goto
  <2>4. CASE GetNothingToDo(p) \/ Patch(p) \/ Fail(p)
    BY <1>0, <1>2, <2>4 DEF GetNothingToDo, Patch, Fail, Return, Goto
  <2>. QED
    BY <1>3, <2>1, <2>2, <2>3, <2>4 DEF JobStep
<1>4. CASE \E h \in Handlers : HandleRequest(h)
  BY <1>0, <1>2, <1>4 DEF HandleRequest, Goto
<1>5. CASE Poll \/ PollDone \/ CooldownMet \/ CooldownNotMet
  BY <1>0, <1>2, <1>5 DEF Poll, PollDone, CooldownMet, CooldownNotMet, Return, Goto, KedaOrLock
<1>6. ASSUME NEW s \in Services, Evaluate(s) PROVE seen'[q] < MinTargetReplicas
  <2>. DEFINE d == Direction(triggers[s], created[s] >= Cooldown)
  <2>. HIDE DEF d
  <2>1. seen' = seen
    BY <1>6 DEF Evaluate
  <2>2. CASE d = "scaleup"
    BY <1>0, <1>2, <1>6, <2>1, <2>2 DEF Evaluate, Goto, d
  <2>3. CASE d = "scaledown"
    BY <1>0, <1>2, <1>6, <2>1, <2>3 DEF Evaluate, Goto, d
  <2>4. CASE d \notin {"scaleup", "scaledown"}
    <3>1. job' = job /\ pc' = pc
      BY <1>6, <2>4 DEF Evaluate, d
    <3>. QED
      BY <1>2, <2>1, <3>1
  <2>. QED
    BY <2>2, <2>3, <2>4
<1>7. CASE Tick \/ \E s \in Services : ChangeTriggers(s) \/ Autoscale(s)
  BY <1>2, <1>7 DEF Tick, ChangeTriggers, Autoscale
<1>8. CASE Restart
  BY <1>8 DEF Restart
<1>. QED
  BY <1>3, <1>4, <1>5, <1>6, <1>7, <1>8 DEF Next, WatcherStep

(* When minTargetReplicas is set, a scale-up job never takes replicas away   *)
(* from a target that elasti alone scales (scale_handler.go:366-381).        *)
THEOREM ScaleHandlerUpJobRaises ==
    ASSUME MinTargetReplicas > 0
    PROVE  Spec => []UpJobRaises
<1>. DEFINE Inv == ScaleInd /\ SawFewer
<1>1. Init => Inv
  BY ScaleIndInit DEF Init, SawFewer
<1>2. Inv /\ [Next]_vars => Inv'
  <2>1. ASSUME Inv, Next PROVE Inv'
    BY <2>1, ScaleIndNext, SawFewerStep
  <2>2. ASSUME Inv, UNCHANGED vars PROVE Inv'
    BY <2>2, ScaleIndNext DEF SawFewer, Desired, vars
  <2>. QED
    BY <2>1, <2>2
<1>3. Inv => UpJobRaises
  BY DEF ScaleInd, SawFewer, FreshRead, UpJobRaises
<1>. QED
  BY <1>1, <1>2, <1>3, PTL DEF Spec

-----------------------------------------------------------------------------
(* What evaluating a service may do: start a job in the direction computed,  *)
(* or nothing.                                                               *)
LEMMA EvaluateCases ==
    ASSUME NEW s \in Services, Evaluate(s)
    PROVE  /\ pc[Watcher] = "loop" /\ snap' = snap
           /\ \/ /\ Direction(triggers[s], created[s] >= Cooldown) = "scaleup"
                 /\ job' = [job EXCEPT ![Watcher] = [svc |-> s, dir |-> "up"]]
                 /\ pc' = [pc EXCEPT ![Watcher] = "stamp"]
              \/ /\ Direction(triggers[s], created[s] >= Cooldown) = "scaledown"
                 /\ job' = [job EXCEPT ![Watcher] = [svc |-> s, dir |-> "down"]]
                 /\ pc' = [pc EXCEPT ![Watcher] = "cooldown"]
              \/ job' = job /\ pc' = pc
<1>. DEFINE d == Direction(triggers[s], created[s] >= Cooldown)
<1>. HIDE DEF d
<1>1. pc[Watcher] = "loop" /\ snap' = snap
  BY DEF Evaluate
<1>2. CASE d = "scaleup"
  BY <1>1, <1>2 DEF Evaluate, Goto, d
<1>3. CASE d = "scaledown"
  BY <1>1, <1>3 DEF Evaluate, Goto, d
<1>4. CASE d \notin {"scaleup", "scaledown"}
  BY <1>1, <1>4 DEF Evaluate, d
<1>. QED
  BY <1>2, <1>3, <1>4

(* Past handleScaleToZero's test the listed copy is as old as it must be;    *)
(* the watcher stamps only what it scales up.                                *)
ListedOldEnough ==
    /\ pc[Watcher] = "stamp" => job[Watcher].dir = "up"
    /\ job[Watcher].dir = "down" /\ pc[Watcher] \in {"keda", "lock", "get", "patch"}
            => snap[job[Watcher].svc] = Cooldown

(* Nothing makes the listed copy younger while the job is under way. *)
LEMMA ListedOldEnoughStep ==
    ASSUME ScaleInd, ListedOldEnough, Next
    PROVE  ListedOldEnough'
<1>. USE ScaleHandlerAssumption
<1>0. /\ pc \in [Procs -> Labels] /\ snap \in [Services -> 0..Cooldown] /\ Cooldown \in Nat
      /\ \A q \in Procs : pc[q] \notin {"idle", "loop"} => job[q].svc \in Services
      /\ job = [q \in Procs |-> job[q]]
      /\ Watcher \in Procs /\ Handlers \subseteq Procs /\ Watcher \notin Handlers
  BY DEF ScaleInd, TypeOK, NoJob, Procs
<1>1. ASSUME job'[Watcher] = job[Watcher], snap' = snap,
             \/ pc'[Watcher] = pc[Watcher]
             \/ pc'[Watcher] \in {"lock", "get", "patch"} /\ pc[Watcher] \in {"keda", "lock", "get"}
      PROVE  ListedOldEnough'
  BY <1>1 DEF ListedOldEnough
<1>2. ASSUME pc'[Watcher] \in {"idle", "loop", "cooldown"} PROVE ListedOldEnough'
  BY <1>2 DEF ListedOldEnough
<1>3. ASSUME NEW p \in Procs, JobStep(p) PROVE ListedOldEnough'
  <2>1. CASE Stamp(p)
    <3>1. CASE p = Watcher
      BY <1>0, <2>1, <3>1 DEF Stamp, Goto, KedaOrLock, ListedOldEnough
    <3>2. CASE p # Watcher
      BY <1>0, <1>1, <2>1, <3>2 DEF Stamp, Goto
    <3>. QED
      BY <3>1, <3>2
  <2>2. CASE KedaPatch(p) \/ Lock(p) \/ GetAndPatch(p)
    BY <1>0, <1>1, <2>2 DEF KedaPatch, Lock, GetAndPatch, Goto
  <2>3. CASE GetNothingToDo(p) \/ Patch(p) \/ Fail(p)
    BY <1>0, <1>1, <1>2, <2>3 DEF GetNothingToDo, Patch, Fail, Return, Goto
  <2>. QED
    BY <1>3, <2>1, <2>2, <2>3 DEF JobStep
<1>4. CASE \E h \in Handlers : HandleRequest(h)
  BY <1>0, <1>1, <1>4 DEF HandleRequest, Goto
<1>5. CASE CooldownMet
  BY <1>0, <1>5 DEF CooldownMet, Goto, KedaOrLock, Svc, ListedOldEnough
<1>6. CASE Poll \/ PollDone \/ CooldownNotMet
  BY <1>0, <1>2, <1>6 DEF Poll, PollDone, CooldownNotMet, Return, Goto
<1>7. ASSUME NEW s \in Services, Evaluate(s) PROVE ListedOldEnough'
  BY <1>0, <1>1, <1>2, <1>7, EvaluateCases DEF ListedOldEnough
<1>8. CASE Tick
  <2>. DEFINE s == job[Watcher].svc
  <2>1. /\ job' = job /\ pc' = pc
        /\ s \in Services => snap'[s] = IF snap[s] < Cooldown THEN snap[s] + 1 ELSE snap[s]
    BY <1>8 DEF Tick, Older
  <2>2. ASSUME job[Watcher].dir = "down", pc[Watcher] \in {"keda", "lock", "get", "patch"}
        PROVE  snap'[s] = Cooldown
    BY <1>0, <2>1, <2>2 DEF ListedOldEnough
  <2>. QED
    BY <2>1, <2>2 DEF ListedOldEnough
<1>9. CASE \E s \in Services : ChangeTriggers(s) \/ Autoscale(s)
  BY <1>1, <1>9 DEF ChangeTriggers, Autoscale
<1>10. CASE Restart
  BY <1>0, <1>2, <1>10 DEF Restart
<1>. QED
  BY <1>3, <1>4, <1>5, <1>6, <1>7, <1>8, <1>9, <1>10 DEF Next, WatcherStep

(* A target is patched to 0 sooner than a cooldown after LastScaledUpTime    *)
(* only when that was stamped after the poll listed the service              *)
(* (scale_handler.go:210): the cooldown is a promise about the listed copy.  *)
THEOREM ScaleHandlerCooldown == Spec => []CooldownSinceList
<1>. DEFINE Inv == ScaleInd /\ ListedOldEnough
<1>1. Init => Inv
  BY ScaleIndInit, ScaleHandlerAssumption DEF Init, ListedOldEnough, Procs
<1>2. Inv /\ [Next]_vars => Inv'
  <2>1. ASSUME Inv, Next PROVE Inv'
    BY <2>1, ScaleIndNext, ListedOldEnoughStep
  <2>2. ASSUME Inv, UNCHANGED vars PROVE Inv'
    BY <2>2, ScaleIndNext DEF ListedOldEnough, vars
  <2>. QED
    BY <2>1, <2>2
<1>3. Inv => CooldownSinceList
  <2>. SUFFICES ASSUME Inv, NEW p \in Procs, pc[p] = "patch", job[p].dir = "down"
                PROVE  age[Svc(p)] >= Cooldown \/ age[Svc(p)] < snap[Svc(p)]
    BY DEF CooldownSinceList
  <2>1. p = Watcher
    BY DEF ScaleInd, TypeOK, Procs
  <2>2. snap[Svc(p)] = Cooldown
    BY <2>1 DEF ListedOldEnough, Svc
  <2>3. age[Svc(p)] \in 0..Cooldown /\ Cooldown \in Nat
    BY ScaleHandlerAssumption DEF ScaleInd, TypeOK, Svc, NoJob
  <2>. QED
    BY <2>2, <2>3
<1>. QED
  BY <1>1, <1>2, <1>3, PTL DEF Spec

-----------------------------------------------------------------------------
(* For every list of triggers, of any length, the direction is scaledown     *)
(* only when the ElastiService is old enough and each trigger was read as    *)
(* idle (scale_handler.go:147-200).                                          *)
LEMMA DirectionDown ==
    ASSUME NEW ts \in Seq(Trigger), NEW old \in BOOLEAN, Direction(ts, old) = "scaledown"
    PROVE  AllIdle(ts) /\ old
<1>1. \A t \in Trigger : Verdict(t) = "idle" => Idle(t)
  BY DEF Trigger, Verdict, Idle, ShouldScaleToZero, Uptimes, Metrics
<1>2. ts # <<>> /\ old
  BY DEF Direction
<1>3. Deciding(ts) = {}
  <2>. DEFINE m == Min(Deciding(ts))
  <2>1. Verdict(ts[m]) # "scaledown"
    BY DEF Verdict
  <2>. HIDE DEF m
  <2>. QED
    BY <1>2, <2>1 DEF Direction, m
<1>. QED
  BY <1>1, <1>2, <1>3 DEF Deciding, AllIdle

(* A non-empty set of naturals has a least element. *)
LEMMA LeastOfIndices ==
    ASSUME NEW T, T \subseteq Nat, T # {}
    PROVE  \E x \in T : \A y \in T : x <= y
<1>. DEFINE R == OpToRel(<, Nat)
<1>1. \E x \in T : \A y \in T : ~ (<<y, x>> \in R)
  <2>1. IsWellFoundedOn(R, Nat)
    BY NatLessThanWellFounded
  <2>. HIDE DEF R
  <2>. QED
    BY <2>1, WFMin
<1>2. \A x \in Nat, y \in Nat : y < x => <<y, x>> \in R
  BY DEF OpToRel
<1>. HIDE DEF R
<1>3. PICK x \in T : \A y \in T : ~ (<<y, x>> \in R)
  BY <1>1
<1>4. ASSUME NEW y \in T PROVE x <= y
  <2>1. ~ (y < x)
    BY <1>2, <1>3
  <2>2. x \in Nat /\ y \in Nat
    OBVIOUS
  <2>. QED
    BY <2>1, <2>2
<1>. QED
  BY <1>4

(* It is scaleup only on the answer of the first trigger that is not idle.   *)
LEMMA DirectionUp ==
    ASSUME NEW ts \in Seq(Trigger), NEW old \in BOOLEAN, Direction(ts, old) = "scaleup"
    PROVE  FirstNotIdleAnswered(ts)
<1>1. /\ \A t \in Trigger : Verdict(t) = "idle" => Idle(t)
      /\ \A t \in Trigger : Verdict(t) = "scaleup" => AnsweredNotIdle(t)
  BY DEF Trigger, Verdict, Idle, AnsweredNotIdle, ShouldScaleToZero, Uptimes, Metrics
<1>2. Deciding(ts) # {} /\ Verdict(ts[Min(Deciding(ts))]) = "scaleup"
  BY DEF Direction
<1>3. Deciding(ts) \subseteq 1..Len(ts) /\ Len(ts) \in Nat
  BY DEF Deciding
<1>4. \E i \in Deciding(ts) : \A j \in Deciding(ts) : i <= j
  BY <1>2, <1>3, LeastOfIndices
<1>5. PICK i \in Deciding(ts) : i = Min(Deciding(ts)) /\ \A j \in Deciding(ts) : i <= j
  BY <1>4 DEF Min
<1>6. AnsweredNotIdle(ts[i])
  BY <1>1, <1>2, <1>3, <1>5
<1>7. \A j \in 1..(i - 1) : Idle(ts[j])
  BY <1>1, <1>3, <1>5 DEF Deciding
<1>. QED
  BY <1>3, <1>5, <1>6, <1>7 DEF FirstNotIdleAnswered

(* The step that sets the watcher on a job is an evaluation of its service. *)
LEMMA OnlyEvaluateStarts ==
    ASSUME ScaleInd, Next, NEW s \in Services, NEW dir \in {"up", "down"}, WatcherStarts(s, dir)
    PROVE  Evaluate(s)
<1>. USE ScaleHandlerAssumption
<1>0. /\ pc \in [Procs -> Labels]
      /\ job \in [Procs -> [svc : Services, dir : {"up", "down"}] \cup {NoJob}]
      /\ Watcher \in Procs /\ Handlers \subseteq Procs /\ Watcher \notin Handlers
      /\ pc[Watcher] = "loop" /\ job[Watcher] = NoJob
      /\ job'[Watcher] = [svc |-> s, dir |-> dir]
  BY DEF ScaleInd, TypeOK, Procs, WatcherStarts
<1>1. job'[Watcher] # job[Watcher] /\ job'[Watcher] # NoJob
  BY <1>0 DEF NoJob
<1>2. ASSUME NEW p \in Procs, JobStep(p) PROVE FALSE
  <2>1. p # Watcher
    BY <1>0, <1>2 DEF JobStep, Stamp, KedaPatch, Lock, GetNothingToDo, GetAndPatch, Patch, Fail
  <2>2. job'[Watcher] = job[Watcher]
    BY <1>0, <1>2, <2>1 DEF JobStep, Stamp, KedaPatch, Lock, GetNothingToDo, GetAndPatch, Patch, Fail, Return
  <2>. QED
    BY <1>1, <2>2
<1>3. ASSUME NEW h \in Handlers, HandleRequest(h) PROVE FALSE
  BY <1>0, <1>1, <1>3 DEF HandleRequest
<1>4. CASE Poll \/ PollDone \/ CooldownMet \/ CooldownNotMet
  BY <1>0, <1>1, <1>4 DEF Poll, PollDone, CooldownMet, CooldownNotMet
<1>5. ASSUME NEW r \in Services, Evaluate(r) PROVE r = s
  BY <1>0, <1>1, <1>5, EvaluateCases
<1>6. CASE Tick \/ \E r \in Services : ChangeTriggers(r) \/ Autoscale(r)
  BY <1>1, <1>6 DEF Tick, ChangeTriggers, Autoscale
<1>7. CASE Restart
  BY <1>0, <1>1, <1>7 DEF Restart
<1>. QED
  BY <1>2, <1>3, <1>4, <1>5, <1>6, <1>7 DEF Next, WatcherStep

(* The watcher takes a service towards zero only when each of its triggers,  *)
(* however many, was read as idle, and the ElastiService is older than the   *)
(* cooldown (scale_handler.go:147-200).                                      *)
THEOREM ScaleHandlerDownOnlyWhenAllIdle == Spec => DownOnlyWhenAllIdle
<1>1. ASSUME ScaleInd, Next, NEW s \in Services, WatcherStarts(s, "down")
      PROVE  AllIdle(triggers[s]) /\ created[s] >= Cooldown
  <2>1. triggers[s] \in Seq(Trigger)
    BY <1>1, TriggerListsAssumption DEF ScaleInd, TypeOK
  <2>2. Evaluate(s)
    BY <1>1, OnlyEvaluateStarts
  <2>3. Direction(triggers[s], created[s] >= Cooldown) = "scaledown"
    <3>1. /\ job'[Watcher] = [svc |-> s, dir |-> "down"] /\ job[Watcher] = NoJob
          /\ job \in [Procs -> [svc : Services, dir : {"up", "down"}] \cup {NoJob}] /\ Watcher \in Procs
      BY <1>1 DEF WatcherStarts, ScaleInd, TypeOK, Procs
    <3>. QED
      BY <2>2, <3>1, EvaluateCases DEF NoJob
  <2>. DEFINE oldEnough == created[s] >= Cooldown
  <2>4. oldEnough \in BOOLEAN /\ Direction(triggers[s], oldEnough) = "scaledown"
    BY <2>3
  <2>. HIDE DEF oldEnough
  <2>5. AllIdle(triggers[s]) /\ oldEnough
    BY <2>1, <2>4, DirectionDown
  <2>. QED
    BY <2>5 DEF oldEnough
<1>2. ScaleInd /\ [Next]_vars
        => [\A s \in Services : WatcherStarts(s, "down") => AllIdle(triggers[s]) /\ created[s] >= Cooldown]_vars
  BY <1>1
<1>. QED
  BY ScaleIndInit, ScaleIndNext, <1>2, PTL DEF Spec, DownOnlyWhenAllIdle

(* The watcher scales a service up only on a trigger that stands behind idle *)
(* ones and was answered without an error: with a value not below its        *)
(* threshold, or with a null sample, which counts as traffic.  Errors, of    *)
(* whatever kind, scale nothing (scale_handler.go:162-196;                   *)
(* prometheus_scaler.go:140-141).                                            *)
THEOREM ScaleHandlerUpOnlyOnAnswer == Spec => UpOnlyOnAnswer
<1>1. ASSUME ScaleInd, Next, NEW s \in Services, WatcherStarts(s, "up")
      PROVE  FirstNotIdleAnswered(triggers[s])
  <2>1. triggers[s] \in Seq(Trigger)
    BY <1>1, TriggerListsAssumption DEF ScaleInd, TypeOK
  <2>2. Evaluate(s)
    BY <1>1, OnlyEvaluateStarts
  <2>3. Direction(triggers[s], created[s] >= Cooldown) = "scaleup"
    <3>1. /\ job'[Watcher] = [svc |-> s, dir |-> "up"] /\ job[Watcher] = NoJob
          /\ job \in [Procs -> [svc : Services, dir : {"up", "down"}] \cup {NoJob}] /\ Watcher \in Procs
      BY <1>1 DEF WatcherStarts, ScaleInd, TypeOK, Procs
    <3>. QED
      BY <2>2, <3>1, EvaluateCases DEF NoJob
  <2>. DEFINE oldEnough == created[s] >= Cooldown
  <2>4. oldEnough \in BOOLEAN /\ Direction(triggers[s], oldEnough) = "scaleup"
    BY <2>3
  <2>. HIDE DEF oldEnough
  <2>5. FirstNotIdleAnswered(triggers[s])
    BY <2>1, <2>4, DirectionUp
  <2>. QED
    BY <2>5 DEF oldEnough
<1>2. ScaleInd /\ [Next]_vars
        => [\A s \in Services : WatcherStarts(s, "up") => FirstNotIdleAnswered(triggers[s])]_vars
  BY <1>1
<1>. QED
  BY ScaleIndInit, ScaleIndNext, <1>2, PTL DEF Spec, UpOnlyOnAnswer
=============================================================================
