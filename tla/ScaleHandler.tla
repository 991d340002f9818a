---------------------------- MODULE ScaleHandler ----------------------------
(***************************************************************************)
(* Scaling to and from zero: pkg/scaling/scale_handler.go and the handler  *)
(* of operator/internal/elastiserver/elastiServer.go that calls it.        *)
(*                                                                         *)
(* Two kinds of goroutine run scale jobs.  The watcher polls: it lists the *)
(* ElastiServices, and for each one in turn computes a direction and runs  *)
(* a job with the copy it listed.  A server handler runs a scale-up job    *)
(* when the resolver reports a request.  A job stamps LastScaledUpTime     *)
(* (up only), patches the KEDA ScaledObject, and then, under the mutex of  *)
(* the service, gets the target's replicas and patches them.  Each call to *)
(* the API server is a step of its own, and may fail.                      *)
(*                                                                         *)
(* Time is kept as ages that stop at Cooldown: an age of Cooldown means at *)
(* least the cooldown period ago, or never.                                *)
(***************************************************************************)
EXTENDS Triggers

CONSTANTS Services,             \* the ElastiServices
          Handlers,             \* server goroutines
          Watcher,              \* the StartScaleDownWatcher goroutine
          None,
          Autoscalers,          \* the kinds of spec.autoscaler that occur, "none" if left out
          MinTargetReplicas,    \* spec.minTargetReplicas; 0 when left out
          MaxReplicas,          \* bound: what an autoscaler or a user may set
          Cooldown,             \* the cooldown period, in ticks
          TriggerLists,         \* the trigger outcomes that occur
          MaxRestarts           \* bound: restarts of the operator

Procs == Handlers \cup {Watcher}

ASSUME ScaleHandlerAssumption ==
    /\ Watcher \notin Handlers /\ None \notin Procs
    /\ Autoscalers \subseteq {"none", "hpa", "keda"}
    /\ MinTargetReplicas \in Nat /\ MaxReplicas \in Nat /\ MinTargetReplicas <= MaxReplicas
    /\ Cooldown \in Nat \ {0} /\ MaxRestarts \in Nat

ASSUME TriggerListsAssumption == TriggerLists \subseteq Seq(Trigger)

VARIABLES autoscaler,   \* autoscaler[s]: spec.autoscaler of the ElastiService
          replicas,     \* replicas[s]: spec.replicas of the scale target
          paused,       \* paused[s]: the KEDA ScaledObject is paused at 0 replicas
          age,          \* age[s]: time since status.lastScaledUpTime
          created,      \* created[s]: time since creationTimestamp
          triggers,     \* triggers[s]: what its triggers' queries return now
          lock,         \* lock[s]: who holds the mutex of scaleLocks
          pc,           \* pc[p]: the next step of p
          job,          \* job[p]: the service and the direction p works on
          seen,         \* seen[p]: the replicas p's Get returned
          snap,         \* the watcher's listed copies: age since their lastScaledUpTime
          todo,         \* the listed items the watcher has not come to yet
          restarts

vars == <<autoscaler, replicas, paused, age, created, triggers, lock, pc, job, seen, snap, todo, restarts>>
cluster == <<autoscaler, replicas, paused, age, created, triggers>>

NoJob == [svc |-> None, dir |-> "none"]

Labels == {"idle", "loop", "cooldown", "stamp", "keda", "lock", "get", "patch"}

Svc(p) == job[p].svc
Desired(p) == IF job[p].dir = "up" THEN MinTargetReplicas ELSE 0

Init ==
    /\ autoscaler \in [Services -> Autoscalers]
    /\ replicas \in [Services -> 0..MaxReplicas]
    /\ paused = [s \in Services |-> FALSE]
    /\ age = [s \in Services |-> Cooldown]
    /\ created = [s \in Services |-> 0]
    /\ triggers \in [Services -> TriggerLists]
    /\ lock = [s \in Services |-> None]
    /\ pc = [p \in Procs |-> "idle"]
    /\ job = [p \in Procs |-> NoJob]
    /\ seen = [p \in Procs |-> 0]
    /\ snap = [s \in Services |-> Cooldown]
    /\ todo = {}
    /\ restarts = 0

-----------------------------------------------------------------------------
(* The steps of a job, shared by ScaleTargetFromZero and ScaleTargetToZero. *)

Goto(p, label) == pc' = [pc EXCEPT ![p] = label]

(* Where a job starts to touch the autoscaler, if it has a KEDA one. *)
KedaOrLock(s) == IF autoscaler[s] = "keda" THEN "keda" ELSE "lock"

(* The job ends: a handler returns, the watcher goes on with its list. *)
Return(p) ==
    /\ Goto(p, IF p = Watcher THEN "loop" ELSE "idle")
    /\ job' = [job EXCEPT ![p] = NoJob]
    /\ seen' = [seen EXCEPT ![p] = 0]

Unlock(s) == lock' = [lock EXCEPT ![s] = None]

(* UpdateLastScaledUpTime; a failure is logged and otherwise ignored. *)
Stamp(p) ==
    /\ pc[p] = "stamp"
    /\ \/ age' = [age EXCEPT ![Svc(p)] = 0]
       \/ age' = age
    /\ Goto(p, KedaOrLock(Svc(p)))
    /\ UNCHANGED <<autoscaler, replicas, paused, created, triggers, lock, job, seen, snap, todo, restarts>>

(* Mutant: the ScaledObject is paused in both directions. *)
KedaPatchAlwaysPauses(p) ==
    /\ pc[p] = "keda"
    /\ paused' = [paused EXCEPT ![Svc(p)] = TRUE]
    /\ Goto(p, "lock")
    /\ UNCHANGED <<autoscaler, replicas, age, created, triggers, lock, job, seen, snap, todo, restarts>>

(* Mutant: the two directions are swapped. *)
KedaPatchSwapped(p) ==
    /\ pc[p] = "keda"
    /\ paused' = [paused EXCEPT ![Svc(p)] = (job[p].dir = "up")]
    /\ Goto(p, "lock")
    /\ UNCHANGED <<autoscaler, replicas, age, created, triggers, lock, job, seen, snap, todo, restarts>>

(* UpdateKedaScaledObjectPausedState succeeds. *)
KedaPatch(p) ==
    /\ pc[p] = "keda"
    /\ paused' = [paused EXCEPT ![Svc(p)] = (job[p].dir = "down")]
    /\ Goto(p, "lock")
    /\ UNCHANGED <<autoscaler, replicas, age, created, triggers, lock, job, seen, snap, todo, restarts>>

(* Mutant: the scale functions are called without the mutex. *)
LockNothing(p) ==
    /\ pc[p] = "lock"
    /\ Goto(p, "get")
    /\ UNCHANGED <<cluster, lock, job, seen, snap, todo, restarts>>

Lock(p) ==
    /\ pc[p] = "lock"
    /\ lock[Svc(p)] = None
    /\ lock' = [lock EXCEPT ![Svc(p)] = p]
    /\ Goto(p, "get")
    /\ UNCHANGED <<cluster, job, seen, snap, todo, restarts>>

(* The two early returns of ScaleDeployment and ScaleArgoRollout. *)
AlreadyScaled(p) ==
    LET current == replicas[Svc(p)]
    IN  current = Desired(p) \/ (Desired(p) > 0 /\ current > Desired(p))

(* Mutant: only the first early return is there. *)
GetNothingToDoExact(p) ==
    /\ pc[p] = "get"
    /\ replicas[Svc(p)] = Desired(p)
    /\ Unlock(Svc(p))
    /\ Return(p)
    /\ UNCHANGED <<cluster, snap, todo, restarts>>

GetNothingToDo(p) ==
    /\ pc[p] = "get"
    /\ AlreadyScaled(p)
    /\ Unlock(Svc(p))
    /\ Return(p)
    /\ UNCHANGED <<cluster, snap, todo, restarts>>

(* Mutant: the target is patched whenever it differs from what is desired. *)
GetAndPatchExact(p) ==
    /\ pc[p] = "get"
    /\ replicas[Svc(p)] # Desired(p)
    /\ seen' = [seen EXCEPT ![p] = replicas[Svc(p)]]
    /\ Goto(p, "patch")
    /\ UNCHANGED <<cluster, lock, job, snap, todo, restarts>>

GetAndPatch(p) ==
    /\ pc[p] = "get"
    /\ ~AlreadyScaled(p)
    /\ seen' = [seen EXCEPT ![p] = replicas[Svc(p)]]
    /\ Goto(p, "patch")
    /\ UNCHANGED <<cluster, lock, job, snap, todo, restarts>>

Patch(p) ==
    /\ pc[p] = "patch"
    /\ replicas' = [replicas EXCEPT ![Svc(p)] = Desired(p)]
    /\ Unlock(Svc(p))
    /\ Return(p)
    /\ UNCHANGED <<autoscaler, paused, age, created, triggers, snap, todo, restarts>>

(* The KEDA patch, the Get or the Patch fails: the job returns its error. *)
Fail(p) ==
    /\ pc[p] \in {"keda", "get", "patch"}
    /\ lock' = IF pc[p] = "keda" THEN lock ELSE [lock EXCEPT ![Svc(p)] = None]
    /\ Return(p)
    /\ UNCHANGED <<cluster, snap, todo, restarts>>

JobStep(p) ==
    \/ Stamp(p) \/ KedaPatch(p) \/ Lock(p) \/ GetNothingToDo(p)
    \/ GetAndPatch(p) \/ Patch(p) \/ Fail(p)

-----------------------------------------------------------------------------
(* Mutant: the server also takes a service down. *)
HandleRequestEitherWay(h) ==
    /\ pc[h] = "idle"
    /\ \E s \in Services, d \in {"up", "down"} : job' = [job EXCEPT ![h] = [svc |-> s, dir |-> d]]
    /\ Goto(h, "stamp")
    /\ UNCHANGED <<cluster, lock, seen, snap, todo, restarts>>

(* resolverReqHandler and scaleTargetForService, for a service that is in   *)
(* the CRD directory; for any other it returns without a step.              *)
HandleRequest(h) ==
    /\ pc[h] = "idle"
    /\ \E s \in Services : job' = [job EXCEPT ![h] = [svc |-> s, dir |-> "up"]]
    /\ Goto(h, "stamp")
    /\ UNCHANGED <<cluster, lock, seen, snap, todo, restarts>>

(* checkAndScale lists the ElastiServices; a failed List is no step. *)
Poll ==
    /\ pc[Watcher] = "idle"
    /\ snap' = age
    /\ todo' = Services
    /\ Goto(Watcher, "loop")
    /\ UNCHANGED <<cluster, lock, job, seen, restarts>>

(* calculateScaleDirection for the next item, and the switch on it. *)
Evaluate(s) ==
    /\ pc[Watcher] = "loop"
    /\ s \in todo
    /\ todo' = todo \ {s}
    /\ LET d == Direction(triggers[s], created[s] >= Cooldown)
       IN  CASE d = "scaleup" ->
                    /\ job' = [job EXCEPT ![Watcher] = [svc |-> s, dir |-> "up"]]
                    /\ Goto(Watcher, "stamp")
             [] d = "scaledown" ->
                    /\ job' = [job EXCEPT ![Watcher] = [svc |-> s, dir |-> "down"]]
                    /\ Goto(Watcher, "cooldown")
             [] OTHER -> UNCHANGED <<job, pc>>
    /\ UNCHANGED <<cluster, lock, seen, snap, restarts>>

(* Mutant: the cooldown test of handleScaleToZero is dropped. *)
CooldownIgnored ==
    /\ pc[Watcher] = "cooldown"
    /\ Goto(Watcher, KedaOrLock(Svc(Watcher)))
    /\ UNCHANGED <<cluster, lock, job, seen, snap, todo, restarts>>

(* handleScaleToZero: the cooldown is measured on the listed copy. *)
CooldownMet ==
    /\ pc[Watcher] = "cooldown"
    /\ snap[Svc(Watcher)] >= Cooldown
    /\ Goto(Watcher, KedaOrLock(Svc(Watcher)))
    /\ UNCHANGED <<cluster, lock, job, seen, snap, todo, restarts>>

CooldownNotMet ==
    /\ pc[Watcher] = "cooldown"
    /\ snap[Svc(Watcher)] < Cooldown
    /\ Return(Watcher)
    /\ UNCHANGED <<cluster, lock, snap, todo, restarts>>

PollDone ==
    /\ pc[Watcher] = "loop"
    /\ todo = {}
    /\ Goto(Watcher, "idle")
    /\ UNCHANGED <<cluster, lock, job, seen, snap, todo, restarts>>

-----------------------------------------------------------------------------
(* The environment. *)

Older(a) == [s \in Services |-> IF a[s] < Cooldown THEN a[s] + 1 ELSE a[s]]

Tick ==
    /\ age' = Older(age) /\ created' = Older(created) /\ snap' = Older(snap)
    /\ UNCHANGED <<autoscaler, replicas, paused, triggers, lock, pc, job, seen, todo, restarts>>

ChangeTriggers(s) ==
    /\ \E ts \in TriggerLists : triggers' = [triggers EXCEPT ![s] = ts]
    /\ UNCHANGED <<autoscaler, replicas, paused, age, created, lock, pc, job, seen, snap, todo, restarts>>

(* External.  An HPA leaves a target at 0 alone.  KEDA keeps a paused        *)
(* target at its paused-replicas annotation, 0, and any other at 1 or more.  *)
Autoscale(s) ==
    /\ \/ autoscaler[s] = "hpa" /\ replicas[s] > 0 /\ \E n \in 1..MaxReplicas : replicas' = [replicas EXCEPT ![s] = n]
       \/ autoscaler[s] = "keda" /\ ~paused[s] /\ \E n \in 1..MaxReplicas : replicas' = [replicas EXCEPT ![s] = n]
       \/ autoscaler[s] = "keda" /\ paused[s] /\ replicas' = [replicas EXCEPT ![s] = 0]
    /\ UNCHANGED <<autoscaler, paused, age, created, triggers, lock, pc, job, seen, snap, todo, restarts>>

(* The operator stops at any point and starts again: the mutexes, the list   *)
(* and the jobs are gone, the cluster is as they left it.                    *)
Restart ==
    /\ restarts < MaxRestarts
    /\ restarts' = restarts + 1
    /\ lock' = [s \in Services |-> None]
    /\ pc' = [p \in Procs |-> "idle"]
    /\ job' = [p \in Procs |-> NoJob]
    /\ seen' = [p \in Procs |-> 0]
    /\ snap' = [s \in Services |-> Cooldown]
    /\ todo' = {}
    /\ UNCHANGED cluster

WatcherStep ==
    \/ Poll \/ PollDone \/ CooldownMet \/ CooldownNotMet
    \/ \E s \in Services : Evaluate(s)

Next ==
    \/ \E p \in Procs : JobStep(p)
    \/ \E h \in Handlers : HandleRequest(h)
    \/ WatcherStep
    \/ Tick \/ Restart
    \/ \E s \in Services : ChangeTriggers(s) \/ Autoscale(s)

Spec == Init /\ [][Next]_vars

(* The ticker fires, goroutines run, time passes, Go's mutex starves nobody, *)
(* and no call to the API server for a service fails for ever.               *)
Fairness ==
    /\ WF_vars(WatcherStep) /\ WF_vars(Tick)
    /\ \A p \in Procs, s \in Services :
        /\ WF_vars(Svc(p) = s /\ Stamp(p))
        /\ SF_vars(Svc(p) = s /\ KedaPatch(p))
        /\ SF_vars(Svc(p) = s /\ Lock(p))
        /\ SF_vars(Svc(p) = s /\ (GetAndPatch(p) \/ GetNothingToDo(p)))
        /\ SF_vars(Svc(p) = s /\ Patch(p))

FairSpec == Spec /\ Fairness

-----------------------------------------------------------------------------
(* Every variable stays in its range, and a job is under way exactly when    *)
(* its goroutine is at one of its steps.                                     *)
TypeOK ==
    /\ autoscaler \in [Services -> Autoscalers]
    /\ replicas \in [Services -> 0..MaxReplicas]
    /\ paused \in [Services -> BOOLEAN]
    /\ age \in [Services -> 0..Cooldown] /\ created \in [Services -> 0..Cooldown]
    /\ triggers \in [Services -> TriggerLists]
    /\ lock \in [Services -> Procs \cup {None}]
    /\ pc \in [Procs -> Labels]
    /\ job \in [Procs -> [svc : Services, dir : {"up", "down"}] \cup {NoJob}]
    /\ \A p \in Procs : job[p] = NoJob <=> pc[p] \in {"idle", "loop"}
    /\ \A h \in Handlers : pc[h] \notin {"loop", "cooldown"} /\ job[h].dir # "down"
    /\ seen \in [Procs -> 0..MaxReplicas]
    /\ snap \in [Services -> 0..Cooldown]
    /\ todo \in SUBSET Services
    /\ restarts \in 0..MaxRestarts

(* The mutex of a service makes Get-then-Patch atomic among elasti's own     *)
(* jobs: what a job saw still holds when it patches, unless an autoscaler    *)
(* writes the same field (scale_handler.go:286-288, 357-381).                *)
FreshRead ==
    \A p \in Procs :
        pc[p] = "patch" /\ autoscaler[Svc(p)] = "none" => replicas[Svc(p)] = seen[p]

(* A scale-up job never takes replicas away: when it patches, the target has *)
(* fewer replicas than it asks for (scale_handler.go:366-381).               *)
UpJobRaises ==
    \A p \in Procs :
        pc[p] = "patch" /\ job[p].dir = "up" /\ autoscaler[Svc(p)] = "none"
            => replicas[Svc(p)] < Desired(p)

(* The watcher begins a job on service s in this step. *)
WatcherStarts(s, dir) == pc[Watcher] = "loop" /\ job'[Watcher] = [svc |-> s, dir |-> dir]

(* An unhealthy Prometheus, a failed query, a trigger that cannot be read or *)
(* a null sample never takes a service down: the watcher starts towards zero *)
(* only when every trigger was read as idle and the ElastiService is older   *)
(* than the cooldown (scale_handler.go:147-200).                             *)
DownOnlyWhenAllIdle ==
    [][\A s \in Services : WatcherStarts(s, "down")
            => AllIdle(triggers[s]) /\ created[s] >= Cooldown]_vars

(* A failed query, an unhealthy Prometheus or a trigger that cannot be read  *)
(* does not scale a service up either: that takes a trigger whose queries    *)
(* were answered, after others that were all read as idle, with a value that *)
(* is not below its threshold or with a null sample, which the code takes    *)
(* for traffic (scale_handler.go:194; prometheus_scaler.go:140-141).         *)
UpOnlyOnAnswer ==
    [][\A s \in Services : WatcherStarts(s, "up") => FirstNotIdleAnswered(triggers[s])]_vars

(* The cooldown, as far as the listed copy can tell (scale_handler.go:210): a  *)
(* target is patched to 0 sooner after its recorded LastScaledUpTime only if  *)
(* that was stamped after the poll had listed the service, by a request.      *)
CooldownSinceList ==
    \A p \in Procs :
        pc[p] = "patch" /\ job[p].dir = "down"
            => age[Svc(p)] >= Cooldown \/ age[Svc(p)] < snap[Svc(p)]

(* A service whose triggers stay active ends up running with its autoscaler  *)
(* resumed, whatever stale scale-down was in flight, whichever calls failed  *)
(* and wherever the operator was restarted.                                  *)
LoadEventuallyUp ==
    \A s \in Services :
        <>[](Direction(triggers[s], TRUE) = "scaleup") => <>[](replicas[s] > 0 /\ ~paused[s])

(* A service whose triggers stay idle and that gets no more requests ends up *)
(* at 0 replicas, and its autoscaler does not bring it back.                 *)
IdleEventuallyZero ==
    \A s \in Services :
        <>[](Direction(triggers[s], TRUE) = "scaledown" /\ \A h \in Handlers : Svc(h) # s)
            => <>[](replicas[s] = 0)
=============================================================================
