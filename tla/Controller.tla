----------------------------- MODULE Controller -----------------------------
(***************************************************************************)
(* The reconciler of operator/internal/controller for one ElastiService:   *)
(* Reconcile and its finalizer, the informer handlers, and the switch      *)
(* between serve mode (the public service reaches the pods) and proxy mode *)
(* (an EndpointSlice sends it to the resolver).                            *)
(*                                                                         *)
(* Four kinds of goroutine run here.  Reconcilers are the controller's     *)
(* worker and Initialize, which calls Reconcile directly; they share the   *)
(* mutex of ReconcileLocks.  A watcher is the informer of the scale        *)
(* target; its handler calls switchMode under the mutex of                 *)
(* SwitchModeLocks.  Stopping an informer does not wait for a handler that *)
(* runs, so there may be a watcher of an earlier informer.  The resolver's *)
(* informer calls handleResolverChanges and takes no mutex.                *)
(*                                                                         *)
(* Reads go to the manager's cache, which follows the API server with a    *)
(* delay and catches up all at once; writes go to the API server, may be   *)
(* refused by it, and may fail.  Consecutive reads of the cache are one    *)
(* step.  The spec of the ElastiService does not change, and the public    *)
(* service is always there.                                                *)
(***************************************************************************)
EXTENDS Integers, FiniteSets

CONSTANTS Watchers,         \* the handlers of scale-target informers
          Worker,           \* the goroutine of the controller
          Initializer,      \* main, which calls Initialize
          Resolver,         \* the handler of the resolver's informer
          None,
          Kind,             \* spec.scaleTargetRef.kind: "deployments" or "rollout"
          IPs,              \* what the resolver's pod addresses may be; None if it has no pods
          Targets,          \* the states the scale target goes through
          Lagging,          \* the kinds of object whose cached copy may be stale
          MaxBirths,        \* bound: how often the ElastiService is created
          MaxDeletes,       \* bound: how often it is deleted
          MaxFailures,      \* bound: failures of calls to the API server
          MaxRestarts       \* bound: restarts of the operator

Reconcilers == {Worker, Initializer}
Procs == Watchers \cup Reconcilers \cup {Resolver}

(* What the target's status says: no such object, status.replicas = 0, replicas   *)
(* but none ready, some ready, some ready and (for a rollout) the phase Healthy.   *)
TargetStates == {"missing", "zero", "starting", "ready", "healthy"}

ASSUME ControllerAssumption ==
    /\ Watchers # {} /\ Watchers \cap (Reconcilers \cup {Resolver}) = {}
    /\ Worker # Initializer /\ Resolver \notin Reconcilers /\ None \notin Procs
    /\ Kind \in {"deployments", "rollout"}
    /\ Targets \subseteq TargetStates
    /\ Lagging \subseteq {"resolver", "slice", "private"}
    /\ MaxBirths \in Nat /\ MaxDeletes \in Nat /\ MaxFailures \in Nat /\ MaxRestarts \in Nat

ASSUME NoneIsNoMode == None \notin {"", "proxy", "serve"}

VARIABLES target,       \* the scale target's status
          resolver,     \* the addresses in the resolver's EndpointSlices
          crd,          \* the ElastiService
          slice,        \* the EndpointSlice to the resolver: its addresses; None if not there
          private,      \* the private service: the ElastiService that owns it; 0 if not there
          cache,        \* the manager's cache of the last four
          once,         \* InformerStartLocks: the Onces that are consumed
          watching,     \* the informer of the scale target in InformerManager's map
          publicInformer, \* there is an informer of the public service in the map
          dir,          \* the CRD directory: the mode in the entry's status; None if there is no entry
          dirty,        \* the ElastiService is in the controller's work queue
          rlock, slock, \* who holds the mutex of ReconcileLocks, of SwitchModeLocks
          pc,           \* pc[p]: the next step of p
          loc,          \* loc[p]: the local variables of p
          failures, restarts

api == <<target, resolver, crd, slice, private>>
mem == <<once, watching, publicInformer, dir, dirty>>
locks == <<rlock, slock>>
budget == <<failures, restarts>>
vars == <<api, cache, mem, locks, pc, loc, budget>>

Modes == {"", "proxy", "serve"}
CRDs == [phase : {"absent", "live", "deleting"}, fin : BOOLEAN, mode : Modes, birth : 0..MaxBirths]
NoCRD(b) == [phase |-> "absent", fin |-> FALSE, mode |-> "", birth |-> b]

Cached == [crd |-> crd, resolver |-> resolver, slice |-> slice, private |-> private]

(* A Get or List of the manager's client. *)
Read(o) == IF o \in Lagging THEN cache[o] ELSE Cached[o]

(* The goroutines of finalizeCRD, each at its next step. *)
Tasks == {"stop", "reset", "sliceGet", "sliceDelete", "privateGet", "privateDelete"}
FirstTasks == {"stop", "sliceGet", "privateGet"}

NoLocals == [mode |-> "", owner |-> 0, ips |-> None, found |-> FALSE, es |-> NoCRD(0), tasks |-> {}, err |-> FALSE]

Labels == {"idle", "lock", "createPrivate", "watchPublic", "readSlice", "writeSlice", "deleteSlice",
           "status", "patchStatus", "reconcile", "finalize", "removeFinalizer", "addFinalizer",
           "watchTarget", "addDirectory"}

(* Where the goroutines of a fresh process of the operator are: Initialize calls *)
(* Reconcile for an ElastiService that is there and not being deleted.           *)
BootPc == [p \in Procs |-> IF p = Initializer /\ crd.phase = "live" THEN "reconcile" ELSE "idle"]

Init ==
    /\ target \in Targets /\ resolver \in IPs
    /\ crd = NoCRD(0) /\ slice = None /\ private = 0
    /\ cache = Cached
    /\ once = {} /\ watching = None /\ publicInformer = FALSE /\ dir = None /\ dirty = FALSE
    /\ rlock = None /\ slock = None
    /\ pc = BootPc /\ loc = [p \in Procs |-> NoLocals]
    /\ failures = 0 /\ restarts = 0

-----------------------------------------------------------------------------
Goto(p, label) == pc' = [pc EXCEPT ![p] = label]
Set(p, record) == loc' = [loc EXCEPT ![p] = record]
Done(p) == Goto(p, "idle") /\ Set(p, NoLocals)

(* handleTargetDeploymentChanges: no replicas, or some that are ready. *)
DeploymentMode(t) ==
    CASE t = "zero" -> "proxy"
      [] t \in {"ready", "healthy"} -> "serve"
      [] OTHER -> "none"

(* handleTargetRolloutChanges: none that is ready, or some and the phase Healthy. *)
RolloutMode(t) ==
    CASE t \in {"zero", "starting"} -> "proxy"
      [] t = "healthy" -> "serve"
      [] OTHER -> "none"

(* The mode to switch to. *)
ModeFor(t) == IF Kind = "rollout" THEN RolloutMode(t) ELSE DeploymentMode(t)

(* UpdateFunc of the scale target: a change of it, or the informer's resync. *)
Deliver(w) ==
    /\ pc[w] = "idle" /\ watching = w
    /\ ModeFor(target) # "none"
    /\ Set(w, [NoLocals EXCEPT !.mode = ModeFor(target)])
    /\ Goto(w, "lock")
    /\ UNCHANGED <<api, cache, mem, locks, budget>>

(* Mutant: nothing is done if the status already has the mode. *)
SwitchUnlessRecorded(w) ==
    /\ pc[w] = "lock" /\ slock = None
    /\ IF cache.crd.phase = "absent" \/ cache.crd.mode = loc[w].mode
       THEN Done(w) /\ UNCHANGED slock
       ELSE /\ slock' = w
            /\ Set(w, [loc[w] EXCEPT !.owner = cache.crd.birth])
            /\ Goto(w, IF loc[w].mode = "serve"
                       THEN IF Read("slice") = None THEN "status" ELSE "deleteSlice"
                       ELSE IF Read("private") = 0 THEN "createPrivate" ELSE "watchPublic")
    /\ UNCHANGED <<api, cache, mem, rlock, budget>>

(* Mutant: the private service is not created. *)
SwitchWithoutPrivate(w) ==
    /\ pc[w] = "lock" /\ slock = None
    /\ IF cache.crd.phase = "absent"
       THEN Done(w) /\ UNCHANGED slock
       ELSE /\ slock' = w
            /\ Set(w, [loc[w] EXCEPT !.owner = cache.crd.birth])
            /\ Goto(w, IF loc[w].mode = "serve"
                       THEN IF Read("slice") = None THEN "status" ELSE "deleteSlice"
                       ELSE "watchPublic")
    /\ UNCHANGED <<api, cache, mem, rlock, budget>>

(* switchMode: the mutex, getCRD, and the first read of enableServeMode or *)
(* enableProxyMode.                                                        *)
Switch(w) ==
    /\ pc[w] = "lock" /\ slock = None
    /\ IF cache.crd.phase = "absent"
       THEN Done(w) /\ UNCHANGED slock
       ELSE /\ slock' = w
            /\ Set(w, [loc[w] EXCEPT !.owner = cache.crd.birth])
            /\ Goto(w, IF loc[w].mode = "serve"
                       THEN IF Read("slice") = None THEN "status" ELSE "deleteSlice"
                       ELSE IF Read("private") = 0 THEN "createPrivate" ELSE "watchPublic")
    /\ UNCHANGED <<api, cache, mem, rlock, budget>>

(* checkAndCreatePrivateService when it finds none; the ElastiService owns the service. *)
CreatePrivate(w) ==
    /\ pc[w] = "createPrivate"
    /\ IF private = 0
       THEN private' = loc[w].owner /\ Goto(w, "watchPublic")
       ELSE UNCHANGED private /\ Goto(w, "status")
    /\ UNCHANGED <<target, resolver, crd, slice, cache, mem, locks, loc, budget>>

(* watchPublicService: Once.Do of InformerManager.Add, which succeeds. *)
WatchPublic(w) ==
    /\ pc[w] = "watchPublic"
    /\ publicInformer' = (publicInformer \/ "public" \notin once)
    /\ once' = once \cup {"public"}
    /\ Goto(w, "readSlice")
    /\ UNCHANGED <<api, cache, watching, dir, dirty, locks, loc, budget>>

(* Where createOrUpdateEndpointsliceToResolver returns to. *)
AfterSlice(p) ==
    IF p = Resolver
    THEN Done(p)
    ELSE Goto(p, "status") /\ Set(p, [loc[p] EXCEPT !.ips = None, !.found = FALSE])

(* createOrUpdateEndpointsliceToResolver: getIPsForResolver, and the Get. *)
ReadSlice(p) ==
    /\ pc[p] = "readSlice"
    /\ IF Read("resolver") = None
       THEN AfterSlice(p)
       ELSE /\ Set(p, [loc[p] EXCEPT !.ips = Read("resolver"), !.found = (Read("slice") # None)])
            /\ Goto(p, "writeSlice")
    /\ UNCHANGED <<api, cache, mem, locks, budget>>

(* Mutant: an EndpointSlice that is there is left as it is. *)
WriteSliceCreateOnly(p) ==
    /\ pc[p] = "writeSlice"
    /\ slice' = IF ~loc[p].found /\ slice = None THEN loc[p].ips ELSE slice
    /\ AfterSlice(p)
    /\ UNCHANGED <<target, resolver, crd, private, cache, mem, locks, budget>>

(* Its Update or its Create: the first needs the slice to be there, the second not. *)
WriteSlice(p) ==
    /\ pc[p] = "writeSlice"
    /\ slice' = IF loc[p].found = (slice # None) THEN loc[p].ips ELSE slice
    /\ AfterSlice(p)
    /\ UNCHANGED <<target, resolver, crd, private, cache, mem, locks, budget>>

(* deleteEndpointsliceToResolver when it finds the slice. *)
DeleteSlice(w) ==
    /\ pc[w] = "deleteSlice"
    /\ slice' = None
    /\ Goto(w, "status")
    /\ UNCHANGED <<target, resolver, crd, private, cache, mem, locks, loc, budget>>

(* updateCRDStatus, deferred by switchMode whatever enable*Mode returned.  The *)
(* patch holds the mode only if the copy that was read has another one.         *)
ReadStatus(w) ==
    /\ pc[w] = "status"
    /\ IF cache.crd.phase = "absent"
       THEN Done(w) /\ slock' = None
       ELSE /\ Set(w, [loc[w] EXCEPT !.found = (cache.crd.mode # loc[w].mode)])
            /\ Goto(w, "patchStatus")
            /\ UNCHANGED slock
    /\ UNCHANGED <<api, cache, mem, rlock, budget>>

PatchStatus(w) ==
    /\ pc[w] = "patchStatus"
    /\ crd' = IF crd.phase # "absent" /\ loc[w].found
              THEN [crd EXCEPT !.mode = loc[w].mode] ELSE crd
    /\ slock' = None
    /\ Done(w)
    /\ UNCHANGED <<target, resolver, slice, private, cache, mem, rlock, budget>>

(* A call of switchMode fails: enable*Mode returns, or the status stays as it is. *)
(* A failed Add has consumed the Once.                                            *)
FailSwitch(w) ==
    /\ pc[w] \in {"createPrivate", "watchPublic", "writeSlice", "deleteSlice", "patchStatus"}
    /\ failures < MaxFailures /\ failures' = failures + 1
    /\ IF pc[w] = "watchPublic"
       THEN "public" \notin once /\ once' = once \cup {"public"}
       ELSE UNCHANGED once
    /\ IF pc[w] = "patchStatus"
       THEN Done(w) /\ slock' = None
       ELSE Goto(w, "status") /\ UNCHANGED <<loc, slock>>
    /\ UNCHANGED <<api, cache, watching, publicInformer, dir, dirty, rlock, restarts>>

-----------------------------------------------------------------------------
(* The resolver's informer runs once Initialize has reconciled. *)

(* handleResolverChanges: the entry of the directory and its mode. *)
ResolverChanges ==
    /\ pc[Resolver] = "idle" /\ pc[Initializer] = "idle"
    /\ dir = "proxy"
    /\ Goto(Resolver, "readSlice")
    /\ UNCHANGED <<api, cache, mem, locks, loc, budget>>

FailResolver ==
    /\ pc[Resolver] = "writeSlice"
    /\ failures < MaxFailures /\ failures' = failures + 1
    /\ Done(Resolver)
    /\ UNCHANGED <<api, cache, mem, locks, restarts>>

-----------------------------------------------------------------------------
(* Reconcile. *)

(* It returns; an error puts the ElastiService back into the worker's queue, *)
(* while Initialize logs it.                                                 *)
Return(p, err) ==
    /\ Done(p)
    /\ rlock' = None
    /\ dirty' = (dirty \/ (err /\ p = Worker))

Dequeue ==
    /\ pc[Worker] = "idle" /\ dirty
    /\ dirty' = FALSE
    /\ Goto(Worker, "reconcile")
    /\ UNCHANGED <<api, cache, once, watching, publicInformer, dir, locks, loc, budget>>

(* Mutant: Reconcile does not take the mutex. *)
ReconcileUnlocked(p) ==
    /\ pc[p] = "reconcile"
    /\ IF cache.crd.phase = "absent"
       THEN Done(p) /\ UNCHANGED rlock
       ELSE /\ rlock' = p
            /\ Set(p, [NoLocals EXCEPT !.es = cache.crd,
                           !.tasks = IF cache.crd.phase = "deleting" THEN FirstTasks ELSE {}])
            /\ Goto(p, IF cache.crd.phase = "deleting" THEN "finalize"
                       ELSE IF cache.crd.fin THEN "watchTarget" ELSE "addFinalizer")
    /\ UNCHANGED <<api, cache, mem, slock, budget>>

(* The mutex, getCRD, and the choice among finalizeCRD, addCRDFinalizer and *)
(* watchScaleTargetRef.                                                     *)
Reconcile(p) ==
    /\ pc[p] = "reconcile" /\ rlock = None
    /\ IF cache.crd.phase = "absent"
       THEN Done(p) /\ UNCHANGED rlock
       ELSE /\ rlock' = p
            /\ Set(p, [NoLocals EXCEPT !.es = cache.crd,
                           !.tasks = IF cache.crd.phase = "deleting" THEN FirstTasks ELSE {}])
            /\ Goto(p, IF cache.crd.phase = "deleting" THEN "finalize"
                       ELSE IF cache.crd.fin THEN "watchTarget" ELSE "addFinalizer")
    /\ UNCHANGED <<api, cache, mem, slock, budget>>

(* addCRDFinalizer; the Update is refused if the copy is not the latest version. *)
AddFinalizer(p) ==
    /\ pc[p] = "addFinalizer"
    /\ IF crd = loc[p].es
       THEN /\ crd' = [crd EXCEPT !.fin = TRUE]
            /\ Goto(p, "watchTarget")
            /\ UNCHANGED <<loc, rlock, dirty>>
       ELSE Return(p, TRUE) /\ UNCHANGED crd
    /\ UNCHANGED <<target, resolver, slice, private, cache, once, watching, publicInformer, dir, slock, budget>>

(* Mutant: the informer is stored under what asked for it. *)
WatchTargetByRequest(p) ==
    /\ pc[p] = "watchTarget"
    /\ once' = once \cup {"target"}
    /\ IF "target" \in once \/ watching # None
       THEN Goto(p, "addDirectory") /\ UNCHANGED <<watching, loc, rlock, dirty>>
       ELSE IF target = "missing"
       THEN Return(p, TRUE) /\ UNCHANGED watching
       ELSE /\ \E w \in Watchers : pc[w] = "idle" /\ watching' = p
            /\ Goto(p, "addDirectory") /\ UNCHANGED <<loc, rlock, dirty>>
    /\ UNCHANGED <<api, cache, publicInformer, dir, slock, budget>>

(* watchScaleTargetRef: Once.Do of InformerManager.Add, which verifies that the *)
(* target exists.  The Once is consumed whether or not Add succeeds.            *)
WatchTarget(p) ==
    /\ pc[p] = "watchTarget"
    /\ once' = once \cup {"target"}
    /\ IF "target" \in once \/ watching # None
       THEN Goto(p, "addDirectory") /\ UNCHANGED <<watching, loc, rlock, dirty>>
       ELSE IF target = "missing"
       THEN Return(p, TRUE) /\ UNCHANGED watching
       ELSE /\ \E w \in Watchers : pc[w] = "idle" /\ watching' = w
            /\ Goto(p, "addDirectory") /\ UNCHANGED <<loc, rlock, dirty>>
    /\ UNCHANGED <<api, cache, publicInformer, dir, slock, budget>>

(* crddirectory.AddCRD with the status of the copy that was read. *)
AddDirectory(p) ==
    /\ pc[p] = "addDirectory"
    /\ dir' = loc[p].es.mode
    /\ Return(p, FALSE)
    /\ UNCHANGED <<api, cache, once, watching, publicInformer, slock, budget>>

-----------------------------------------------------------------------------
(* finalizeCRD: three goroutines, joined by a WaitGroup. *)

NextTask(p, old, new) == Set(p, [loc[p] EXCEPT !.tasks = (@ \ {old}) \cup new])

FailTask(p, old) == Set(p, [loc[p] EXCEPT !.tasks = @ \ {old}, !.err = TRUE])

(* StopForCRD, then the Onces are reset. *)
StopForCRD(p) ==
    /\ pc[p] = "finalize" /\ "stop" \in loc[p].tasks
    /\ watching' = None /\ publicInformer' = FALSE
    /\ NextTask(p, "stop", {"reset"})
    /\ UNCHANGED <<api, cache, once, dir, dirty, locks, pc, budget>>

(* Mutant: only the Once of the public service is reset. *)
ResetOncesKeepsTarget(p) ==
    /\ pc[p] = "finalize" /\ "reset" \in loc[p].tasks
    /\ once' = once \ {"public"}
    /\ NextTask(p, "reset", {})
    /\ UNCHANGED <<api, cache, watching, publicInformer, dir, dirty, locks, pc, budget>>

ResetOnces(p) ==
    /\ pc[p] = "finalize" /\ "reset" \in loc[p].tasks
    /\ once' = {}
    /\ NextTask(p, "reset", {})
    /\ UNCHANGED <<api, cache, watching, publicInformer, dir, dirty, locks, pc, budget>>

(* deleteEndpointsliceToResolver and deletePrivateService: the Get. *)
FinalizeGet(p) ==
    /\ pc[p] = "finalize"
    /\ \/ /\ "sliceGet" \in loc[p].tasks
          /\ NextTask(p, "sliceGet", IF Read("slice") = None THEN {} ELSE {"sliceDelete"})
       \/ /\ "privateGet" \in loc[p].tasks
          /\ NextTask(p, "privateGet", IF Read("private") = 0 THEN {} ELSE {"privateDelete"})
    /\ UNCHANGED <<api, cache, mem, locks, pc, budget>>

(* Their Delete, an error if the object is not there. *)
FinalizeDelete(p) ==
    /\ pc[p] = "finalize"
    /\ \/ /\ "sliceDelete" \in loc[p].tasks
          /\ slice' = None /\ UNCHANGED private
          /\ IF slice = None THEN FailTask(p, "sliceDelete") ELSE NextTask(p, "sliceDelete", {})
       \/ /\ "privateDelete" \in loc[p].tasks
          /\ private' = 0 /\ UNCHANGED slice
          /\ IF private = 0 THEN FailTask(p, "privateDelete") ELSE NextTask(p, "privateDelete", {})
    /\ UNCHANGED <<target, resolver, crd, cache, mem, locks, pc, budget>>

(* Mutant: the error of a Delete is not returned. *)
FinalizeJoinSwallows(p) ==
    /\ pc[p] = "finalize" /\ loc[p].tasks = {}
    /\ dir' = None
    /\ IF loc[p].err
       THEN Return(p, FALSE)
       ELSE Goto(p, "removeFinalizer") /\ UNCHANGED <<loc, rlock, dirty>>
    /\ UNCHANGED <<api, cache, once, watching, publicInformer, slock, budget>>

(* wg.Wait, RemoveCRD, and the error of either Delete. *)
FinalizeJoin(p) ==
    /\ pc[p] = "finalize" /\ loc[p].tasks = {}
    /\ dir' = None
    /\ IF loc[p].err
       THEN Return(p, TRUE)
       ELSE Goto(p, "removeFinalizer") /\ UNCHANGED <<loc, rlock, dirty>>
    /\ UNCHANGED <<api, cache, once, watching, publicInformer, slock, budget>>

(* The Update without the finalizer, refused like AddFinalizer's.  The API server *)
(* then removes the object.                                                       *)
RemoveFinalizer(p) ==
    /\ pc[p] = "removeFinalizer"
    /\ crd' = IF crd = loc[p].es THEN NoCRD(crd.birth) ELSE crd
    /\ Return(p, crd # loc[p].es)
    /\ UNCHANGED <<target, resolver, slice, private, cache, once, watching, publicInformer, dir, slock, budget>>

(* A call of Reconcile to the API server fails: an Update of the finalizers, the Get *)
(* of verifyTargetExist, which consumes the Once, or a Get or Delete of finalizeCRD. *)
FailReconcile(p) ==
    /\ failures < MaxFailures /\ failures' = failures + 1
    /\ \/ /\ pc[p] \in {"addFinalizer", "removeFinalizer"}
          /\ Return(p, TRUE) /\ UNCHANGED once
       \/ /\ pc[p] = "watchTarget" /\ "target" \notin once /\ watching = None
          /\ once' = once \cup {"target"}
          /\ Return(p, TRUE)
       \/ /\ pc[p] = "finalize"
          /\ \E t \in loc[p].tasks \cap {"sliceDelete", "privateDelete"} : FailTask(p, t)
          /\ UNCHANGED <<pc, once, rlock, dirty>>
    /\ UNCHANGED <<api, cache, watching, publicInformer, dir, slock, restarts>>

-----------------------------------------------------------------------------
(* The cluster. *)

(* The manager's cache catches up; a change of the ElastiService is an event. *)
Sync(o) ==
    /\ o = "crd" \/ o \in Lagging
    /\ cache[o] # Cached[o]
    /\ cache' = [cache EXCEPT ![o] = Cached[o]]
    /\ dirty' = (dirty \/ o = "crd")
    /\ UNCHANGED <<api, once, watching, publicInformer, dir, locks, pc, loc, budget>>

CreateCRD ==
    /\ crd.phase = "absent" /\ crd.birth < MaxBirths
    /\ crd' = [phase |-> "live", fin |-> FALSE, mode |-> "", birth |-> crd.birth + 1]
    /\ UNCHANGED <<target, resolver, slice, private, cache, mem, locks, pc, loc, budget>>

(* The user deletes it; the finalizer keeps it until Reconcile has removed that. *)
DeleteCRD ==
    /\ crd.phase = "live" /\ crd.birth <= MaxDeletes
    /\ crd' = IF crd.fin THEN [crd EXCEPT !.phase = "deleting"] ELSE NoCRD(crd.birth)
    /\ UNCHANGED <<target, resolver, slice, private, cache, mem, locks, pc, loc, budget>>

TargetChange ==
    /\ \E t \in Targets \ {target} : target' = t
    /\ UNCHANGED <<resolver, crd, slice, private, cache, mem, locks, pc, loc, budget>>

ResolverChange ==
    /\ \E r \in IPs \ {resolver} : resolver' = r
    /\ UNCHANGED <<target, crd, slice, private, cache, mem, locks, pc, loc, budget>>

(* The garbage collector removes what a deleted ElastiService owned. *)
CollectPrivate ==
    /\ private # 0 /\ (crd.phase = "absent" \/ private # crd.birth)
    /\ private' = 0
    /\ UNCHANGED <<target, resolver, crd, slice, cache, mem, locks, pc, loc, budget>>

(* The operator is restarted: it keeps nothing, waits for its cache, and gets an *)
(* event for an ElastiService that is there.                                     *)
Restart ==
    /\ restarts < MaxRestarts /\ restarts' = restarts + 1
    /\ cache' = Cached
    /\ once' = {} /\ watching' = None /\ publicInformer' = FALSE /\ dir' = None
    /\ dirty' = (crd.phase # "absent")
    /\ rlock' = None /\ slock' = None
    /\ pc' = BootPc /\ loc' = [p \in Procs |-> NoLocals]
    /\ UNCHANGED <<api, failures>>

-----------------------------------------------------------------------------
SwitchStep(w) ==
    \/ Switch(w) \/ CreatePrivate(w) \/ WatchPublic(w) \/ ReadSlice(w) \/ WriteSlice(w)
    \/ DeleteSlice(w) \/ ReadStatus(w) \/ PatchStatus(w)

ResolverStep == ResolverChanges \/ ReadSlice(Resolver) \/ WriteSlice(Resolver)

ReconcileStep(p) ==
    \/ Reconcile(p) \/ AddFinalizer(p) \/ WatchTarget(p) \/ AddDirectory(p)
    \/ StopForCRD(p) \/ ResetOnces(p) \/ FinalizeGet(p) \/ FinalizeDelete(p)
    \/ FinalizeJoin(p) \/ RemoveFinalizer(p)

Environment == CreateCRD \/ DeleteCRD \/ TargetChange \/ ResolverChange \/ CollectPrivate \/ Restart

Next ==
    \/ \E w \in Watchers : Deliver(w) \/ SwitchStep(w) \/ FailSwitch(w)
    \/ ResolverStep \/ FailResolver
    \/ Dequeue
    \/ \E p \in Reconcilers : ReconcileStep(p) \/ FailReconcile(p)
    \/ \E o \in {"crd", "resolver", "slice", "private"} : Sync(o)
    \/ Environment

Spec == Init /\ [][Next]_vars

(* The queue is served, reconcilers are scheduled and the cache catches up. *)
ReconcileFairness ==
    /\ WF_vars(Dequeue)
    /\ \A p \in Reconcilers : SF_vars(ReconcileStep(p))
    /\ \A o \in {"crd"} \cup Lagging : WF_vars(Sync(o))

(* Besides, handlers are scheduled, and the informers resync every five minutes. *)
Fairness ==
    /\ ReconcileFairness
    /\ \A w \in Watchers : WF_vars(Deliver(w)) /\ WF_vars(SwitchStep(w))
    /\ WF_vars(ResolverStep)

ReconcileSpec == Spec /\ ReconcileFairness

FairSpec == Spec /\ Fairness
-----------------------------------------------------------------------------
(* Properties. *)

Locals == [mode : Modes, owner : 0..MaxBirths, ips : IPs \cup {None}, found : BOOLEAN, es : CRDs,
           tasks : SUBSET Tasks, err : BOOLEAN]

(* The type invariant: the objects of the cluster, the operator's maps and the *)
(* locals of its goroutines are of the kinds the code gives them.               *)
TypeOK ==
    /\ target \in Targets /\ resolver \in IPs
    /\ crd \in CRDs /\ slice \in IPs \cup {None} /\ private \in 0..MaxBirths
    /\ cache \in [crd : CRDs, resolver : IPs, slice : IPs \cup {None}, private : 0..MaxBirths]
    /\ once \subseteq {"target", "public"}
    /\ watching \in Watchers \cup {None} /\ publicInformer \in BOOLEAN
    /\ dir \in Modes \cup {None} /\ dirty \in BOOLEAN
    /\ rlock \in Reconcilers \cup {None} /\ slock \in Watchers \cup {None}
    /\ pc \in [Procs -> Labels]
    /\ loc \in [Procs -> Locals]
    /\ failures \in 0..MaxFailures /\ restarts \in 0..MaxRestarts

(* Once the finalizer is gone, the operator has no entry of the ElastiService in the  *)
(* directory, no informer of its target and no consumed Once of that informer,        *)
(* whatever the worker and Initialize did meanwhile (Reconcile and finalizeCRD).  It  *)
(* does not say so of the informer of the public service and its Once: a switchMode   *)
(* that still runs may start that one after finalizeCRD has stopped the others.       *)
Forgotten == crd.phase = "absent" => dir = None /\ watching = None /\ "target" \notin once

(* An ElastiService in the directory, as a Reconcile that returned no error leaves *)
(* it, has an informer of its target if no call to the API server has failed, also *)
(* after it was deleted and created again (watchScaleTargetRef, finalizeCRD).       *)
WatchedOnceReconciled == crd.phase = "live" /\ dir # None /\ failures = 0 => watching # None

(* While the public service points to the resolver there is a private service for *)
(* the resolver to send the requests to (enableProxyMode): in the first life of an *)
(* ElastiService, until it is being deleted, and until a call to the API server    *)
(* has failed.                                                                     *)
ForwardPath ==
    crd.phase = "live" /\ crd.birth = 1 /\ failures = 0 /\ slice # None => private # 0

(* finalizeCRD resets what was done for the ElastiService: when it is gone, so is *)
(* the EndpointSlice to the resolver, which no other object owns.                 *)
CleanAfterFinalize == crd.phase = "absent" => slice = None

(* What the informer of the target observes from some time on: the ElastiService *)
(* is there, is watched, and its target is in a state of the given mode.          *)
Settled(mode) == crd.phase = "live" /\ watching # None /\ ModeFor(target) = mode

(* A target that stays ready is in the end reached directly, whatever races and stale *)
(* reads there were before (switchMode, resyncs of the informers).                    *)
ReadyEventuallyServed == <>[]Settled("serve") => <>[](slice = None /\ crd.mode = "serve")

(* A target that stays at zero is in the end reached through the resolver's present *)
(* pods and only these, though no informer watches their addresses.                 *)
ZeroEventuallyProxied ==
    <>[](Settled("proxy") /\ resolver # None) /\ <>[][FALSE]_resolver
        => <>[](slice = resolver /\ crd.mode = "proxy")

(* An ElastiService that is being deleted is in the end gone (finalizeCRDIfDeleted). *)
DeletionCompletes == crd.phase = "deleting" ~> crd.phase # "deleting"
=============================================================================
