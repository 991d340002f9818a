-------------------------- MODULE ControllerProofs --------------------------
(***************************************************************************)
(* The controller's types, and what the mutex of ReconcileLocks is worth:  *)
(* with it, a finalized ElastiService leaves nothing behind.  Then what    *)
(* the order of enableProxyMode is worth: the private service is there     *)
(* before anything says that the resolver is used.                         *)
(***************************************************************************)
EXTENDS Controller, TLAPS

-----------------------------------------------------------------------------
(* Types. *)

(* The records of fresh locals and of an ElastiService that is not there. *)
LEMMA NoLocalsType == NoLocals \in Locals /\ \A b \in 0..MaxBirths : NoCRD(b) \in CRDs
  BY ControllerAssumption DEF NoLocals, Locals, NoCRD, CRDs, Modes, Tasks

(* The initial state is of the right types. *)
LEMMA InitType == Init => TypeOK
<1>. SUFFICES ASSUME Init PROVE TypeOK
  OBVIOUS
<1>1. NoCRD(0) \in CRDs
  BY NoLocalsType, ControllerAssumption
<1>2. crd \in CRDs /\ pc \in [Procs -> Labels] /\ loc \in [Procs -> Locals]
  BY <1>1, NoLocalsType DEF Init, BootPc, Labels
<1>3. cache \in [crd : CRDs, resolver : IPs, slice : IPs \cup {None}, private : 0..MaxBirths]
  BY <1>2, ControllerAssumption DEF Init, Cached
<1>4. /\ slice \in IPs \cup {None} /\ private \in 0..MaxBirths
      /\ failures \in 0..MaxFailures /\ restarts \in 0..MaxRestarts
  <2>1. slice = None /\ private = 0 /\ failures = 0 /\ restarts = 0
    BY DEF Init
  <2>. QED
    BY <2>1, ControllerAssumption
<1>5. publicInformer \in BOOLEAN /\ dirty \in BOOLEAN
  BY DEF Init
<1>6. /\ target \in Targets /\ resolver \in IPs /\ once = {} /\ watching = None /\ dir = None
      /\ rlock = None /\ slock = None
  BY DEF Init
<1>. QED
  BY <1>2, <1>3, <1>4, <1>5, <1>6 DEF TypeOK

(* A Get or List of the cache returns an object of its type. *)
LEMMA ReadType ==
    ASSUME TypeOK
    PROVE  /\ Read("slice") \in IPs \cup {None} /\ Read("private") \in 0..MaxBirths
           /\ Read("resolver") \in IPs
  BY DEF TypeOK, Read, Cached

(* Every step of a watcher keeps the types. *)
LEMMA WatcherType ==
    ASSUME TypeOK, NEW w \in Watchers, Deliver(w) \/ SwitchStep(w) \/ FailSwitch(w)
    PROVE  TypeOK'
<1>. w \in Procs /\ loc[w] \in Locals
  BY DEF TypeOK, Procs
<1>. USE ControllerAssumption DEF Goto, Set, Done, Labels, api, mem, locks, budget
<1>1. CASE Deliver(w)
  <2>1. ModeFor(target) \in Modes \cup {"none"}
    BY DEF ModeFor, RolloutMode, DeploymentMode, Modes
  <2>2. [NoLocals EXCEPT !.mode = ModeFor(target)] \in Locals
    BY <1>1, <2>1, NoLocalsType DEF Deliver, Locals
  <2>. QED
    BY <1>1, <2>2 DEF Deliver, TypeOK
<1>2. CASE Switch(w)
  <2>1. [loc[w] EXCEPT !.owner = cache.crd.birth] \in Locals
    BY DEF TypeOK, Locals, CRDs
  <2>. QED
    BY <1>2, <2>1, NoLocalsType DEF Switch, TypeOK
<1>3. CASE CreatePrivate(w)
  <2>1. loc[w].owner \in 0..MaxBirths
    BY DEF Locals
  <2>. QED
    BY <1>3, <2>1 DEF CreatePrivate, TypeOK
<1>4. CASE WatchPublic(w)
  BY <1>4 DEF WatchPublic, TypeOK
<1>5. CASE ReadSlice(w)
  <2>1. [loc[w] EXCEPT !.ips = None, !.found = FALSE] \in Locals
    BY DEF Locals
  <2>2. [loc[w] EXCEPT !.ips = Read("resolver"), !.found = (Read("slice") # None)] \in Locals
    BY ReadType DEF Locals
  <2>. QED
    BY <1>5, <2>1, <2>2, NoLocalsType DEF ReadSlice, AfterSlice, TypeOK
<1>6. CASE WriteSlice(w)
  <2>1. [loc[w] EXCEPT !.ips = None, !.found = FALSE] \in Locals /\ loc[w].ips \in IPs \cup {None}
    BY DEF Locals
  <2>. QED
    BY <1>6, <2>1, NoLocalsType DEF WriteSlice, AfterSlice, TypeOK
<1>7. CASE DeleteSlice(w)
  BY <1>7 DEF DeleteSlice, TypeOK
<1>8. CASE ReadStatus(w)
  <2>1. [loc[w] EXCEPT !.found = (cache.crd.mode # loc[w].mode)] \in Locals
    BY DEF Locals
  <2>. QED
    BY <1>8, <2>1, NoLocalsType DEF ReadStatus, TypeOK
<1>9. CASE PatchStatus(w)
  <2>1. [crd EXCEPT !.mode = loc[w].mode] \in CRDs
    BY DEF Locals, CRDs, TypeOK
  <2>. QED
    BY <1>9, <2>1, NoLocalsType DEF PatchStatus, TypeOK
<1>10. CASE FailSwitch(w)
  <2>1. pc' \in [Procs -> Labels] /\ loc' \in [Procs -> Locals] /\ slock' \in Watchers \cup {None}
    BY <1>10, NoLocalsType DEF FailSwitch, TypeOK
  <2>2. once' \subseteq {"target", "public"}
    <3>1. once \subseteq {"target", "public"} /\ (once' = once \cup {"public"} \/ once' = once)
      BY <1>10 DEF FailSwitch, TypeOK
    <3>. QED
      BY <3>1
  <2>3. failures' \in 0..MaxFailures
    <3>1. failures \in 0..MaxFailures /\ failures < MaxFailures /\ failures' = failures + 1
      BY <1>10 DEF FailSwitch, TypeOK
    <3>. QED
      BY <3>1
  <2>. QED
    BY <1>10, <2>1, <2>2, <2>3 DEF FailSwitch, TypeOK
<1>. QED
  BY <1>1, <1>2, <1>3, <1>4, <1>5, <1>6, <1>7, <1>8, <1>9, <1>10 DEF SwitchStep

(* Every step of the resolver's handler keeps the types. *)
LEMMA ResolverType ==
    ASSUME TypeOK, ResolverStep \/ FailResolver
    PROVE  TypeOK'
<1>. Resolver \in Procs /\ loc[Resolver] \in Locals
  BY DEF TypeOK, Procs
<1>. USE ControllerAssumption DEF Goto, Set, Done, Labels, api, mem, locks, budget
<1>1. CASE ResolverChanges
  BY <1>1 DEF ResolverChanges, TypeOK
<1>2. CASE ReadSlice(Resolver)
  <2>1. [loc[Resolver] EXCEPT !.ips = Read("resolver"), !.found = (Read("slice") # None)] \in Locals
    BY ReadType DEF Locals
  <2>. QED
    BY <1>2, <2>1, NoLocalsType DEF ReadSlice, AfterSlice, TypeOK
<1>3. CASE WriteSlice(Resolver)
  <2>1. loc[Resolver].ips \in IPs \cup {None}
    BY DEF Locals
  <2>. QED
    BY <1>3, <2>1, NoLocalsType DEF WriteSlice, AfterSlice, TypeOK
<1>4. CASE FailResolver
  BY <1>4, NoLocalsType DEF FailResolver, TypeOK
<1>. QED
  BY <1>1, <1>2, <1>3, <1>4 DEF ResolverStep

(* A return of Reconcile keeps the types of what it sets. *)
LEMMA ReturnType ==
    ASSUME TypeOK, NEW p \in Reconcilers, NEW err \in BOOLEAN, Return(p, err)
    PROVE  /\ pc' \in [Procs -> Labels] /\ loc' \in [Procs -> Locals]
           /\ rlock' \in Reconcilers \cup {None} /\ dirty' \in BOOLEAN
<1>1. pc' \in [Procs -> Labels] /\ loc' \in [Procs -> Locals]
  BY NoLocalsType DEF Return, Done, Goto, Set, Labels, TypeOK
<1>2. dirty' = (dirty \/ (err /\ p = Worker)) /\ rlock' = None
  BY DEF Return
<1>. QED
  BY <1>1, <1>2

(* Every step of Reconcile and of finalizeCRD keeps the types. *)
LEMMA ReconcileType ==
    ASSUME TypeOK, NEW p \in Reconcilers, ReconcileStep(p) \/ FailReconcile(p)
    PROVE  TypeOK'
<1>. p \in Procs /\ loc[p] \in Locals /\ loc[p].tasks \in SUBSET Tasks
  BY DEF TypeOK, Procs, Locals
<1>. USE ControllerAssumption DEF Goto, Set, Labels, api, mem, locks, budget
<1>a. ASSUME NEW old, NEW new \in SUBSET Tasks
      PROVE  /\ [loc[p] EXCEPT !.tasks = (@ \ {old}) \cup new] \in Locals
             /\ [loc[p] EXCEPT !.tasks = @ \ {old}, !.err = TRUE] \in Locals
  BY DEF Locals
<1>b. ASSUME NEW old, NEW new \in SUBSET Tasks, NextTask(p, old, new) \/ FailTask(p, old)
      PROVE  loc' \in [Procs -> Locals]
  <2>1. CASE NextTask(p, old, new)
    BY <1>a, <2>1 DEF NextTask, TypeOK
  <2>2. CASE FailTask(p, old)
    BY <1>a, <2>2 DEF FailTask, TypeOK
  <2>. QED
    BY <1>b, <2>1, <2>2
<1>1. CASE Reconcile(p)
  <2>1. [NoLocals EXCEPT !.es = cache.crd,
            !.tasks = IF cache.crd.phase = "deleting" THEN FirstTasks ELSE {}] \in Locals
    BY NoLocalsType DEF TypeOK, Locals, FirstTasks, Tasks
  <2>. QED
    BY <1>1, <2>1, NoLocalsType DEF Reconcile, Done, TypeOK
<1>2. CASE AddFinalizer(p)
  <2>1. [crd EXCEPT !.fin = TRUE] \in CRDs
    BY DEF TypeOK, CRDs
  <2>. QED
    <3>1. CASE crd = loc[p].es
      BY <1>2, <2>1, <3>1 DEF AddFinalizer, TypeOK
    <3>2. CASE crd # loc[p].es
      BY <1>2, <3>2, ReturnType DEF AddFinalizer, TypeOK
    <3>. QED
      BY <3>1, <3>2
<1>3. CASE WatchTarget(p)
  <2>1. once' \subseteq {"target", "public"}
    BY <1>3 DEF WatchTarget, TypeOK
  <2>2. CASE "target" \in once \/ watching # None
    BY <1>3, <2>1, <2>2 DEF WatchTarget, TypeOK
  <2>3. CASE "target" \notin once /\ watching = None /\ target = "missing"
    BY <1>3, <2>1, <2>3, ReturnType DEF WatchTarget, TypeOK
  <2>4. CASE "target" \notin once /\ watching = None /\ target # "missing"
    BY <1>3, <2>1, <2>4 DEF WatchTarget, TypeOK
  <2>. QED
    BY <2>2, <2>3, <2>4
<1>4. CASE AddDirectory(p)
  <2>1. loc[p].es.mode \in Modes
    BY DEF Locals, CRDs
  <2>. QED
    BY <1>4, <2>1, ReturnType DEF AddDirectory, TypeOK
<1>5. CASE StopForCRD(p)
  <2>1. loc' \in [Procs -> Locals]
    BY <1>5, <1>b DEF StopForCRD, Tasks
  <2>. QED
    BY <1>5, <2>1 DEF StopForCRD, TypeOK
<1>6. CASE ResetOnces(p)
  <2>1. loc' \in [Procs -> Locals]
    BY <1>6, <1>b DEF ResetOnces, Tasks
  <2>. QED
    BY <1>6, <2>1 DEF ResetOnces, TypeOK
<1>7. CASE FinalizeGet(p)
  <2>1. loc' \in [Procs -> Locals]
    <3>1. {} \in SUBSET Tasks /\ {"sliceDelete"} \in SUBSET Tasks /\ {"privateDelete"} \in SUBSET Tasks
      BY DEF Tasks
    <3>. QED
      BY <1>7, <3>1, <1>b DEF FinalizeGet
  <2>. QED
    BY <1>7, <2>1 DEF FinalizeGet, TypeOK
<1>8. CASE FinalizeDelete(p)
  <2>1. loc' \in [Procs -> Locals]
    <3>1. {} \in SUBSET Tasks
      OBVIOUS
    <3>. QED
      BY <1>8, <3>1, <1>b DEF FinalizeDelete
  <2>. QED
    BY <1>8, <2>1 DEF FinalizeDelete, TypeOK
<1>9. CASE FinalizeJoin(p)
  <2>1. CASE loc[p].err
    BY <1>9, <2>1, ReturnType DEF FinalizeJoin, TypeOK
  <2>2. CASE ~loc[p].err
    BY <1>9, <2>2 DEF FinalizeJoin, TypeOK
  <2>. QED
    BY <2>1, <2>2
<1>10. CASE RemoveFinalizer(p)
  <2>1. NoCRD(crd.birth) \in CRDs
    BY NoLocalsType DEF TypeOK, CRDs
  <2>. QED
    BY <1>10, <2>1, ReturnType DEF RemoveFinalizer, TypeOK
<1>11. CASE FailReconcile(p)
  <2>1. /\ pc' \in [Procs -> Labels] /\ loc' \in [Procs -> Locals]
        /\ rlock' \in Reconcilers \cup {None} /\ dirty' \in BOOLEAN
    <3>1. CASE Return(p, TRUE)
      BY <3>1, ReturnType
    <3>2. CASE UNCHANGED <<pc, rlock, dirty>> /\ \E t \in Tasks : FailTask(p, t)
      BY <3>2, <1>b DEF TypeOK
    <3>. QED
      BY <1>11, <3>1, <3>2 DEF FailReconcile
  <2>2. once' \subseteq {"target", "public"}
    BY <1>11 DEF FailReconcile, TypeOK
  <2>3. failures' \in 0..MaxFailures
    BY <1>11 DEF FailReconcile, TypeOK
  <2>. QED
    BY <1>11, <2>1, <2>2, <2>3 DEF FailReconcile, TypeOK
<1>. QED
  BY <1>1, <1>2, <1>3, <1>4, <1>5, <1>6, <1>7, <1>8, <1>9, <1>10, <1>11 DEF ReconcileStep

(* The steps of the cluster and of the queue keep the types. *)
LEMMA ClusterType ==
    ASSUME TypeOK, Dequeue \/ Environment \/ \E o \in {"crd", "resolver", "slice", "private"} : Sync(o)
    PROVE  TypeOK'
<1>. USE ControllerAssumption DEF Goto, Labels, api, mem, locks, budget
<1>1. CASE Dequeue
  BY <1>1 DEF Dequeue, TypeOK, Procs, Reconcilers
<1>2. CASE \E o \in {"crd", "resolver", "slice", "private"} : Sync(o)
  <2>1. PICK o \in {"crd", "resolver", "slice", "private"} : Sync(o)
    BY <1>2
  <2>2. cache' \in [crd : CRDs, resolver : IPs, slice : IPs \cup {None}, private : 0..MaxBirths]
    BY <2>1 DEF Sync, Cached, TypeOK
  <2>. QED
    BY <2>1, <2>2 DEF Sync, TypeOK
<1>3. CASE CreateCRD
  <2>1. crd.birth \in 0..MaxBirths /\ crd.birth < MaxBirths
    BY <1>3 DEF CreateCRD, TypeOK, CRDs
  <2>2. crd.birth + 1 \in 0..MaxBirths
    BY <2>1
  <2>3. crd' \in CRDs
    BY <1>3, <2>2 DEF CreateCRD, CRDs, Modes
  <2>. QED
    BY <1>3, <2>3 DEF CreateCRD, TypeOK
<1>4. CASE DeleteCRD
  <2>1. [crd EXCEPT !.phase = "deleting"] \in CRDs /\ NoCRD(crd.birth) \in CRDs
    BY NoLocalsType DEF TypeOK, CRDs
  <2>. QED
    BY <1>4, <2>1 DEF DeleteCRD, TypeOK
<1>5. CASE TargetChange \/ ResolverChange \/ CollectPrivate
  <2>1. 0 \in 0..MaxBirths
    OBVIOUS
  <2>. QED
    BY <1>5, <2>1 DEF TargetChange, ResolverChange, CollectPrivate, TypeOK
<1>6. CASE Restart
  <2>1. cache' \in [crd : CRDs, resolver : IPs, slice : IPs \cup {None}, private : 0..MaxBirths]
    BY <1>6 DEF Restart, Cached, TypeOK
  <2>2. pc' \in [Procs -> Labels] /\ loc' \in [Procs -> Locals]
    BY <1>6, NoLocalsType DEF Restart, BootPc
  <2>3. restarts' \in 0..MaxRestarts
    BY <1>6 DEF Restart, TypeOK
  <2>. QED
    BY <1>6, <2>1, <2>2, <2>3 DEF Restart, TypeOK
<1>. QED
  BY <1>1, <1>2, <1>3, <1>4, <1>5, <1>6 DEF Environment

(* Every step keeps the types. *)
LEMMA NextType == TypeOK /\ [Next]_vars => TypeOK'
<1>. SUFFICES ASSUME TypeOK, [Next]_vars PROVE TypeOK'
  OBVIOUS
<1>1. CASE UNCHANGED vars
  BY <1>1 DEF vars, api, mem, locks, budget, TypeOK
<1>. QED
  BY <1>1, WatcherType, ResolverType, ReconcileType, ClusterType DEF Next

(* The objects of the cluster, the operator's maps and the locals of every        *)
(* goroutine of the controller keep their types (Reconcile, switchMode,            *)
(* handleResolverChanges, finalizeCRD).                                            *)
THEOREM ControllerTypeOK == Spec => []TypeOK
  BY InitType, NextType, PTL DEF Spec

-----------------------------------------------------------------------------
(* The inductive invariant. *)

(* The labels of Reconcile past the mutex, and those of finalizeCRD. *)
Finalizing == {"finalize", "removeFinalizer"}
Watching == {"watchTarget", "addDirectory"}
Critical == Finalizing \cup Watching \cup {"addFinalizer"}

(* The mutex of ReconcileLocks is held throughout. *)
MutexHeld == \A p \in Reconcilers : pc[p] \in Critical => rlock = p

(* The life of an ElastiService goes one way. *)
Stage(c) ==
    CASE c.phase = "live" /\ ~c.fin -> 0
      [] c.phase = "live" /\ c.fin -> 1
      [] c.phase = "deleting" -> 2
      [] OTHER -> 3

Older(c, d) == c.birth < d.birth \/ (c.birth = d.birth /\ Stage(c) <= Stage(d))

(* The cache is behind the API server, and what Reconcile read behind the cache. *)
CopiesOlder ==
    /\ Older(cache.crd, crd)
    /\ \A p \in Reconcilers : pc[p] \in Critical => Older(loc[p].es, cache.crd)

(* Reconcile is where its copy has sent it. *)
CopyFits ==
    \A p \in Reconcilers :
        /\ pc[p] = "addFinalizer" => Stage(loc[p].es) = 0
        /\ pc[p] \in Finalizing => Stage(loc[p].es) = 2

(* The operator's finalizer is not on the object: nothing was done for it yet, *)
(* or all is undone, and no copy says otherwise.                               *)
Unclaimed(c) == Stage(c) \in {0, 3}

CleanUnlessClaimed ==
    Unclaimed(crd) =>
        /\ dir = None /\ watching = None /\ "target" \notin once
        /\ Stage(cache.crd) # 1
        /\ \A p \in Reconcilers : pc[p] \notin Watching

(* What finalizeCRD has done so far is not undone, and what it works on is not *)
(* the next ElastiService.                                                     *)
Undoing ==
    \A p \in Reconcilers : pc[p] \in Finalizing =>
        /\ Stage(crd) # 1
        /\ "stop" \notin loc[p].tasks => watching = None
        /\ loc[p].tasks \cap {"stop", "reset"} = {} => "target" \notin once
        /\ pc[p] = "removeFinalizer" => dir = None /\ loc[p].tasks = {}

(* The copy that the finalizer was added to is the cached one or an earlier one. *)
ClaimedIsCached == Stage(crd) \in {1, 2} => cache.crd.birth = crd.birth

CtrlInd == /\ TypeOK /\ MutexHeld /\ CopiesOlder /\ CopyFits
           /\ CleanUnlessClaimed /\ Undoing /\ ClaimedIsCached

(* Without failures, and with a target that exists, a consumed Once has an *)
(* informer to show for it unless finalizeCRD is about to reset it.        *)
OnceHasInformer ==
    failures = 0 =>
        /\ "target" \in once =>
              watching # None \/ \E p \in Reconcilers : pc[p] = "finalize" /\ "reset" \in loc[p].tasks
        /\ \A p \in Reconcilers : pc[p] = "addDirectory" => watching # None
        /\ dir # None /\ crd.phase = "live" => watching # None

(* What the steps outside Reconcile do to what the invariant speaks of: the mode *)
(* of the ElastiService may change, the Once of the public service may be        *)
(* consumed, and the worker may begin.                                           *)
Quiet ==
    /\ UNCHANGED <<dir, watching, rlock>>
    /\ cache'.crd = cache.crd
    /\ crd'.birth = crd.birth /\ crd'.phase = crd.phase /\ crd'.fin = crd.fin
    /\ "target" \in once' <=> "target" \in once
    /\ \A p \in Reconcilers :
          /\ pc'[p] = pc[p] \/ (pc[p] = "idle" /\ pc'[p] = "reconcile")
          /\ loc'[p] = loc[p]
    /\ failures' = 0 => failures = 0

(* The steps of the informers' handlers are quiet. *)
LEMMA HandlersQuiet ==
    ASSUME TypeOK, NEW w \in Watchers \cup {Resolver},
           (w \in Watchers /\ (Deliver(w) \/ SwitchStep(w) \/ FailSwitch(w)))
             \/ (w = Resolver /\ (ResolverStep \/ FailResolver))
    PROVE  Quiet
<1>1. w \in Procs /\ w \notin Reconcilers /\ Reconcilers \subseteq Procs
  BY ControllerAssumption DEF Procs
<1>2. \A p \in Reconcilers : pc'[p] = pc[p] /\ loc'[p] = loc[p]
  <2>. USE <1>1 DEF Done, Goto, Set, TypeOK
  <2>1. CASE Deliver(w) \/ Switch(w) \/ CreatePrivate(w) \/ WatchPublic(w)
    BY <2>1 DEF Deliver, Switch, CreatePrivate, WatchPublic
  <2>2. CASE ReadSlice(w) \/ WriteSlice(w) \/ DeleteSlice(w)
    BY <2>2 DEF ReadSlice, WriteSlice, AfterSlice, DeleteSlice
  <2>3. CASE ReadStatus(w) \/ PatchStatus(w)
    BY <2>3 DEF ReadStatus, PatchStatus
  <2>4. CASE FailSwitch(w)
    BY <2>4 DEF FailSwitch
  <2>5. CASE w = Resolver /\ (ResolverChanges \/ FailResolver)
    BY <2>5 DEF ResolverChanges, FailResolver
  <2>. QED
    BY <2>1, <2>2, <2>3, <2>4, <2>5 DEF SwitchStep, ResolverStep
<1>3. UNCHANGED <<dir, watching, rlock, cache>>
  BY DEF Deliver, SwitchStep, FailSwitch, ResolverStep, FailResolver, ResolverChanges, Switch,
     CreatePrivate, WatchPublic, ReadSlice, WriteSlice, DeleteSlice, ReadStatus,
     PatchStatus, api, mem, locks, budget
<1>4. crd'.birth = crd.birth /\ crd'.phase = crd.phase /\ crd'.fin = crd.fin
  <2>1. CASE PatchStatus(w)
    BY <2>1 DEF PatchStatus, TypeOK, CRDs
  <2>2. CASE UNCHANGED crd
    BY <2>2
  <2>. QED
    BY <2>1, <2>2 DEF Deliver, SwitchStep, FailSwitch, ResolverStep, FailResolver, ResolverChanges,
       Switch, CreatePrivate, WatchPublic, ReadSlice, WriteSlice, DeleteSlice, ReadStatus, api
<1>5. once' = once \/ once' = once \cup {"public"}
  BY DEF Deliver, SwitchStep, FailSwitch, ResolverStep, FailResolver, ResolverChanges, Switch,
     CreatePrivate, WatchPublic, ReadSlice, WriteSlice, DeleteSlice, ReadStatus,
     PatchStatus, mem
<1>6. failures' = failures \/ failures' = failures + 1
  BY DEF Deliver, SwitchStep, FailSwitch, ResolverStep, FailResolver, ResolverChanges, Switch,
     CreatePrivate, WatchPublic, ReadSlice, WriteSlice, DeleteSlice, ReadStatus,
     PatchStatus, budget
<1>7. failures' = 0 => failures = 0
  BY <1>6, ControllerAssumption DEF TypeOK
<1>. QED
  BY <1>2, <1>3, <1>4, <1>5, <1>7 DEF Quiet

(* So are those of the cluster that leave the ElastiService and its cached copy alone. *)
LEMMA ClusterQuiet ==
    ASSUME TypeOK,
           \/ Dequeue \/ TargetChange \/ ResolverChange \/ CollectPrivate \/ UNCHANGED vars
           \/ \E o \in {"resolver", "slice", "private"} : Sync(o)
    PROVE  Quiet
<1>1. CASE Dequeue
  BY <1>1 DEF Dequeue, Goto, TypeOK, Procs, Quiet, api, locks, budget
<1>2. CASE TargetChange \/ ResolverChange \/ CollectPrivate \/ UNCHANGED vars
  BY <1>2 DEF TargetChange, ResolverChange, CollectPrivate, vars, Quiet, api, mem, locks, budget
<1>3. ASSUME NEW o \in {"resolver", "slice", "private"}, Sync(o) PROVE Quiet
  <2>1. cache'.crd = cache.crd
    BY <1>3 DEF Sync, TypeOK
  <2>. QED
    BY <1>3, <2>1 DEF Sync, Quiet, api, locks, budget
<1>. QED
  BY <1>1, <1>2, <1>3

(* A quiet step keeps the invariant. *)
LEMMA QuietKeeps ==
    ASSUME CtrlInd, TypeOK', Quiet
    PROVE  CtrlInd' /\ (OnceHasInformer => OnceHasInformer')
<1>. USE DEF Quiet
<1>1. Stage(crd') = Stage(crd) /\ Stage(cache'.crd) = Stage(cache.crd)
  BY DEF Stage
<1>2. \A p \in Reconcilers : /\ pc'[p] \in Critical => pc'[p] = pc[p]
                             /\ Stage(loc'[p].es) = Stage(loc[p].es)
  BY DEF Critical, Finalizing, Watching
<1>3. MutexHeld'
  BY <1>2 DEF CtrlInd, MutexHeld
<1>4. CopiesOlder'
  BY <1>1, <1>2 DEF CtrlInd, CopiesOlder, Older
<1>5. CopyFits'
  BY <1>2 DEF CtrlInd, CopyFits, Critical
<1>6. CleanUnlessClaimed'
  BY <1>1, <1>2 DEF CtrlInd, CleanUnlessClaimed, Unclaimed, Critical
<1>7. Undoing'
  BY <1>1, <1>2 DEF CtrlInd, Undoing, Critical
<1>8. ClaimedIsCached'
  BY <1>1 DEF CtrlInd, ClaimedIsCached
<1>9. OnceHasInformer => OnceHasInformer'
  BY <1>2 DEF OnceHasInformer, Critical, Watching, Finalizing
<1>. QED
  BY <1>3, <1>4, <1>5, <1>6, <1>7, <1>8, <1>9 DEF CtrlInd

(* The stages of an ElastiService, and what they mean. *)
LEMMA StageFacts ==
    ASSUME NEW c \in CRDs
    PROVE  /\ Stage(c) \in 0..3 /\ c.birth \in Int
           /\ Stage(c) = 0 <=> (c.phase = "live" /\ ~c.fin)
           /\ Stage(c) = 1 <=> (c.phase = "live" /\ c.fin)
           /\ Stage(c) = 2 <=> c.phase = "deleting"
           /\ Stage(c) = 3 <=> c.phase = "absent"
           /\ Stage([c EXCEPT !.fin = TRUE]) = (IF Stage(c) = 0 THEN 1 ELSE Stage(c))
           /\ [c EXCEPT !.fin = TRUE].birth = c.birth
  BY ControllerAssumption DEF Stage, CRDs

(* Past the mutex Reconcile is alone. *)
LEMMA Alone ==
    ASSUME CtrlInd, NEW p \in Reconcilers, pc[p] \in Critical
    PROVE  rlock = p /\ \A q \in Reconcilers : q # p => pc[q] \notin Critical
  BY DEF CtrlInd, MutexHeld

(* A return of Reconcile leaves nobody past the mutex. *)
LEMMA ReturnFrees ==
    ASSUME CtrlInd, NEW p \in Reconcilers, pc[p] \in Critical, NEW err, Return(p, err)
    PROVE  \A q \in Reconcilers : pc'[q] \notin Critical
<1>1. pc' = [pc EXCEPT ![p] = "idle"]
  BY DEF Return, Done, Goto
<1>. QED
  BY <1>1, Alone DEF CtrlInd, TypeOK, Procs, Critical, Finalizing, Watching

(* If nobody is past the mutex, these parts of the invariant remain to be shown. *)
LEMMA AllOut ==
    ASSUME \A q \in Reconcilers : pc[q] \notin Critical, TypeOK,
           Older(cache.crd, crd), ClaimedIsCached,
           Unclaimed(crd) => dir = None /\ watching = None /\ "target" \notin once /\ Stage(cache.crd) # 1
    PROVE  CtrlInd
  BY DEF CtrlInd, MutexHeld, CopiesOlder, CopyFits, CleanUnlessClaimed, Undoing, Critical, Finalizing, Watching

(* Reconcile reads its copy and goes where it says. *)
LEMMA ReconcileKeeps ==
    ASSUME CtrlInd, TypeOK', NEW p \in Reconcilers, Reconcile(p)
    PROVE  CtrlInd' /\ (OnceHasInformer => OnceHasInformer')
<1>. USE DEF CtrlInd
<1>1. UNCHANGED <<crd, cache, once, watching, dir, failures>>
  BY DEF Reconcile, api, mem, budget
<1>2. \A q \in Reconcilers : q # p => /\ pc[q] \notin Critical
                                      /\ pc'[q] = pc[q] /\ loc'[q] = loc[q]
  <2>1. rlock = None
    BY DEF Reconcile
  <2>2. \A q \in Reconcilers : q # None
    BY ControllerAssumption DEF Procs
  <2>3. \A q \in Reconcilers : pc[q] \notin Critical
    BY <2>1, <2>2 DEF MutexHeld
  <2>. QED
    BY <2>3 DEF Reconcile, Done, Goto, Set, TypeOK, Procs
<1>3. CASE cache.crd.phase = "absent"
  <2>1. pc'[p] = "idle"
    BY <1>3 DEF Reconcile, Done, Goto, TypeOK, Procs
  <2>2. \A q \in Reconcilers : pc'[q] \notin Critical
    BY <1>2, <2>1 DEF Critical, Finalizing, Watching
  <2>3. CtrlInd'
    BY <1>1, <2>2, AllOut DEF CopiesOlder, Older, Stage, CleanUnlessClaimed, Unclaimed, ClaimedIsCached,
       MutexHeld, CopyFits, Undoing, Critical, Finalizing, Watching
  <2>4. OnceHasInformer => OnceHasInformer'
    BY <1>1, <1>2, <2>2, <1>3 DEF OnceHasInformer, Reconcile, Critical, Finalizing, Watching
  <2>. QED
    BY <2>3, <2>4
<1>4. CASE cache.crd.phase # "absent"
  <2>. DEFINE tasks == IF cache.crd.phase = "deleting" THEN FirstTasks ELSE {}
  <2>1. rlock' = p
    BY <1>4 DEF Reconcile
  <2>2. loc'[p].es = cache.crd /\ loc'[p].tasks = tasks
    <3>1. loc'[p] = [NoLocals EXCEPT !.es = cache.crd, !.tasks = tasks]
      BY <1>4 DEF Reconcile, Set, TypeOK, Procs
    <3>. HIDE DEF tasks
    <3>. QED
      BY <3>1 DEF NoLocals
  <2>3. pc'[p] = IF cache.crd.phase = "deleting" THEN "finalize"
                 ELSE IF cache.crd.fin THEN "watchTarget" ELSE "addFinalizer"
    BY <1>4 DEF Reconcile, Goto, TypeOK, Procs
  <2>4. cache.crd \in CRDs /\ crd \in CRDs
    BY DEF TypeOK
  <2>5. MutexHeld'
    BY <1>2, <2>1 DEF MutexHeld
  <2>6. CopiesOlder'
    <3>1. Older(cache.crd, cache.crd)
      <4>1. Stage(cache.crd) \in 0..3
        BY <2>4, StageFacts
      <4>. QED
        BY <4>1 DEF Older
    <3>2. Older(cache.crd, crd)
      BY DEF CopiesOlder
    <3>. QED
      BY <1>1, <1>2, <2>2, <3>1, <3>2 DEF CopiesOlder
  <2>7. CopyFits'
    <3>1. ASSUME NEW q \in Reconcilers
          PROVE /\ pc'[q] = "addFinalizer" => Stage(loc'[q].es) = 0
                /\ pc'[q] \in Finalizing => Stage(loc'[q].es) = 2
      <4>1. CASE q = p
        BY <1>4, <4>1, <2>2, <2>3, <2>4, StageFacts DEF Finalizing, CRDs
      <4>2. CASE q # p
        BY <4>2, <1>2 DEF Critical
      <4>. QED
        BY <4>1, <4>2
    <3>. QED
      BY <3>1 DEF CopyFits
  <2>8. CleanUnlessClaimed'
    BY <1>1, <1>2, <1>4, <2>3, <2>4, StageFacts DEF CleanUnlessClaimed, Unclaimed, Critical, Watching, CRDs
  <2>9. Undoing'
    <3>1. cache.crd.phase = "deleting" => Stage(crd) # 1
      <4>1. cache.crd.phase = "deleting" => Stage(cache.crd) = 2
        BY <2>4, StageFacts
      <4>2. cache.crd.birth \in Int /\ crd.birth \in Int
        BY <2>4, StageFacts
      <4>. QED
        BY <4>1, <4>2 DEF CopiesOlder, Older, ClaimedIsCached
    <3>2. cache.crd.phase = "deleting" => "stop" \in loc'[p].tasks /\ pc'[p] = "finalize"
      BY <2>2, <2>3 DEF FirstTasks
    <3>3. cache.crd.phase # "deleting" => pc'[p] \notin Finalizing
      BY <2>3 DEF Finalizing
    <3>4. Stage(crd)' = Stage(crd)
      BY <1>1
    <3>. QED
      BY <1>2, <3>1, <3>2, <3>3, <3>4 DEF Undoing, Critical
  <2>10. ClaimedIsCached'
    BY <1>1 DEF ClaimedIsCached
  <2>11. OnceHasInformer => OnceHasInformer'
    BY <1>1, <1>2, <2>3, <1>4 DEF OnceHasInformer, Critical, Finalizing, Watching, Reconcile
  <2>. QED
    BY <2>5, <2>6, <2>7, <2>8, <2>9, <2>10, <2>11
<1>. QED
  BY <1>3, <1>4

(* The finalizer is added to the very object that was read. *)
LEMMA AddFinalizerKeeps ==
    ASSUME CtrlInd, TypeOK', NEW p \in Reconcilers, AddFinalizer(p)
    PROVE  CtrlInd' /\ (OnceHasInformer => OnceHasInformer')
<1>. USE DEF CtrlInd
<1>1. UNCHANGED <<cache, once, watching, dir, failures>> /\ pc[p] = "addFinalizer" /\ pc[p] \in Critical
  BY DEF AddFinalizer, budget, Critical
<1>2. rlock = p /\ \A q \in Reconcilers : q # p => pc[q] \notin Critical
  BY <1>1, Alone
<1>3. crd \in CRDs /\ cache.crd \in CRDs /\ loc[p].es \in CRDs
  BY DEF TypeOK, Locals, Procs
<1>4. CASE crd = loc[p].es
  <2>1. crd' = [crd EXCEPT !.fin = TRUE] /\ loc' = loc /\ rlock' = rlock /\ pc' = [pc EXCEPT ![p] = "watchTarget"]
    BY <1>4 DEF AddFinalizer, Goto
  <2>2. Stage(crd) = 0 /\ Stage(crd') = 1 /\ crd'.birth = crd.birth
    BY <1>1, <1>3, <1>4, <2>1, StageFacts DEF CopyFits
  <2>3. Stage(cache.crd) = 0 /\ cache.crd.birth = crd.birth
    <3>1. /\ Stage(cache.crd) \in 0..3
          /\ cache.crd.birth \in Int /\ crd.birth \in Int
      BY <1>3, StageFacts
    <3>2. Older(crd, cache.crd) /\ Older(cache.crd, crd)
      BY <1>1, <1>4 DEF CopiesOlder
    <3>. QED
      BY <2>2, <3>1, <3>2 DEF Older
  <2>4. pc'[p] = "watchTarget" /\ \A q \in Reconcilers : q # p => pc'[q] \notin Critical
    BY <1>2, <2>1 DEF TypeOK, Procs
  <2>5. CopiesOlder'
    BY <1>1, <1>2, <2>1, <2>2, <2>3, <2>4 DEF CopiesOlder, Older
  <2>6. MutexHeld' /\ CopyFits' /\ CleanUnlessClaimed' /\ Undoing' /\ ClaimedIsCached'
    BY <1>1, <1>2, <2>1, <2>2, <2>3, <2>4
       DEF MutexHeld, CopyFits, CleanUnlessClaimed, Unclaimed, Undoing, ClaimedIsCached, Critical, Finalizing
  <2>7. OnceHasInformer => OnceHasInformer'
    <3>1. dir = None /\ "target" \notin once
      BY <2>2 DEF CleanUnlessClaimed, Unclaimed
    <3>. QED
      BY <1>1, <2>4, <3>1 DEF OnceHasInformer, Critical, Watching
  <2>. QED
    BY <2>5, <2>6, <2>7
<1>5. CASE crd # loc[p].es
  <2>1. Return(p, TRUE) /\ UNCHANGED crd
    BY <1>5 DEF AddFinalizer
  <2>2. \A q \in Reconcilers : pc'[q] \notin Critical
    BY <1>1, <2>1, ReturnFrees
  <2>3. CtrlInd'
    BY <1>1, <2>1, <2>2 DEF MutexHeld, CopiesOlder, CopyFits, CleanUnlessClaimed, Unclaimed, Undoing, ClaimedIsCached,
       Critical, Finalizing, Watching
  <2>4. OnceHasInformer => OnceHasInformer'
    BY <1>1, <1>2, <2>1, <2>2 DEF OnceHasInformer, Critical, Finalizing, Watching
  <2>. QED
    BY <2>3, <2>4
<1>. QED
  BY <1>4, <1>5

(* The target's informer is started, or found, while the finalizer is on the object. *)
LEMMA WatchTargetKeeps ==
    ASSUME CtrlInd, TypeOK', NEW p \in Reconcilers, WatchTarget(p)
    PROVE  CtrlInd' /\ (OnceHasInformer /\ "missing" \notin Targets => OnceHasInformer')
<1>. USE DEF CtrlInd
<1>1. /\ UNCHANGED <<crd, cache, dir, failures>> /\ pc[p] = "watchTarget"
      /\ pc[p] \in Critical /\ pc[p] \in Watching /\ pc[p] \notin Finalizing
  BY DEF WatchTarget, api, budget, Critical, Watching, Finalizing
<1>2. rlock = p /\ \A q \in Reconcilers : q # p => pc[q] \notin Critical
  BY <1>1, Alone
<1>3. ~Unclaimed(crd)
  BY <1>1 DEF CleanUnlessClaimed
<1>4. CASE Return(p, TRUE)
  <2>1. \A q \in Reconcilers : pc'[q] \notin Critical
    BY <1>1, <1>4, ReturnFrees
  <2>. QED
    <3>1. CtrlInd'
      BY <1>1, <1>3, <2>1 DEF MutexHeld, CopiesOlder, CopyFits, CleanUnlessClaimed, Unclaimed, Undoing,
         ClaimedIsCached, Critical, Finalizing, Watching
    <3>2. "missing" \notin Targets => OnceHasInformer'
      <4>1. "missing" \notin Targets => target # "missing"
        BY DEF TypeOK
      <4>2. "missing" \notin Targets => pc'[p] = "addDirectory"
        BY <4>1, <1>4 DEF WatchTarget, Goto, Return, Done, TypeOK, Procs
      <4>. QED
        BY <4>2, <2>1 DEF Critical, Watching
    <3>. QED
      BY <3>1, <3>2
<1>5. CASE pc' = [pc EXCEPT ![p] = "addDirectory"] /\ UNCHANGED <<loc, rlock>>
  <2>1. pc'[p] = "addDirectory" /\ \A q \in Reconcilers : q # p => pc'[q] = pc[q]
    BY <1>5 DEF TypeOK, Procs
  <2>2. CtrlInd'
    <3>1. MutexHeld' /\ CopiesOlder'
      BY <1>1, <1>2, <1>5, <2>1 DEF MutexHeld, CopiesOlder
    <3>2. CopyFits' /\ Undoing'
      BY <1>1, <1>2, <1>5, <2>1 DEF CopyFits, Undoing, Critical, Finalizing
    <3>3. CleanUnlessClaimed' /\ ClaimedIsCached'
      BY <1>1, <1>3 DEF CleanUnlessClaimed, ClaimedIsCached, Unclaimed
    <3>. QED
      BY <3>1, <3>2, <3>3
  <2>3. OnceHasInformer /\ "missing" \notin Targets => OnceHasInformer'
    <3>. SUFFICES ASSUME OnceHasInformer, failures = 0 PROVE watching' # None
      BY <1>1 DEF OnceHasInformer
    <3>1. "target" \in once => watching # None
      BY <1>1, <1>2 DEF OnceHasInformer, Critical, Finalizing
    <3>2. CASE watching # None
      BY <3>2 DEF WatchTarget
    <3>3. CASE watching = None
      <4>1. "target" \notin once
        BY <3>1, <3>3
      <4>2. target # "missing"
        <5>1. pc'[p] # "idle"
          BY <2>1
        <5>. QED
          BY <3>3, <4>1, <5>1 DEF WatchTarget, Return, Done, Goto, TypeOK, Procs
      <4>3. \E w \in Watchers : watching' = w
        BY <3>3, <4>1, <4>2 DEF WatchTarget
      <4>. QED
        BY <4>3, ControllerAssumption DEF Procs
    <3>. QED
      BY <3>2, <3>3
  <2>. QED
    BY <2>2, <2>3
<1>. QED
  BY <1>4, <1>5 DEF WatchTarget, Goto

(* The entry of the directory is made while the finalizer is on the object. *)
LEMMA AddDirectoryKeeps ==
    ASSUME CtrlInd, TypeOK', NEW p \in Reconcilers, AddDirectory(p)
    PROVE  CtrlInd' /\ (OnceHasInformer => OnceHasInformer')
<1>. USE DEF CtrlInd
<1>1. /\ UNCHANGED <<crd, cache, once, watching, failures>> /\ pc[p] = "addDirectory"
      /\ pc[p] \in Critical /\ pc[p] \in Watching
  BY DEF AddDirectory, api, budget, Critical, Watching, Finalizing
<1>2. \A q \in Reconcilers : q # p => pc[q] \notin Critical
  BY <1>1, Alone
<1>3. ~Unclaimed(crd)
  BY <1>1 DEF CleanUnlessClaimed
<1>4. \A q \in Reconcilers : pc'[q] \notin Critical
  BY <1>1, ReturnFrees DEF AddDirectory
<1>5. CtrlInd'
  BY <1>1, <1>3, <1>4 DEF MutexHeld, CopiesOlder, CopyFits, CleanUnlessClaimed, Unclaimed, Undoing,
     ClaimedIsCached, Critical, Finalizing, Watching
<1>6. OnceHasInformer => OnceHasInformer'
  BY <1>1, <1>4 DEF OnceHasInformer, Critical, Watching
<1>. QED
  BY <1>5, <1>6

(* A step of one of finalizeCRD's goroutines. *)
LEMMA TaskKeeps ==
    ASSUME CtrlInd, TypeOK', NEW p \in Reconcilers, pc[p] = "finalize",
           UNCHANGED <<crd, cache, dir, rlock, pc>>,
           \A q \in Reconcilers : loc'[q].es = loc[q].es /\ (q # p => loc'[q] = loc[q]),
           watching' \in {watching, None}, once' \subseteq once,
           "stop" \notin loc'[p].tasks => watching' = None,
           loc'[p].tasks \cap {"stop", "reset"} = {} => "target" \notin once'
    PROVE  CtrlInd'
<1>. USE DEF CtrlInd
<1>1. MutexHeld' /\ CopiesOlder'
  BY DEF MutexHeld, CopiesOlder
<1>2. CopyFits' /\ ClaimedIsCached'
  BY DEF CopyFits, ClaimedIsCached
<1>3. CleanUnlessClaimed'
  BY DEF CleanUnlessClaimed, Unclaimed
<1>4. Undoing'
  <2>1. \A q \in Reconcilers : q # p => pc[q] \notin Finalizing
    BY Alone DEF Critical, Finalizing
  <2>. QED
    BY <2>1 DEF Undoing, Finalizing
<1>. QED
  BY <1>1, <1>2, <1>3, <1>4

(* What NextTask and FailTask leave of a goroutine's locals. *)
LEMMA TaskLocals ==
    ASSUME TypeOK, NEW p \in Reconcilers, NEW old, NEW new, NextTask(p, old, new) \/ FailTask(p, old)
    PROVE  /\ \A q \in Reconcilers : loc'[q].es = loc[q].es /\ (q # p => loc'[q] = loc[q])
           /\ NextTask(p, old, new) => loc'[p].tasks = (loc[p].tasks \ {old}) \cup new
           /\ FailTask(p, old) => loc'[p].tasks = loc[p].tasks \ {old}
<1>1. p \in Procs /\ loc[p] \in Locals
  BY DEF TypeOK, Procs
<1>2. CASE NextTask(p, old, new)
  <2>1. loc' = [loc EXCEPT ![p] = [loc[p] EXCEPT !.tasks = (@ \ {old}) \cup new]]
    BY <1>2 DEF NextTask, Set
  <2>2. loc'[p].es = loc[p].es /\ loc'[p].tasks = (loc[p].tasks \ {old}) \cup new /\ loc'[p].err = loc[p].err
    BY <1>1, <2>1 DEF TypeOK, Locals
  <2>3. \A q \in Reconcilers : q # p => loc'[q] = loc[q]
    BY <2>1 DEF TypeOK, Procs
  <2>4. FailTask(p, old) => loc'[p].tasks = loc[p].tasks \ {old}
    <3>1. FailTask(p, old) => loc'[p] = [loc[p] EXCEPT !.tasks = @ \ {old}, !.err = TRUE]
      BY <1>1 DEF FailTask, Set, TypeOK
    <3>. QED
      BY <1>1, <3>1 DEF Locals
  <2>. QED
    BY <2>2, <2>3, <2>4
<1>3. CASE FailTask(p, old) /\ ~NextTask(p, old, new)
  <2>1. loc' = [loc EXCEPT ![p] = [loc[p] EXCEPT !.tasks = @ \ {old}, !.err = TRUE]]
    BY <1>3 DEF FailTask, Set
  <2>2. loc'[p].es = loc[p].es /\ loc'[p].tasks = loc[p].tasks \ {old}
    BY <1>1, <2>1 DEF TypeOK, Locals
  <2>3. \A q \in Reconcilers : q # p => loc'[q] = loc[q]
    BY <2>1 DEF TypeOK, Procs
  <2>. QED
    BY <1>3, <2>2, <2>3
<1>. QED
  BY <1>2, <1>3

(* While finalizeCRD has not been joined, an ElastiService that is there has no entry. *)
LEMMA NoLiveEntry ==
    ASSUME CtrlInd, NEW p \in Reconcilers, pc[p] \in Finalizing
    PROVE  crd.phase = "live" => dir = None
<1>1. Stage(crd) # 1
  BY DEF CtrlInd, Undoing
<1>2. crd.phase = "live" => Unclaimed(crd)
  BY <1>1, StageFacts DEF CtrlInd, TypeOK, Unclaimed, CRDs
<1>. QED
  BY <1>2 DEF CtrlInd, CleanUnlessClaimed

(* StopForCRD and the reset of the Onces. *)
LEMMA StopKeeps ==
    ASSUME CtrlInd, TypeOK', NEW p \in Reconcilers, StopForCRD(p) \/ ResetOnces(p)
    PROVE  CtrlInd' /\ (OnceHasInformer => OnceHasInformer')
<1>. TypeOK
  BY DEF CtrlInd
<1>1. /\ pc[p] = "finalize" /\ pc[p] \in Finalizing /\ pc[p] \in Critical
      /\ UNCHANGED <<crd, cache, dir, rlock, pc, failures>>
  BY DEF StopForCRD, ResetOnces, Finalizing, Critical, api, locks, budget
<1>2. CASE StopForCRD(p)
  <2>1. watching' = None /\ once' = once /\ NextTask(p, "stop", {"reset"})
    BY <1>2 DEF StopForCRD
  <2>2. /\ \A q \in Reconcilers : loc'[q].es = loc[q].es /\ (q # p => loc'[q] = loc[q])
        /\ "reset" \in loc'[p].tasks
    BY <2>1, TaskLocals
  <2>3. CtrlInd'
    BY <1>1, <2>1, <2>2, TaskKeeps
  <2>4. OnceHasInformer => OnceHasInformer'
    <3>1. crd.phase = "live" => dir = None
      BY <1>1, NoLiveEntry
    <3>2. \A q \in Reconcilers : pc[q] # "addDirectory"
      BY <1>1, Alone DEF Critical, Watching
    <3>. QED
      BY <1>1, <2>2, <3>1, <3>2 DEF OnceHasInformer
  <2>. QED
    BY <2>3, <2>4
<1>3. CASE ResetOnces(p)
  <2>1. watching' = watching /\ once' = {} /\ NextTask(p, "reset", {})
    BY <1>3 DEF ResetOnces
  <2>2. /\ \A q \in Reconcilers : loc'[q].es = loc[q].es /\ (q # p => loc'[q] = loc[q])
        /\ loc'[p].tasks = loc[p].tasks \ {"reset"}
    BY <2>1, TaskLocals
  <2>3. "stop" \notin loc'[p].tasks => watching' = None
    BY <1>1, <2>1, <2>2 DEF CtrlInd, Undoing
  <2>4. CtrlInd'
    BY <1>1, <2>1, <2>2, <2>3, TaskKeeps
  <2>5. OnceHasInformer => OnceHasInformer'
    BY <1>1, <2>1 DEF OnceHasInformer
  <2>. QED
    BY <2>4, <2>5
<1>. QED
  BY <1>2, <1>3

(* The goroutines that delete the EndpointSlice and the private service. *)
LEMMA DeletesKeep ==
    ASSUME CtrlInd, TypeOK', NEW p \in Reconcilers,
           \/ FinalizeGet(p) \/ FinalizeDelete(p)
           \/ FailReconcile(p) /\ pc[p] = "finalize"
    PROVE  CtrlInd' /\ (OnceHasInformer => OnceHasInformer')
<1>. TypeOK
  BY DEF CtrlInd
<1>1. /\ pc[p] = "finalize" /\ UNCHANGED <<crd, cache, dir, rlock, pc, watching, once>>
      /\ failures' = 0 => failures = 0
  <2>1. failures' = failures \/ failures' = failures + 1
    BY DEF FinalizeGet, FinalizeDelete, FailReconcile, budget
  <2>2. pc[p] = "finalize" /\ UNCHANGED <<crd, cache, dir, rlock, pc, watching, once>>
    BY DEF FinalizeGet, FinalizeDelete, FailReconcile, api, mem, locks
  <2>3. failures' = 0 => failures = 0
    BY <2>1, ControllerAssumption DEF TypeOK
  <2>. QED
    BY <2>2, <2>3
<1>2. /\ \A q \in Reconcilers : loc'[q].es = loc[q].es /\ (q # p => loc'[q] = loc[q])
      /\ loc'[p].tasks \cap {"stop", "reset"} = loc[p].tasks \cap {"stop", "reset"}
  <2>1. PICK old \in {"sliceGet", "privateGet", "sliceDelete", "privateDelete"},
             new \in {{}, {"sliceDelete"}, {"privateDelete"}} : NextTask(p, old, new) \/ FailTask(p, old)
    BY DEF FinalizeGet, FinalizeDelete, FailReconcile
  <2>2. /\ \A q \in Reconcilers : loc'[q].es = loc[q].es /\ (q # p => loc'[q] = loc[q])
        /\ loc'[p].tasks = (loc[p].tasks \ {old}) \cup new \/ loc'[p].tasks = loc[p].tasks \ {old}
    BY <2>1, TaskLocals
  <2>. QED
    BY <2>2
<1>3. /\ "stop" \notin loc'[p].tasks => watching' = None
      /\ loc'[p].tasks \cap {"stop", "reset"} = {} => "target" \notin once'
  BY <1>1, <1>2 DEF CtrlInd, Undoing, Finalizing
<1>4. CtrlInd'
  BY <1>1, <1>2, <1>3, TaskKeeps
<1>5. OnceHasInformer => OnceHasInformer'
  BY <1>1, <1>2 DEF OnceHasInformer
<1>. QED
  BY <1>4, <1>5

(* finalizeCRD joins its goroutines and takes the entry out of the directory. *)
LEMMA FinalizeJoinKeeps ==
    ASSUME CtrlInd, TypeOK', NEW p \in Reconcilers, FinalizeJoin(p)
    PROVE  CtrlInd' /\ (OnceHasInformer => OnceHasInformer')
<1>. USE DEF CtrlInd
<1>1. /\ pc[p] = "finalize" /\ pc[p] \in Finalizing /\ pc[p] \in Critical /\ loc[p].tasks = {}
      /\ dir' = None /\ UNCHANGED <<crd, cache, watching, once, failures>>
  BY DEF FinalizeJoin, Finalizing, Critical, api, budget
<1>2. rlock = p /\ \A q \in Reconcilers : q # p => pc[q] \notin Critical
  BY <1>1, Alone
<1>3. watching = None /\ "target" \notin once
  BY <1>1 DEF Undoing
<1>4. CASE Return(p, TRUE)
  <2>1. \A q \in Reconcilers : pc'[q] \notin Critical
    BY <1>1, <1>4, ReturnFrees
  <2>2. CtrlInd'
    BY <1>1, <2>1 DEF MutexHeld, CopiesOlder, CopyFits, CleanUnlessClaimed, Unclaimed, Undoing,
       ClaimedIsCached, Critical, Finalizing, Watching
  <2>3. OnceHasInformer'
    BY <1>1, <1>3, <2>1 DEF OnceHasInformer, Critical, Watching
  <2>. QED
    BY <2>2, <2>3
<1>5. CASE pc' = [pc EXCEPT ![p] = "removeFinalizer"] /\ UNCHANGED <<loc, rlock>>
  <2>1. pc'[p] = "removeFinalizer" /\ \A q \in Reconcilers : q # p => pc'[q] = pc[q]
    BY <1>5 DEF TypeOK, Procs
  <2>2. MutexHeld' /\ CopiesOlder' /\ ClaimedIsCached'
    BY <1>1, <1>2, <1>5, <2>1 DEF MutexHeld, CopiesOlder, ClaimedIsCached
  <2>3. CopyFits' /\ Undoing'
    BY <1>1, <1>2, <1>3, <1>5, <2>1 DEF CopyFits, Undoing, Critical, Finalizing
  <2>4. CleanUnlessClaimed'
    BY <1>1, <1>2, <1>3, <2>1 DEF CleanUnlessClaimed, Unclaimed, Critical, Watching
  <2>5. OnceHasInformer'
    BY <1>1, <1>2, <1>3, <2>1 DEF OnceHasInformer, Critical, Watching
  <2>. QED
    BY <2>2, <2>3, <2>4, <2>5
<1>. QED
  BY <1>4, <1>5 DEF FinalizeJoin, Goto

(* The finalizer is removed from the very object that finalizeCRD worked for. *)
LEMMA RemoveFinalizerKeeps ==
    ASSUME CtrlInd, TypeOK', NEW p \in Reconcilers, RemoveFinalizer(p)
    PROVE  CtrlInd' /\ (OnceHasInformer => OnceHasInformer')
<1>. USE DEF CtrlInd
<1>1. /\ pc[p] = "removeFinalizer" /\ pc[p] \in Finalizing /\ pc[p] \in Critical
      /\ UNCHANGED <<cache, watching, once, dir, failures>>
  BY DEF RemoveFinalizer, Finalizing, Critical, budget
<1>2. watching = None /\ "target" \notin once /\ dir = None
  BY <1>1 DEF Undoing
<1>3. \A q \in Reconcilers : pc'[q] \notin Critical
  <2>1. Return(p, crd # loc[p].es)
    BY DEF RemoveFinalizer
  <2>. QED
    BY <1>1, <2>1, ReturnFrees
<1>4. crd \in CRDs /\ cache.crd \in CRDs /\ loc[p].es \in CRDs
  BY DEF TypeOK, Locals, Procs
<1>5. Older(cache.crd, crd)' /\ ClaimedIsCached' /\ (Unclaimed(crd)' => Stage(cache.crd)' # 1)
  <2>1. CASE crd = loc[p].es
    <3>1. crd' = NoCRD(crd.birth)
      BY <2>1 DEF RemoveFinalizer
    <3>2. Stage(crd') = 3 /\ crd'.birth = crd.birth
      BY <3>1 DEF NoCRD, Stage
    <3>3. Stage(crd) = 2 /\ Older(crd, cache.crd) /\ Older(cache.crd, crd)
      BY <1>1, <2>1 DEF CopyFits, CopiesOlder
    <3>4. Stage(cache.crd) \in 0..3 /\ cache.crd.birth \in Int /\ crd.birth \in Int
      BY <1>4, StageFacts
    <3>5. Stage(cache.crd) = 2 /\ cache.crd.birth = crd.birth
      BY <3>3, <3>4 DEF Older
    <3>. QED
      BY <1>1, <3>2, <3>5 DEF Older, ClaimedIsCached
  <2>2. CASE crd # loc[p].es
    <3>1. crd' = crd
      BY <2>2 DEF RemoveFinalizer
    <3>. QED
      BY <1>1, <3>1 DEF CopiesOlder, CleanUnlessClaimed, ClaimedIsCached, Unclaimed
  <2>. QED
    BY <2>1, <2>2
<1>6. CtrlInd'
  BY <1>1, <1>2, <1>3, <1>5 DEF MutexHeld, CopiesOlder, CopyFits, CleanUnlessClaimed, Undoing,
     Critical, Finalizing, Watching
<1>7. OnceHasInformer'
  BY <1>1, <1>2, <1>3 DEF OnceHasInformer, Critical, Watching
<1>. QED
  BY <1>6, <1>7

(* A failed call of Reconcile, other than the Deletes of finalizeCRD. *)
LEMMA FailReconcileKeeps ==
    ASSUME CtrlInd, TypeOK', NEW p \in Reconcilers, FailReconcile(p), pc[p] # "finalize"
    PROVE  CtrlInd' /\ OnceHasInformer'
<1>. USE DEF CtrlInd
<1>1. Return(p, TRUE) /\ pc[p] \in Critical /\ UNCHANGED <<crd, cache, watching, dir>>
  BY DEF FailReconcile, Critical, Finalizing, Watching, api
<1>2. \A q \in Reconcilers : pc'[q] \notin Critical
  BY <1>1, ReturnFrees
<1>3. Unclaimed(crd) => once' = once
  BY DEF FailReconcile, CleanUnlessClaimed, Watching
<1>4. CtrlInd'
  BY <1>1, <1>2, <1>3 DEF MutexHeld, CopiesOlder, CopyFits, CleanUnlessClaimed, Unclaimed, Undoing,
     ClaimedIsCached, Critical, Finalizing, Watching
<1>5. failures' # 0
  <2>1. failures' = failures + 1
    BY DEF FailReconcile
  <2>. QED
    BY <2>1, ControllerAssumption DEF TypeOK
<1>. QED
  BY <1>4, <1>5 DEF OnceHasInformer

-----------------------------------------------------------------------------
(* The cluster. *)

(* Users create and delete the ElastiService, and the cache of it catches up. *)
LEMMA LifeKeeps ==
    ASSUME CtrlInd, TypeOK', CreateCRD \/ DeleteCRD \/ Sync("crd")
    PROVE  CtrlInd' /\ (OnceHasInformer => OnceHasInformer')
<1>. USE DEF CtrlInd
<1>1. UNCHANGED <<rlock, pc, loc, once, watching, dir, failures>>
  BY DEF CreateCRD, DeleteCRD, Sync, mem, locks, budget
<1>2. /\ crd \in CRDs /\ cache.crd \in CRDs /\ crd' \in CRDs /\ cache'.crd \in CRDs
      /\ \A p \in Reconcilers : loc[p].es \in CRDs
  BY DEF TypeOK, Locals, Procs
<1>3. /\ Stage(crd) \in 0..3 /\ crd.birth \in Int /\ Stage(cache.crd) \in 0..3 /\ cache.crd.birth \in Int
      /\ Stage(crd') \in 0..3 /\ crd'.birth \in Int
      /\ \A p \in Reconcilers : Stage(loc[p].es) \in 0..3 /\ loc[p].es.birth \in Int
  BY <1>2, StageFacts
<1>4. /\ MutexHeld' /\ CopyFits'
  BY <1>1 DEF MutexHeld, CopyFits
<1>5. CASE CreateCRD \/ DeleteCRD
  <2>1. cache' = cache
    BY <1>5 DEF CreateCRD, DeleteCRD
  <2>2. \/ Stage(crd) = 3 /\ Stage(crd') = 0 /\ crd'.birth = crd.birth + 1
        \/ Stage(crd) = 0 /\ Stage(crd') = 3 /\ crd'.birth = crd.birth
        \/ Stage(crd) = 1 /\ Stage(crd') = 2 /\ crd'.birth = crd.birth
    <3>1. CASE CreateCRD
      BY <1>2, <3>1, StageFacts DEF CreateCRD
    <3>2. CASE DeleteCRD
      BY <1>2, <3>2, StageFacts DEF DeleteCRD, NoCRD, CRDs
    <3>. QED
      BY <1>5, <3>1, <3>2
  <2>3. CopiesOlder'
    BY <1>1, <1>3, <2>1, <2>2 DEF CopiesOlder, Older
  <2>4. CleanUnlessClaimed' /\ ClaimedIsCached'
    BY <1>1, <2>1, <2>2 DEF CleanUnlessClaimed, Unclaimed, ClaimedIsCached
  <2>5. Undoing'
    BY <1>1, <2>2 DEF Undoing
  <2>6. OnceHasInformer => OnceHasInformer'
    <3>1. crd'.phase = "live" => dir = None
      BY <1>2, <2>2, StageFacts DEF CleanUnlessClaimed, Unclaimed
    <3>. QED
      BY <1>1, <3>1 DEF OnceHasInformer
  <2>. QED
    BY <1>4, <2>3, <2>4, <2>5, <2>6
<1>6. CASE Sync("crd")
  <2>1. crd' = crd /\ cache'.crd = crd
    BY <1>6 DEF Sync, Cached, api, TypeOK
  <2>2. CopiesOlder'
    BY <1>1, <1>3, <2>1 DEF CopiesOlder, Older
  <2>3. CleanUnlessClaimed' /\ ClaimedIsCached' /\ Undoing'
    BY <1>1, <2>1 DEF CleanUnlessClaimed, Unclaimed, ClaimedIsCached, Undoing
  <2>4. OnceHasInformer => OnceHasInformer'
    BY <1>1, <2>1 DEF OnceHasInformer
  <2>. QED
    BY <1>4, <2>2, <2>3, <2>4
<1>. QED
  BY <1>5, <1>6

(* A process that has just begun has an empty memory and a cache that is up to date. *)
Fresh == TypeOK /\ pc = BootPc /\ cache = Cached /\ once = {} /\ watching = None /\ dir = None

(* It satisfies the invariant. *)
LEMMA FreshInd == Fresh => CtrlInd /\ OnceHasInformer
<1>. SUFFICES ASSUME Fresh PROVE CtrlInd /\ OnceHasInformer
  OBVIOUS
<1>. USE DEF Fresh
<1>1. \A q \in Reconcilers : pc[q] \notin Critical /\ pc[q] # "addDirectory"
  BY DEF BootPc, Procs, Critical, Finalizing, Watching
<1>2. cache.crd = crd /\ Stage(crd) \in 0..3
  BY StageFacts DEF Cached, TypeOK
<1>3. Older(cache.crd, crd) /\ ClaimedIsCached /\ (Unclaimed(crd) => Stage(cache.crd) # 1)
  BY <1>2 DEF Older, ClaimedIsCached, Unclaimed
<1>. QED
  BY <1>1, <1>3, AllOut DEF OnceHasInformer

(* The invariant is inductive. *)
LEMMA IndStep ==
    ASSUME CtrlInd, [Next]_vars
    PROVE  CtrlInd' /\ (OnceHasInformer /\ "missing" \notin Targets => OnceHasInformer')
<1>. TypeOK /\ TypeOK'
  BY NextType DEF CtrlInd
<1>1. CASE \E w \in Watchers : Deliver(w) \/ SwitchStep(w) \/ FailSwitch(w)
  BY <1>1, HandlersQuiet, QuietKeeps
<1>2. CASE ResolverStep \/ FailResolver
  BY <1>2, HandlersQuiet, QuietKeeps
<1>3. CASE Dequeue \/ TargetChange \/ ResolverChange \/ CollectPrivate \/ UNCHANGED vars
  BY <1>3, ClusterQuiet, QuietKeeps
<1>4. CASE \E o \in {"resolver", "slice", "private"} : Sync(o)
  BY <1>4, ClusterQuiet, QuietKeeps
<1>5. ASSUME NEW p \in Reconcilers, ReconcileStep(p) \/ FailReconcile(p)
      PROVE  CtrlInd' /\ (OnceHasInformer /\ "missing" \notin Targets => OnceHasInformer')
  BY <1>5, ReconcileKeeps, AddFinalizerKeeps, WatchTargetKeeps, AddDirectoryKeeps, StopKeeps, DeletesKeep,
     FinalizeJoinKeeps, RemoveFinalizerKeeps, FailReconcileKeeps DEF ReconcileStep
<1>6. CASE CreateCRD \/ DeleteCRD \/ Sync("crd")
  BY <1>6, LifeKeeps
<1>7. CASE Restart
  <2>1. Fresh'
    BY <1>7 DEF Restart, BootPc, Cached, api, Fresh
  <2>2. (Fresh => CtrlInd /\ OnceHasInformer)'
    BY FreshInd, PTL
  <2>. QED
    BY <2>1, <2>2
<1>. QED
  BY <1>1, <1>2, <1>3, <1>4, <1>5, <1>6, <1>7 DEF Next, Environment

(* A finalized ElastiService is forgotten, for any number of lives, failures and   *)
(* restarts and however stale the caches are (Reconcile, finalizeCRD): the mutex   *)
(* of ReconcileLocks and the API server's check of the version do it together.     *)
THEOREM ControllerForgotten == Spec => []Forgotten
<1>1. Init => CtrlInd
  BY InitType, FreshInd DEF Init, Fresh
<1>2. CtrlInd /\ [Next]_vars => CtrlInd'
  BY IndStep
<1>3. CtrlInd => Forgotten
  BY StageFacts DEF CtrlInd, TypeOK, CleanUnlessClaimed, Unclaimed, Forgotten
<1>. QED
  BY <1>1, <1>2, <1>3, PTL DEF Spec

(* An ElastiService whose target exists is watched once it is in the directory, if *)
(* no call to the API server has failed (watchScaleTargetRef, finalizeCRD).        *)
THEOREM ControllerWatched ==
    ASSUME "missing" \notin Targets
    PROVE  Spec => []WatchedOnceReconciled
<1>1. Init => CtrlInd /\ OnceHasInformer
  BY InitType, FreshInd DEF Init, Fresh
<1>2. CtrlInd /\ OnceHasInformer /\ [Next]_vars => CtrlInd' /\ OnceHasInformer'
  BY IndStep
<1>3. OnceHasInformer => WatchedOnceReconciled
  BY DEF OnceHasInformer, WatchedOnceReconciled
<1>. QED
  BY <1>1, <1>2, <1>3, PTL DEF Spec

-----------------------------------------------------------------------------
(* The private service comes first. *)

(* The ElastiService has not been there before, and no call to the API server has failed. *)
FirstLife == failures = 0 /\ (crd.birth = 0 \/ (crd.birth = 1 /\ crd.phase = "live"))

(* An ElastiService that was read has been created. *)
CopiesBorn ==
    /\ crd.phase # "absent" => crd.birth # 0
    /\ cache.crd.phase # "absent" => cache.crd.birth # 0
    /\ \A p \in Reconcilers : pc[p] \in Critical => loc[p].es.birth # 0

(* The private service is the ElastiService's own, which the garbage collector leaves alone. *)
PrivateOwned ==
    /\ private \in {0, crd.birth}
    /\ \A w \in Watchers : pc[w] = "createPrivate" => loc[w].owner = crd.birth /\ crd.birth # 0

(* Nothing says that the ElastiService is or was in proxy mode, or is past the *)
(* check of enableProxyMode for the private service.                           *)
NoTraceOfProxy ==
    /\ slice = None /\ cache.private = 0
    /\ crd.mode # "proxy" /\ cache.crd.mode # "proxy" /\ dir # "proxy"
    /\ \A p \in Reconcilers : pc[p] \in Critical => loc[p].es.mode # "proxy"
    /\ \A w \in Watchers :
          /\ pc[w] \notin {"watchPublic", "readSlice", "writeSlice"}
          /\ pc[w] \in {"deleteSlice", "status", "patchStatus"} => loc[w].mode # "proxy"
    /\ pc[Resolver] \notin {"readSlice", "writeSlice"}

PrivateFirst == CopiesBorn /\ (FirstLife => PrivateOwned /\ (private # 0 \/ NoTraceOfProxy))

(* A quiet step leaves the copies as they are and is not the beginning of a life. *)
LEMMA QuietBorn ==
    ASSUME CopiesBorn, Quiet
    PROVE  /\ CopiesBorn' /\ (FirstLife' => FirstLife)
           /\ \A p \in Reconcilers : pc'[p] \in Critical => pc[p] \in Critical /\ loc'[p] = loc[p]
<1>1. \A p \in Reconcilers : pc'[p] \in Critical => pc[p] \in Critical /\ loc'[p] = loc[p]
  BY DEF Quiet, Critical, Finalizing, Watching
<1>2. CopiesBorn'
  BY <1>1 DEF Quiet, CopiesBorn
<1>3. FirstLife' => FirstLife
  BY DEF Quiet, FirstLife
<1>. QED
  BY <1>1, <1>2, <1>3

(* A handler moves nobody but itself. *)
LEMMA HandlerMoves ==
    ASSUME TypeOK, NEW w \in Watchers \cup {Resolver},
           (w \in Watchers /\ (Deliver(w) \/ SwitchStep(w) \/ FailSwitch(w)))
             \/ (w = Resolver /\ (ResolverStep \/ FailResolver))
    PROVE  \A v \in Procs : v # w => pc'[v] = pc[v] /\ loc'[v] = loc[v]
<1>. USE DEF Done, Goto, Set, TypeOK
<1>1. CASE Deliver(w) \/ Switch(w) \/ CreatePrivate(w) \/ WatchPublic(w)
  BY <1>1 DEF Deliver, Switch, CreatePrivate, WatchPublic
<1>2. CASE ReadSlice(w) \/ WriteSlice(w) \/ DeleteSlice(w)
  BY <1>2 DEF ReadSlice, WriteSlice, AfterSlice, DeleteSlice
<1>3. CASE ReadStatus(w) \/ PatchStatus(w) \/ FailSwitch(w)
  BY <1>3 DEF ReadStatus, PatchStatus, FailSwitch
<1>4. CASE w = Resolver /\ (ResolverChanges \/ FailResolver)
  BY <1>4 DEF ResolverChanges, FailResolver
<1>. QED
  BY <1>1, <1>2, <1>3, <1>4 DEF SwitchStep, ResolverStep

(* enableProxyMode creates the private service before it starts on the slice, and *)
(* the mode is recorded after that.                                               *)
LEMMA WatcherPrivate ==
    ASSUME CtrlInd, TypeOK', PrivateFirst, NEW w \in Watchers, Deliver(w) \/ SwitchStep(w) \/ FailSwitch(w)
    PROVE  PrivateFirst'
<1>. TypeOK /\ w \in Procs /\ w # Resolver /\ w \notin Reconcilers /\ Resolver \in Procs
  BY ControllerAssumption DEF CtrlInd, Procs
<1>1. Quiet /\ \A v \in Procs : v # w => pc'[v] = pc[v] /\ loc'[v] = loc[v]
  BY HandlersQuiet, HandlerMoves
<1>2. CopiesBorn' /\ (FirstLife' => FirstLife)
  BY <1>1, QuietBorn DEF PrivateFirst
<1>. SUFFICES ASSUME FirstLife' PROVE PrivateOwned' /\ (private' # 0 \/ NoTraceOfProxy')
  BY <1>2 DEF PrivateFirst
<1>3. FirstLife /\ PrivateOwned /\ (private # 0 \/ NoTraceOfProxy)
  BY <1>2 DEF PrivateFirst
<1>4. crd'.birth = crd.birth /\ cache' = cache /\ dir' = dir
  BY <1>1 DEF Quiet, Deliver, SwitchStep, FailSwitch, Switch, CreatePrivate, WatchPublic, ReadSlice, WriteSlice,
     DeleteSlice, ReadStatus, PatchStatus
<1>5. ASSUME private' = private, pc'[w] # "createPrivate"
      PROVE  PrivateOwned'
  BY <1>1, <1>3, <1>4, <1>5 DEF PrivateOwned, Procs
<1>6. ASSUME NoTraceOfProxy, slice' = None, crd'.mode # "proxy",
             pc'[w] \notin {"watchPublic", "readSlice", "writeSlice"},
             pc'[w] \in {"deleteSlice", "status", "patchStatus"} => loc'[w].mode # "proxy"
      PROVE  NoTraceOfProxy'
  <2>1. \A p \in Reconcilers : pc'[p] = pc[p] /\ loc'[p] = loc[p]
    BY <1>1 DEF Procs
  <2>2. pc'[Resolver] = pc[Resolver] /\ \A v \in Watchers : v # w => pc'[v] = pc[v] /\ loc'[v] = loc[v]
    BY <1>1 DEF Procs
  <2>. QED
    BY <1>4, <1>6, <2>1, <2>2 DEF NoTraceOfProxy
<1>. USE DEF Done, Goto, Set, TypeOK
<1>7. CASE Deliver(w)
  <2>1. pc'[w] = "lock" /\ UNCHANGED <<private, slice, crd>>
    BY <1>7 DEF Deliver, api
  <2>. QED
    BY <1>3, <1>5, <1>6, <2>1 DEF NoTraceOfProxy
<1>8. CASE Switch(w)
  <2>1. UNCHANGED <<private, slice, crd>>
    BY <1>8 DEF Switch, api
  <2>2. CASE cache.crd.phase = "absent"
    <3>1. pc'[w] = "idle"
      BY <1>8, <2>2 DEF Switch
    <3>. QED
      BY <1>3, <1>5, <1>6, <2>1, <3>1 DEF NoTraceOfProxy
  <2>3. CASE cache.crd.phase # "absent"
    <3>1. loc'[w] = [loc[w] EXCEPT !.owner = cache.crd.birth]
      BY <1>8, <2>3 DEF Switch
    <3>2. loc'[w].owner = cache.crd.birth /\ loc'[w].mode = loc[w].mode
      BY <3>1 DEF Locals
    <3>3. cache.crd.birth = crd.birth /\ crd.birth # 0
      <4>1. cache.crd.birth # 0 /\ (cache.crd.birth < crd.birth \/ cache.crd.birth = crd.birth)
        BY <2>3 DEF PrivateFirst, CopiesBorn, CtrlInd, CopiesOlder, Older
      <4>2. crd.birth \in {0, 1} /\ cache.crd.birth \in Nat
        BY <1>3, ControllerAssumption DEF FirstLife, CRDs
      <4>. QED
        BY <4>1, <4>2
    <3>4. PrivateOwned'
      <4>1. \A v \in Watchers : pc'[v] = "createPrivate" => loc'[v].owner = crd.birth
        BY <1>1, <1>3, <3>2, <3>3 DEF PrivateOwned, Procs
      <4>. QED
        BY <1>3, <1>4, <2>1, <3>3, <4>1 DEF PrivateOwned
    <3>5. pc'[w] = IF loc[w].mode = "serve"
                   THEN IF Read("slice") = None THEN "status" ELSE "deleteSlice"
                   ELSE IF Read("private") = 0 THEN "createPrivate" ELSE "watchPublic"
      BY <1>8, <2>3 DEF Switch
    <3>6. private = 0 /\ NoTraceOfProxy => pc'[w] # "watchPublic"
      BY <3>5 DEF NoTraceOfProxy, Read, Cached
    <3>7. private = 0 /\ NoTraceOfProxy => NoTraceOfProxy'
      BY <1>6, <2>1, <3>2, <3>5, <3>6 DEF NoTraceOfProxy
    <3>. QED
      BY <1>3, <2>1, <3>4, <3>7
  <2>. QED
    BY <2>2, <2>3
<1>9. CASE CreatePrivate(w)
  <2>1. loc[w].owner = crd.birth /\ crd.birth # 0
    BY <1>3, <1>9 DEF CreatePrivate, PrivateOwned
  <2>2. private' \in {private, crd.birth} /\ private' # 0 /\ pc'[w] # "createPrivate"
    BY <1>9, <2>1 DEF CreatePrivate
  <2>3. PrivateOwned'
    BY <1>1, <1>3, <1>4, <2>2 DEF PrivateOwned, Procs
  <2>. QED
    BY <2>2, <2>3
<1>10. CASE WatchPublic(w) \/ ReadSlice(w) \/ WriteSlice(w)
  <2>1. private # 0
    BY <1>3, <1>10 DEF WatchPublic, ReadSlice, WriteSlice, NoTraceOfProxy
  <2>2. private' = private /\ pc'[w] # "createPrivate"
    BY <1>10 DEF WatchPublic, ReadSlice, WriteSlice, AfterSlice, api
  <2>. QED
    BY <1>5, <2>1, <2>2
<1>11. CASE DeleteSlice(w) \/ ReadStatus(w)
  <2>1. /\ pc'[w] \in {"status", "idle", "patchStatus"} /\ pc[w] \in {"deleteSlice", "status"}
        /\ UNCHANGED <<private, crd>> /\ slice' \in {slice, None}
    BY <1>11 DEF DeleteSlice, ReadStatus, api
  <2>2. pc'[w] = "idle" \/ loc'[w].mode = loc[w].mode
    <3>1. pc'[w] = "idle" \/ loc'[w] = loc[w] \/ loc'[w] = [loc[w] EXCEPT !.found = (cache.crd.mode # loc[w].mode)]
      BY <1>11 DEF DeleteSlice, ReadStatus
    <3>. QED
      BY <3>1 DEF Locals
  <2>. QED
    BY <1>3, <1>5, <1>6, <2>1, <2>2 DEF NoTraceOfProxy
<1>12. CASE PatchStatus(w)
  <2>1. pc'[w] = "idle" /\ pc[w] = "patchStatus" /\ UNCHANGED <<private, slice>>
    BY <1>12 DEF PatchStatus
  <2>2. crd'.mode \in {crd.mode, loc[w].mode}
    BY <1>12 DEF PatchStatus, CRDs
  <2>. QED
    BY <1>3, <1>5, <1>6, <2>1, <2>2 DEF NoTraceOfProxy
<1>13. CASE FailSwitch(w)
  BY <1>13, ControllerAssumption DEF FailSwitch, FirstLife
<1>. QED
  BY <1>7, <1>8, <1>9, <1>10, <1>11, <1>12, <1>13 DEF SwitchStep

(* handleResolverChanges writes the slice of an ElastiService whose entry is in proxy mode. *)
LEMMA ResolverPrivate ==
    ASSUME CtrlInd, TypeOK', PrivateFirst, ResolverStep \/ FailResolver
    PROVE  PrivateFirst'
<1>. TypeOK /\ Resolver \in Procs /\ Resolver \notin Watchers /\ Resolver \notin Reconcilers
  BY ControllerAssumption DEF CtrlInd, Procs
<1>1. Quiet /\ \A v \in Procs : v # Resolver => pc'[v] = pc[v] /\ loc'[v] = loc[v]
  BY HandlersQuiet, HandlerMoves
<1>2. CopiesBorn' /\ (FirstLife' => FirstLife)
  BY <1>1, QuietBorn DEF PrivateFirst
<1>. SUFFICES ASSUME FirstLife' PROVE PrivateOwned' /\ (private' # 0 \/ NoTraceOfProxy')
  BY <1>2 DEF PrivateFirst
<1>3. FirstLife /\ PrivateOwned /\ (private # 0 \/ NoTraceOfProxy)
  BY <1>2 DEF PrivateFirst
<1>4. PrivateOwned' /\ private' = private
  <2>1. crd' = crd /\ private' = private
    BY DEF ResolverStep, FailResolver, ResolverChanges, ReadSlice, WriteSlice, api
  <2>. QED
    BY <1>1, <1>3, <2>1 DEF PrivateOwned, Procs
<1>5. NoTraceOfProxy => ~FailResolver /\ ~ResolverStep
  <2>1. ~FailResolver
    BY ControllerAssumption DEF FailResolver, FirstLife, TypeOK
  <2>2. NoTraceOfProxy => ~ResolverStep
    BY DEF NoTraceOfProxy, ResolverStep, ResolverChanges, ReadSlice, WriteSlice
  <2>. QED
    BY <2>1, <2>2
<1>. QED
  BY <1>3, <1>4, <1>5

(* A reconciler moves nobody but itself. *)
LEMMA ReconcilerMoves ==
    ASSUME TypeOK, NEW p \in Reconcilers, ReconcileStep(p) \/ FailReconcile(p)
    PROVE  /\ \A v \in Procs : v # p => pc'[v] = pc[v] /\ loc'[v] = loc[v]
           /\ cache' = cache
<1>. USE DEF Return, Done, Goto, Set, NextTask, FailTask, TypeOK
<1>1. CASE Reconcile(p) \/ AddFinalizer(p) \/ WatchTarget(p) \/ AddDirectory(p)
  BY <1>1 DEF Reconcile, AddFinalizer, WatchTarget, AddDirectory
<1>2. CASE StopForCRD(p) \/ ResetOnces(p) \/ FinalizeGet(p) \/ FinalizeDelete(p)
  BY <1>2 DEF StopForCRD, ResetOnces, FinalizeGet, FinalizeDelete
<1>3. CASE FinalizeJoin(p) \/ RemoveFinalizer(p) \/ FailReconcile(p)
  BY <1>3 DEF FinalizeJoin, RemoveFinalizer, FailReconcile
<1>. QED
  BY <1>1, <1>2, <1>3 DEF ReconcileStep

(* What Reconcile works on is the copy it read past the mutex, or the one in the cache. *)
LEMMA ReconcilerCopy ==
    ASSUME TypeOK, NEW p \in Reconcilers, ReconcileStep(p) \/ FailReconcile(p), pc'[p] \in Critical
    PROVE  \/ pc[p] \in Critical /\ loc'[p].es = loc[p].es
           \/ cache.crd.phase # "absent" /\ loc'[p].es = cache.crd
<1>. p \in Procs /\ loc[p] \in Locals
  BY DEF TypeOK, Procs
<1>1. CASE Reconcile(p)
  <2>1. cache.crd.phase # "absent"
    BY <1>1 DEF Reconcile, Done, Goto, TypeOK, Critical, Finalizing, Watching
  <2>. DEFINE tasks == IF cache.crd.phase = "deleting" THEN FirstTasks ELSE {}
  <2>2. loc'[p] = [NoLocals EXCEPT !.es = cache.crd, !.tasks = tasks]
    BY <1>1, <2>1 DEF Reconcile, Set, TypeOK
  <2>. HIDE DEF tasks
  <2>. QED
    BY <2>1, <2>2 DEF NoLocals
<1>2. CASE ~Reconcile(p)
  <2>1. pc[p] \in Critical
    BY <1>2 DEF ReconcileStep, FailReconcile, AddFinalizer, WatchTarget, AddDirectory, StopForCRD, ResetOnces,
       FinalizeGet, FinalizeDelete, FinalizeJoin, RemoveFinalizer, Critical, Finalizing, Watching
  <2>2. ~Done(p)
    BY DEF Done, Goto, TypeOK, Critical, Finalizing, Watching
  <2>3. CASE StopForCRD(p) \/ ResetOnces(p) \/ FinalizeGet(p) \/ FinalizeDelete(p) \/ FailReconcile(p)
    <3>1. PICK old, new : NextTask(p, old, new) \/ FailTask(p, old)
      BY <2>2, <2>3 DEF StopForCRD, ResetOnces, FinalizeGet, FinalizeDelete, FailReconcile, Return
    <3>. QED
      BY <2>1, <3>1, TaskLocals
  <2>4. CASE AddFinalizer(p) \/ WatchTarget(p) \/ AddDirectory(p) \/ FinalizeJoin(p) \/ RemoveFinalizer(p)
    BY <2>1, <2>2, <2>4 DEF AddFinalizer, WatchTarget, AddDirectory, FinalizeJoin, RemoveFinalizer, Return
  <2>. QED
    BY <1>2, <2>3, <2>4 DEF ReconcileStep
<1>. QED
  BY <1>1, <1>2

(* The steps of Reconcile and finalizeCRD do to the ElastiService what a life allows. *)
LEMMA ReconcilerLife ==
    ASSUME CtrlInd, TypeOK', NEW p \in Reconcilers, ReconcileStep(p) \/ FailReconcile(p)
    PROVE  /\ crd'.birth = crd.birth /\ (crd'.phase = crd.phase \/ crd'.phase = "absent")
           /\ crd'.mode \in {crd.mode, ""}
           /\ failures' = 0 => failures = 0
<1>. TypeOK
  BY DEF CtrlInd
<1>1. CASE AddFinalizer(p)
  BY <1>1 DEF AddFinalizer, budget, TypeOK, CRDs
<1>2. CASE RemoveFinalizer(p)
  BY <1>2 DEF RemoveFinalizer, NoCRD, budget
<1>3. CASE FailReconcile(p)
  BY <1>3, ControllerAssumption DEF FailReconcile, api, TypeOK
<1>4. CASE UNCHANGED <<crd, failures>>
  BY <1>4
<1>. QED
  BY <1>1, <1>2, <1>3, <1>4 DEF ReconcileStep, Reconcile, WatchTarget, AddDirectory, StopForCRD, ResetOnces,
     FinalizeGet, FinalizeDelete, FinalizeJoin, api, budget

(* finalizeCRD does not run in a first life: what it read was created and deleted. *)
LEMMA NotFinalizing ==
    ASSUME CtrlInd, CopiesBorn, FirstLife, NEW p \in Reconcilers
    PROVE  pc[p] \notin Finalizing
<1>. SUFFICES ASSUME pc[p] \in Finalizing PROVE FALSE
  OBVIOUS
<1>1. /\ Stage(loc[p].es) = 2 /\ Older(loc[p].es, cache.crd) /\ Older(cache.crd, crd)
      /\ loc[p].es.birth # 0
  BY DEF CtrlInd, CopyFits, CopiesOlder, CopiesBorn, Critical
<1>2. loc[p].es \in CRDs /\ cache.crd \in CRDs /\ crd \in CRDs
  BY DEF CtrlInd, TypeOK, Procs, Locals
<1>3. loc[p].es.birth \in Nat /\ cache.crd.birth \in Nat /\ crd.birth \in Nat /\ crd.birth \in {0, 1}
  BY <1>2, ControllerAssumption DEF CRDs, FirstLife
<1>4. Stage(cache.crd) \in 0..3 /\ Stage(crd) \in 0..3 /\ (crd.birth = 1 => Stage(crd) \in {0, 1})
  <2>1. crd.birth = 1 => crd.phase = "live"
    BY DEF FirstLife
  <2>2. /\ Stage(cache.crd) \in 0..3 /\ Stage(crd) \in 0..3
        /\ Stage(crd) = 2 <=> crd.phase = "deleting"
        /\ Stage(crd) = 3 <=> crd.phase = "absent"
    BY <1>2, StageFacts
  <2>. QED
    BY <2>1, <2>2
<1>. QED
  BY <1>1, <1>3, <1>4 DEF Older

(* Reconcile takes the mode from the copies and leaves the private service alone. *)
LEMMA ReconcilerPrivate ==
    ASSUME CtrlInd, TypeOK', PrivateFirst, NEW p \in Reconcilers, ReconcileStep(p) \/ FailReconcile(p)
    PROVE  PrivateFirst'
<1>. /\ TypeOK /\ p \in Procs /\ p \notin Watchers /\ p # Resolver
     /\ Resolver \in Procs /\ Watchers \subseteq Procs /\ Reconcilers \subseteq Procs
  BY ControllerAssumption DEF CtrlInd, Procs
<1>1. cache' = cache /\ \A v \in Procs : v # p => pc'[v] = pc[v] /\ loc'[v] = loc[v]
  BY ReconcilerMoves
<1>2. /\ crd'.birth = crd.birth /\ (crd'.phase = crd.phase \/ crd'.phase = "absent")
      /\ crd'.mode \in {crd.mode, ""} /\ (failures' = 0 => failures = 0)
  BY ReconcilerLife
<1>3. pc'[p] \in Critical => \/ pc[p] \in Critical /\ loc'[p].es = loc[p].es
                             \/ cache.crd.phase # "absent" /\ loc'[p].es = cache.crd
  BY ReconcilerCopy
<1>4. CopiesBorn'
  <2>1. \A q \in Reconcilers : pc'[q] \in Critical => loc'[q].es.birth # 0
    BY <1>1, <1>3 DEF PrivateFirst, CopiesBorn
  <2>. QED
    BY <1>1, <1>2, <2>1 DEF PrivateFirst, CopiesBorn
<1>. SUFFICES ASSUME FirstLife' PROVE PrivateOwned' /\ (private' # 0 \/ NoTraceOfProxy')
  BY <1>4 DEF PrivateFirst
<1>5. FirstLife
  BY <1>2 DEF FirstLife
<1>6. CopiesBorn /\ PrivateOwned /\ (private # 0 \/ NoTraceOfProxy)
  BY <1>5 DEF PrivateFirst
<1>7. UNCHANGED <<private, slice>>
  <2>1. pc[p] # "finalize"
    BY <1>5, <1>6, NotFinalizing DEF Finalizing
  <2>. QED
    BY <2>1 DEF ReconcileStep, FailReconcile, Reconcile, AddFinalizer, WatchTarget, AddDirectory, StopForCRD,
       ResetOnces, FinalizeGet, FinalizeDelete, FinalizeJoin, RemoveFinalizer, api
<1>8. PrivateOwned'
  BY <1>1, <1>2, <1>6, <1>7 DEF PrivateOwned
<1>9. dir' \in {dir, None} \/ (pc[p] \in Critical /\ dir' = loc[p].es.mode)
  BY DEF ReconcileStep, FailReconcile, Reconcile, AddFinalizer, WatchTarget, AddDirectory, StopForCRD,
     ResetOnces, FinalizeGet, FinalizeDelete, FinalizeJoin, RemoveFinalizer, mem, Critical, Watching
<1>10. NoTraceOfProxy => NoTraceOfProxy'
  <2>. SUFFICES ASSUME NoTraceOfProxy PROVE NoTraceOfProxy'
    OBVIOUS
  <2>1. \A q \in Reconcilers : pc'[q] \in Critical => loc'[q].es.mode # "proxy"
    BY <1>1, <1>3 DEF NoTraceOfProxy
  <2>2. dir' # "proxy"
    BY <1>9, NoneIsNoMode DEF NoTraceOfProxy
  <2>. QED
    BY <1>1, <1>2, <1>7, <2>1, <2>2 DEF NoTraceOfProxy
<1>. QED
  BY <1>6, <1>7, <1>8, <1>10

(* The cluster: the garbage collector does not touch a private service whose owner *)
(* is there, and a new or a restarted beginning shows no trace of proxy mode.      *)
LEMMA ClusterPrivate ==
    ASSUME CtrlInd, TypeOK', PrivateFirst,
           \/ Dequeue \/ Environment \/ UNCHANGED vars
           \/ \E o \in {"crd", "resolver", "slice", "private"} : Sync(o)
    PROVE  PrivateFirst'
<1>. TypeOK /\ Resolver \in Procs /\ Watchers \subseteq Procs /\ Reconcilers \subseteq Procs
  BY DEF CtrlInd, Procs
<1>1. CASE Dequeue
  <2>1. UNCHANGED <<crd, slice, private, cache, dir, loc, failures>>
    BY <1>1 DEF Dequeue, api, budget
  <2>2. pc'[Worker] = "reconcile" /\ \A v \in Procs : v # Worker => pc'[v] = pc[v]
    BY <1>1 DEF Dequeue, Goto, TypeOK, Procs, Reconcilers
  <2>3. Worker # Resolver /\ Worker \notin Watchers
    BY ControllerAssumption DEF Reconcilers
  <2>4. \A v \in Procs : pc'[v] \in Critical => pc'[v] = pc[v]
    BY <2>2 DEF Critical, Finalizing, Watching
  <2>. QED
    BY <2>1, <2>2, <2>3, <2>4 DEF PrivateFirst, CopiesBorn, FirstLife, PrivateOwned, NoTraceOfProxy
<1>2. CASE \E o \in {"crd", "resolver", "slice", "private"} : Sync(o)
  <2>1. UNCHANGED <<crd, slice, private, dir, pc, loc, failures>>
    BY <1>2 DEF Sync, api, budget
  <2>2. cache'.crd \in {cache.crd, crd} /\ cache'.private \in {cache.private, private}
    BY <1>2 DEF Sync, Cached, TypeOK
  <2>3. CopiesBorn'
    BY <2>1, <2>2 DEF PrivateFirst, CopiesBorn
  <2>4. FirstLife' => PrivateOwned' /\ FirstLife
    BY <2>1 DEF PrivateFirst, FirstLife, PrivateOwned
  <2>5. private = 0 /\ NoTraceOfProxy => NoTraceOfProxy'
    BY <2>1, <2>2 DEF NoTraceOfProxy
  <2>. QED
    BY <2>1, <2>3, <2>4, <2>5 DEF PrivateFirst
<1>3. CASE CreateCRD \/ DeleteCRD
  <2>1. UNCHANGED <<slice, private, cache, dir, pc, loc, failures>>
    BY <1>3 DEF CreateCRD, DeleteCRD, mem, budget
  <2>2. /\ crd'.phase # "absent" => crd'.birth # 0
        /\ FirstLife' => FirstLife /\ crd.birth \in {0, crd'.birth}
        /\ crd'.mode \in {crd.mode, ""}
    <3>1. CASE CreateCRD
      <4>1. crd.birth \in Nat /\ crd.birth + 1 # 0 /\ (crd.birth + 1 = 1 => crd.birth = 0)
        BY ControllerAssumption DEF TypeOK, CRDs
      <4>. QED
        BY <2>1, <3>1, <4>1 DEF CreateCRD, FirstLife
    <3>2. CASE DeleteCRD
      BY <2>1, <3>2 DEF DeleteCRD, NoCRD, TypeOK, CRDs, PrivateFirst, CopiesBorn, FirstLife
    <3>. QED
      BY <1>3, <3>1, <3>2
  <2>3. CopiesBorn'
    BY <2>1, <2>2 DEF PrivateFirst, CopiesBorn
  <2>4. FirstLife' => PrivateOwned'
    BY <2>1, <2>2 DEF PrivateFirst, PrivateOwned
  <2>5. NoTraceOfProxy => NoTraceOfProxy'
    BY <2>1, <2>2 DEF NoTraceOfProxy
  <2>. QED
    BY <2>1, <2>2, <2>3, <2>4, <2>5 DEF PrivateFirst
<1>4. CASE TargetChange \/ ResolverChange \/ UNCHANGED vars
  BY <1>4 DEF TargetChange, ResolverChange, vars, api, mem, locks, budget,
     PrivateFirst, CopiesBorn, FirstLife, PrivateOwned, NoTraceOfProxy
<1>5. CASE CollectPrivate
  <2>1. UNCHANGED <<crd, cache, pc, loc, failures>> /\ ~FirstLife
    BY <1>5 DEF CollectPrivate, budget, PrivateFirst, PrivateOwned, FirstLife
  <2>. QED
    BY <2>1 DEF PrivateFirst, CopiesBorn, FirstLife
<1>6. CASE Restart
  <2>1. UNCHANGED <<crd, slice, private, failures>> /\ dir' = None
    BY <1>6 DEF Restart, api
  <2>2. cache'.crd = crd /\ cache'.private = private
    BY <1>6 DEF Restart, Cached
  <2>3. \A v \in Procs : pc'[v] \in {"idle", "reconcile"}
    BY <1>6 DEF Restart, BootPc
  <2>4. \A v \in Procs : pc'[v] \notin Critical
    BY <2>3 DEF Critical, Finalizing, Watching
  <2>5. private = 0 /\ NoTraceOfProxy => NoTraceOfProxy'
    BY <2>1, <2>2, <2>3, <2>4, NoneIsNoMode DEF NoTraceOfProxy
  <2>. QED
    BY <2>1, <2>2, <2>3, <2>4, <2>5 DEF PrivateFirst, CopiesBorn, FirstLife, PrivateOwned
<1>. QED
  BY <1>1, <1>2, <1>3, <1>4, <1>5, <1>6 DEF Environment

(* In its first life, until it is being deleted and while no call to the API server *)
(* has failed, an ElastiService is never reached through the resolver without a     *)
(* private service for the resolver to send to, however stale the caches are and    *)
(* however often the operator restarts (enableProxyMode, handleResolverChanges,     *)
(* AddCRD).                                                                         *)
THEOREM ControllerForwardPath == Spec => []ForwardPath
<1>1. Init => CtrlInd /\ PrivateFirst
  <2>. SUFFICES ASSUME Init PROVE CtrlInd /\ PrivateFirst
    OBVIOUS
  <2>1. CtrlInd /\ Reconcilers \subseteq Procs /\ Watchers \subseteq Procs /\ Resolver \in Procs
    BY InitType, FreshInd DEF Init, Fresh, Procs
  <2>2. crd.phase = "absent" /\ crd.birth = 0 /\ crd.mode = "" /\ cache.crd = crd /\ cache.private = 0
    BY DEF Init, Cached, NoCRD
  <2>3. \A v \in Procs : pc[v] = "idle"
    BY <2>2 DEF Init, BootPc
  <2>4. CopiesBorn
    BY <2>1, <2>2, <2>3 DEF CopiesBorn, Critical, Finalizing, Watching
  <2>5. PrivateOwned
    BY <2>1, <2>2, <2>3 DEF Init, PrivateOwned
  <2>6. NoTraceOfProxy
    BY <2>1, <2>2, <2>3, NoneIsNoMode DEF Init, NoTraceOfProxy, Critical, Finalizing, Watching
  <2>. QED
    BY <2>1, <2>4, <2>5, <2>6 DEF PrivateFirst
<1>2. CtrlInd /\ PrivateFirst /\ [Next]_vars => CtrlInd' /\ PrivateFirst'
  <2>. SUFFICES ASSUME CtrlInd, PrivateFirst, [Next]_vars PROVE CtrlInd' /\ PrivateFirst'
    OBVIOUS
  <2>1. CtrlInd' /\ TypeOK'
    BY IndStep DEF CtrlInd
  <2>2. PrivateFirst'
    BY <2>1, WatcherPrivate, ResolverPrivate, ReconcilerPrivate, ClusterPrivate DEF Next
  <2>. QED
    BY <2>1, <2>2
<1>3. CtrlInd /\ PrivateFirst => ForwardPath
  <2>. SUFFICES ASSUME CtrlInd, PrivateFirst, failures = 0, crd.birth = 1, crd.phase = "live", slice # None
                PROVE  private # 0
    BY DEF ForwardPath
  <2>1. FirstLife
    BY DEF FirstLife
  <2>. QED
    BY <2>1 DEF PrivateFirst, NoTraceOfProxy
<1>. QED
  BY <1>1, <1>2, <1>3, PTL DEF Spec
=============================================================================
