-------------------------- MODULE InformerManager ---------------------------
(***************************************************************************)
(* The informer manager of operator/internal/informer/informer.go, with    *)
(* the two that use it: the controller's worker, in watchScaleTargetRef    *)
(* and finalizeCRD, and the health monitor.                                *)
(*                                                                         *)
(* A map takes a key, an ElastiService and a target of it, to an informer, *)
(* which runs until its channel is closed.  Worker and monitor load, store *)
(* and delete entries without a lock.  Closing a channel twice is a panic; *)
(* the operator starts again and reconciles every ElastiService.           *)
(*                                                                         *)
(* StopForCRD finds the keys of an ElastiService by the prefix of its      *)
(* name, and so those of any other whose name begins like it.  No name is  *)
(* longer than a key.                                                      *)
(***************************************************************************)
EXTENDS Integers, FiniteSets

CONSTANTS Services,     \* the ElastiServices
          Targets,      \* what spec.scaleTargetRef may name
          First,        \* First[c]: what that of c names at first
          Matches,      \* Matches[c]: the ElastiServices whose names begin with that of c
          Informers,    \* bound: informers at a time; 0 stands for none
          None,
          MaxDeletes,   \* bound: how often an ElastiService is deleted
          MaxChanges    \* bound: how often a scaleTargetRef changes

Threads == {"worker", "monitor"}
Keys == Services \X Targets

ASSUME InformerManagerAssumption ==
    /\ 0 \notin Informers
    /\ Matches \in [Services -> SUBSET Services] /\ \A c \in Services : c \in Matches[c]
    /\ First \in [Services -> Targets]
    /\ MaxDeletes \in Nat /\ MaxChanges \in Nat
    /\ None \notin Services \cup Targets \cup Keys

VARIABLES phase,        \* phase[c]: "absent", "live" or "deleting"
          target,       \* target[c]: its spec.scaleTargetRef
          deletes, changes,
          queued,       \* queued[c]: it is in the controller's work queue
          once,         \* once[c]: the Once of its target informer is consumed
          dir,          \* dir[c]: the scaleTargetRef in the CRD directory; None if not there
          informers,    \* Manager.informers: 0 if there is no entry
          stopCh,       \* stopCh[i]: "open" or "closed"
          synced,       \* synced[i]: HasSynced
          pc,           \* pc[a]: the next step of thread a
          key,          \* key[a]: the key it works on
          held,         \* held[a]: the informer it has loaded or started; 0 if none
          job,          \* what the worker reconciles, as getCRD returned it
          todo,         \* the keys StopForCRD has still to stop
          spoilt        \* history, read by no action: see Add and Change

crds == <<phase, target, deletes, changes>>
mem == <<queued, once, dir, spoilt>>
chans == <<stopCh, synced>>
vars == <<crds, mem, informers, chans, pc, key, held, job, todo>>

Labels == {"idle", "load", "close", "delete", "enable", "sync", "add", "range"}

NoKey == <<None, None>>
NoJob == [crd |-> None, ref |-> None, deleted |-> FALSE]

(* The memory of a fresh process. *)
Boot ==
    /\ once' = [c \in Services |-> FALSE] /\ dir' = [c \in Services |-> None]
    /\ queued' = [c \in Services |-> phase[c] # "absent"]
    /\ informers' = [k \in Keys |-> 0]
    /\ stopCh' = [i \in Informers |-> "closed"] /\ synced' = [i \in Informers |-> FALSE]
    /\ pc' = [a \in Threads |-> "idle"] /\ key' = [a \in Threads |-> NoKey]
    /\ held' = [a \in Threads |-> 0] /\ job' = NoJob /\ todo' = {}
    /\ spoilt' = [c \in Services |-> FALSE]

Init ==
    /\ phase = [c \in Services |-> "live"] /\ target = First
    /\ deletes = 0 /\ changes = 0
    /\ once = [c \in Services |-> FALSE] /\ dir = [c \in Services |-> None]
    /\ queued = [c \in Services |-> TRUE]
    /\ informers = [k \in Keys |-> 0]
    /\ stopCh = [i \in Informers |-> "closed"] /\ synced = [i \in Informers |-> FALSE]
    /\ pc = [a \in Threads |-> "idle"] /\ key = [a \in Threads |-> NoKey]
    /\ held = [a \in Threads |-> 0] /\ job = NoJob /\ todo = {}
    /\ spoilt = [c \in Services |-> FALSE]

-----------------------------------------------------------------------------
Goto(a, label) == pc' = [pc EXCEPT ![a] = label]
Finish(a) ==
    /\ Goto(a, "idle")
    /\ key' = [key EXCEPT ![a] = NoKey] /\ held' = [held EXCEPT ![a] = 0]
    /\ job' = IF a = "worker" THEN NoJob ELSE job

(* Reconcile returns nil, with the ElastiService in the directory. *)
ReturnNil == dir' = [dir EXCEPT ![job.crd] = job.ref] /\ UNCHANGED queued

(* It returns an error, and the ElastiService is queued again. *)
ReturnError == queued' = [queued EXCEPT ![job.crd] = TRUE] /\ UNCHANGED dir

(* What follows StopInformer: the monitor enables the informer again, StopForCRD *)
(* stops the next one, watchScaleTargetRef goes on to Add.                       *)
AfterStop(a) ==
    IF a = "monitor" THEN "enable" ELSE IF job.deleted THEN "range" ELSE "add"

(* StopInformer loads the entry, and returns an error, which is logged, if there *)
(* is none.                                                                      *)
StopLoad(a) ==
    /\ pc[a] = "load"
    /\ held' = [held EXCEPT ![a] = informers[key[a]]]
    /\ Goto(a, IF informers[key[a]] = 0 THEN AfterStop(a) ELSE "close")
    /\ UNCHANGED <<crds, mem, informers, chans, key, job, todo>>

(* Mutant: the entry stays. *)
StopCloseOnly(a) ==
    /\ pc[a] = "close" /\ stopCh[held[a]] = "open"
    /\ stopCh' = [stopCh EXCEPT ![held[a]] = "closed"]
    /\ Goto(a, AfterStop(a))
    /\ UNCHANGED <<crds, mem, informers, synced, key, held, job, todo>>

(* It closes the channel. *)
StopClose(a) ==
    /\ pc[a] = "close" /\ stopCh[held[a]] = "open"
    /\ stopCh' = [stopCh EXCEPT ![held[a]] = "closed"]
    /\ Goto(a, "delete")
    /\ UNCHANGED <<crds, mem, informers, synced, key, held, job, todo>>

(* The other thread has closed it, and close panics.  In the monitor, in the     *)
(* goroutines of StopForCRD and in a Reconcile that Initialize calls that is the *)
(* end of the process.                                                           *)
Panic(a) ==
    /\ pc[a] = "close" /\ stopCh[held[a]] = "closed"
    /\ Boot
    /\ UNCHANGED crds

(* In a watchScaleTargetRef that controller-runtime calls it recovers, and Reconcile *)
(* has failed.                                                                       *)
Recovered ==
    /\ pc["worker"] = "close" /\ stopCh[held["worker"]] = "closed" /\ ~job.deleted
    /\ ReturnError
    /\ Finish("worker")
    /\ UNCHANGED <<crds, once, spoilt, informers, chans, todo>>

(* It deletes the entry, which may be another by now. *)
StopDelete(a) ==
    /\ pc[a] = "delete"
    /\ informers' = [informers EXCEPT ![key[a]] = 0]
    /\ held' = [held EXCEPT ![a] = 0]
    /\ Goto(a, AfterStop(a))
    /\ UNCHANGED <<crds, mem, chans, key, job, todo>>

(* The informers that neither the map nor a thread refers to.  One of these that was *)
(* not closed runs on, out of the operator's reach; that is of no more consequence  *)
(* here.                                                                            *)
Unused ==
    {i \in Informers : (\A k \in Keys : informers[k] # i) /\ (\A a \in Threads : held[a] # i)}

(* enableInformer starts an informer and stores it, whatever is there. *)
EnableInformer(a) ==
    /\ pc[a] = "enable" /\ Unused # {}
    /\ LET i == CHOOSE i \in Unused : TRUE
       IN /\ stopCh' = [stopCh EXCEPT ![i] = "open"]
          /\ synced' = [synced EXCEPT ![i] = FALSE]
          /\ informers' = [informers EXCEPT ![key[a]] = i]
          /\ held' = [held EXCEPT ![a] = i]
    /\ Goto(a, "sync")
    /\ UNCHANGED <<crds, mem, key, job, todo>>

(* External: the first list of informer i is complete. *)
Sync(i) ==
    /\ stopCh[i] = "open" /\ ~synced[i]
    /\ synced' = [synced EXCEPT ![i] = TRUE]
    /\ UNCHANGED <<crds, mem, informers, stopCh, pc, key, held, job, todo>>

(* WaitForCacheSync returns true. *)
Synced(a) ==
    /\ pc[a] = "sync" /\ synced[held[a]]
    /\ IF a = "worker" THEN ReturnNil ELSE UNCHANGED <<dir, queued>>
    /\ Finish(a)
    /\ UNCHANGED <<crds, once, spoilt, informers, chans, todo>>

(* It returns false, for the other thread has stopped the informer. *)
NotSynced(a) ==
    /\ pc[a] = "sync" /\ stopCh[held[a]] = "closed"
    /\ IF a = "worker" THEN ReturnError ELSE UNCHANGED <<dir, queued>>
    /\ Finish(a)
    /\ UNCHANGED <<crds, once, spoilt, informers, chans, todo>>

-----------------------------------------------------------------------------
(* monitorInformers comes to the entry of k and finds it not synced. *)
Monitor(k) ==
    /\ pc["monitor"] = "idle"
    /\ informers[k] # 0 /\ ~synced[informers[k]]
    /\ key' = [key EXCEPT !["monitor"] = k]
    /\ Goto("monitor", "load")
    /\ UNCHANGED <<crds, mem, informers, chans, held, job, todo>>

(* The directory has another scaleTargetRef. *)
Changed(c, ref) == dir[c] \notin {None, ref}

(* Reconcile: getCRD, and StopForCRD, StopInformer for the old target, or Add. *)
Reconcile(c) ==
    /\ pc["worker"] = "idle" /\ queued[c] /\ phase[c] # "absent"
    /\ queued' = [queued EXCEPT ![c] = FALSE]
    /\ job' = [crd |-> c, ref |-> target[c], deleted |-> phase[c] = "deleting"]
    /\ IF phase[c] = "deleting"
       THEN /\ todo' = {k \in Keys : k[1] \in Matches[c] /\ informers[k] # 0}
            /\ Goto("worker", "range")
            /\ UNCHANGED key
       ELSE /\ key' = [key EXCEPT !["worker"] = <<c, IF Changed(c, target[c]) THEN dir[c] ELSE target[c]>>]
            /\ Goto("worker", IF Changed(c, target[c]) THEN "load" ELSE "add")
            /\ UNCHANGED todo
    /\ UNCHANGED <<crds, once, dir, spoilt, informers, chans, held>>

(* What the Once's function leaves: it has been consumed in vain, by a target that *)
(* was not found, or to good purpose if it was for the present target.             *)
Spoil(c, failed) ==
    spoilt' = [spoilt EXCEPT ![c] = failed \/ (@ /\ job.ref # target[c])]

(* Mutant: the key is made from the directory's entry. *)
AddByDirectory ==
    LET c == job.crd
        fresh == Changed(c, job.ref) \/ ~once[c]
        running == informers[<<c, job.ref>>] # 0
    IN /\ pc["worker"] = "add"
       /\ once' = [once EXCEPT ![c] = TRUE]
       /\ \/ /\ fresh /\ ~running /\ Spoil(c, FALSE)
             /\ key' = [key EXCEPT !["worker"] = <<c, dir[c]>>]
             /\ Goto("worker", "enable")
             /\ UNCHANGED <<dir, queued, held, job>>
          \/ fresh /\ ~running /\ Spoil(c, TRUE) /\ ReturnError /\ Finish("worker")
          \/ fresh /\ running /\ Spoil(c, FALSE) /\ ReturnNil /\ Finish("worker")
          \/ ~fresh /\ ReturnNil /\ Finish("worker") /\ UNCHANGED spoilt
       /\ UNCHANGED <<crds, informers, chans, todo>>

(* Mutant: the Once is not reset when the target has changed. *)
AddKeepsOnce ==
    LET c == job.crd
        k == <<c, job.ref>>
        fresh == ~once[c]
        running == informers[k] # 0
    IN /\ pc["worker"] = "add"
       /\ once' = [once EXCEPT ![c] = TRUE]
       /\ \/ /\ fresh /\ ~running /\ Spoil(c, FALSE)
             /\ key' = [key EXCEPT !["worker"] = k]
             /\ Goto("worker", "enable")
             /\ UNCHANGED <<dir, queued, held, job>>
          \/ fresh /\ ~running /\ Spoil(c, TRUE) /\ ReturnError /\ Finish("worker")
          \/ fresh /\ running /\ Spoil(c, FALSE) /\ ReturnNil /\ Finish("worker")
          \/ ~fresh /\ ReturnNil /\ Finish("worker") /\ UNCHANGED spoilt
       /\ UNCHANGED <<crds, informers, chans, todo>>

(* The Once, reset if the target has changed, and the Add in it.  This finds an     *)
(* informer; or verifyTargetExist finds the target, and it comes to enableInformer; *)
(* or there is no such target at the moment, or the Get fails, and the Once has     *)
(* been consumed all the same.                                                      *)
Add ==
    LET c == job.crd
        k == <<c, job.ref>>
        fresh == Changed(c, job.ref) \/ ~once[c]
        running == informers[k] # 0
    IN /\ pc["worker"] = "add"
       /\ once' = [once EXCEPT ![c] = TRUE]
       /\ \/ /\ fresh /\ ~running /\ Spoil(c, FALSE)
             /\ key' = [key EXCEPT !["worker"] = k]
             /\ Goto("worker", "enable")
             /\ UNCHANGED <<dir, queued, held, job>>
          \/ fresh /\ ~running /\ Spoil(c, TRUE) /\ ReturnError /\ Finish("worker")
          \/ fresh /\ running /\ Spoil(c, FALSE) /\ ReturnNil /\ Finish("worker")
          \/ ~fresh /\ ReturnNil /\ Finish("worker") /\ UNCHANGED spoilt
       /\ UNCHANGED <<crds, informers, chans, todo>>

(* StopForCRD goes on to another key. *)
StopNext(k) ==
    /\ pc["worker"] = "range" /\ k \in todo
    /\ todo' = todo \ {k}
    /\ key' = [key EXCEPT !["worker"] = k]
    /\ Goto("worker", "load")
    /\ UNCHANGED <<crds, mem, informers, chans, held, job>>

(* It is done: the Once is reset, the directory's entry and the finalizer go. *)
Finalized ==
    /\ pc["worker"] = "range" /\ todo = {}
    /\ once' = [once EXCEPT ![job.crd] = FALSE]
    /\ dir' = [dir EXCEPT ![job.crd] = None]
    /\ spoilt' = [spoilt EXCEPT ![job.crd] = FALSE]
    /\ phase' = [phase EXCEPT ![job.crd] = "absent"]
    /\ Finish("worker")
    /\ UNCHANGED <<target, deletes, changes, queued, informers, chans, todo>>

-----------------------------------------------------------------------------
(* External: users change ElastiServices. *)

Enqueue(c) == queued' = [queued EXCEPT ![c] = TRUE] /\ UNCHANGED <<once, dir>>

Delete(c) ==
    /\ phase[c] = "live" /\ deletes < MaxDeletes
    /\ phase' = [phase EXCEPT ![c] = "deleting"] /\ deletes' = deletes + 1
    /\ Enqueue(c)
    /\ UNCHANGED <<target, changes, spoilt, informers, chans, pc, key, held, job, todo>>

Create(c) ==
    /\ phase[c] = "absent"
    /\ phase' = [phase EXCEPT ![c] = "live"]
    /\ Enqueue(c)
    /\ UNCHANGED <<target, deletes, changes, spoilt, informers, chans, pc, key, held, job, todo>>

(* The change spoils the Once if the last one has not been reconciled yet. *)
Change(c, t) ==
    /\ phase[c] = "live" /\ target[c] # t /\ changes < MaxChanges
    /\ target' = [target EXCEPT ![c] = t] /\ changes' = changes + 1
    /\ spoilt' = [spoilt EXCEPT ![c] = @ \/ dir[c] # target[c]]
    /\ Enqueue(c)
    /\ UNCHANGED <<phase, deletes, informers, chans, pc, key, held, job, todo>>

-----------------------------------------------------------------------------
Step(a) ==
    \/ StopLoad(a) \/ StopClose(a) \/ Panic(a) \/ StopDelete(a)
    \/ EnableInformer(a) \/ Synced(a) \/ NotSynced(a)

WorkerStep == Step("worker") \/ Recovered \/ Add \/ (\E k \in Keys : StopNext(k)) \/ Finalized

Next ==
    \/ WorkerStep \/ Step("monitor")
    \/ \E k \in Keys : Monitor(k)
    \/ \E i \in Informers : Sync(i)
    \/ \E c \in Services : Reconcile(c) \/ Delete(c) \/ Create(c) \/ \E t \in Targets : Change(c, t)

Spec == Init /\ [][Next]_vars

(* The threads run, informers list their targets and the worker comes to all that is *)
(* queued.  The monitor is not for ever faster than the list of the informer that    *)
(* the worker waits for, nor than that wait: it comes every five seconds, and the    *)
(* wait looks every tenth of a second.                                               *)
Fairness ==
    /\ WF_vars(WorkerStep) /\ WF_vars(Step("monitor"))
    /\ \A i \in Informers : WF_vars(Sync(i))
    /\ SF_vars(pc["worker"] = "sync" /\ Sync(held["worker"])) /\ SF_vars(Synced("worker"))
    /\ \A c \in Services : SF_vars(Reconcile(c))

FairSpec == Spec /\ Fairness

-----------------------------------------------------------------------------
(* Properties. *)

(* The type invariant. *)
TypeOK ==
    /\ phase \in [Services -> {"absent", "live", "deleting"}] /\ target \in [Services -> Targets]
    /\ deletes \in 0..MaxDeletes /\ changes \in 0..MaxChanges
    /\ queued \in [Services -> BOOLEAN] /\ once \in [Services -> BOOLEAN]
    /\ dir \in [Services -> Targets \cup {None}]
    /\ informers \in [Keys -> Informers \cup {0}]
    /\ stopCh \in [Informers -> {"open", "closed"}] /\ synced \in [Informers -> BOOLEAN]
    /\ pc \in [Threads -> Labels] /\ key \in [Threads -> Keys \cup {NoKey}]
    /\ held \in [Threads -> Informers \cup {0}]
    /\ job \in [crd : Services \cup {None}, ref : Targets \cup {None}, deleted : BOOLEAN]
    /\ todo \subseteq Keys /\ spoilt \in [Services -> BOOLEAN]

(* An informer that was stopped does not stay in the map, where Add would take it *)
(* for running: the thread that closed it is about to delete the entry            *)
(* (StopInformer, Add).                                                           *)
ClosedIsBeingDeleted ==
    \A k \in Keys : informers[k] # 0 /\ stopCh[informers[k]] = "closed" =>
        \E a \in Threads : pc[a] = "delete" /\ key[a] = k

Watched(c) ==
    LET i == informers[<<c, target[c]>>]
    IN i # 0 /\ stopCh[i] = "open" /\ synced[i]

(* The name of c begins with that of another. *)
Exposed(c) == \E d \in Services \ {c} : c \in Matches[d]

(* There is an informer under the key, or the monitor is about to start one. *)
Kept(k) ==
    \/ informers[k] # 0
    \/ pc["monitor"] \in {"load", "close", "delete", "enable"} /\ key["monitor"] = k

(* An ElastiService is not lost: when it is neither queued nor being reconciled there *)
(* is an informer of its present target, or the monitor is restarting it.  The        *)
(* consumed Once and the directory's entry, which both keep Reconcile from starting   *)
(* an informer, are all that is left of one in three cases only: its name begins with *)
(* that of another (Exposed); its target was not found, or the Get failed, when the   *)
(* Once was consumed; or its scaleTargetRef was changed before the last change had    *)
(* been reconciled (spoilt), and nothing has been started since (opsCRD.go:134-181;   *)
(* informer.go:157-231, 270-273).                                                     *)
NeverLost ==
    \A c \in Services :
        phase[c] = "live" /\ ~queued[c] /\ job.crd # c
            => Exposed(c) \/ spoilt[c] \/ Kept(<<c, target[c]>>)

(* An ElastiService that stays is in the end watched for good by an informer of its *)
(* present target, however deletions, changes of the target and restarts by the     *)
(* monitor have interleaved before, but for the same three cases: its name begins   *)
(* with that of another; the last start found no target, or its Get failed; or the  *)
(* target changed before the last change had been reconciled, and none was started  *)
(* since (informer.go:157-176, 211-231, 270-273; opsCRD.go:134-181).                *)
LiveEventuallyWatched ==
    \A c \in Services : Exposed(c) \/ (<>[](phase[c] = "live" /\ ~spoilt[c]) => <>[]Watched(c))

(* What the comment of watchScaleTargetRef says, "Start the new informer for the new *)
(* ScaleTargetRef" (opsCRD.go:125-126), and the log of a Reconcile that returns nil,  *)
(* "Watch added for ScaleTargetRef" (elastiservice_controller.go:115): one that is    *)
(* neither queued nor being reconciled has an informer of its target, or the monitor  *)
(* is restarting it.                                                                  *)
AlwaysStarted ==
    \A c \in Services :
        phase[c] = "live" /\ ~queued[c] /\ job.crd # c => Kept(<<c, target[c]>>)
=============================================================================
