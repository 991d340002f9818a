------------------------ MODULE InformerManagerProofs ------------------------
(***************************************************************************)
(* Proofs about the map of informers, for any ElastiServices, targets and  *)
(* prefixes of names: what is in the map runs or is about to be deleted,   *)
(* and no ElastiService is left without an informer.                       *)
(***************************************************************************)
EXTENDS InformerManager, TLAPS

(* What a thread has in hand at each of its steps. *)
InHand ==
    /\ \A a \in Threads : pc[a] \in {"load", "close", "delete", "enable", "sync"} => key[a] \in Keys
    /\ \A a \in Threads : pc[a] = "close" => held[a] \in Informers
    /\ pc["worker"] # "idle" => job.crd \in Services /\ job.ref \in Targets

(* An informer has one entry, and a thread that is about to close one holds *)
(* the informer of its own key, or one that is no longer in the map.        *)
OneEntry ==
    /\ \A k, l \in Keys : informers[k] = informers[l] => k = l \/ informers[k] = 0
    /\ \A a \in Threads, k \in Keys : pc[a] = "close" /\ informers[k] = held[a] => k = key[a]

InfInd == TypeOK /\ InHand /\ OneEntry /\ ClosedIsBeingDeleted

(* The types of the state, one by one. *)
LEMMA Types ==
    ASSUME InfInd
    PROVE  /\ informers \in [Keys -> Informers \cup {0}] /\ stopCh \in [Informers -> {"open", "closed"}]
           /\ pc \in [Threads -> Labels] /\ key \in [Threads -> Keys \cup {NoKey}]
           /\ held \in [Threads -> Informers \cup {0}] /\ 0 \notin Informers
           /\ "worker" \in Threads /\ "monitor" \in Threads
BY InformerManagerAssumption DEF InfInd, TypeOK, Threads

(* A process that starts has no informers. *)
LEMMA InfIndInit == Init => InfInd
<1>. SUFFICES ASSUME Init PROVE InfInd
  OBVIOUS
<1>1. TypeOK
  BY InformerManagerAssumption DEF Init, TypeOK, Labels, NoJob
<1>2. InHand /\ OneEntry /\ ClosedIsBeingDeleted
  BY DEF Init, InHand, OneEntry, ClosedIsBeingDeleted, Threads
<1>. QED
  BY <1>1, <1>2 DEF InfInd

(* Nor has one that starts again. *)
LEMMA BootKeeps ==
    ASSUME TypeOK, Boot, UNCHANGED crds
    PROVE  InfInd'
<1>1. TypeOK'
  BY InformerManagerAssumption DEF Boot, TypeOK, Labels, NoJob, crds
<1>2. InHand' /\ OneEntry' /\ ClosedIsBeingDeleted'
  BY DEF Boot, InHand, OneEntry, ClosedIsBeingDeleted, Threads
<1>. QED
  BY <1>1, <1>2 DEF InfInd

(* The steps of either thread on its key. *)
LEMMA StepKeeps ==
    ASSUME InfInd, NEW a \in Threads, Step(a)
    PROVE  InfInd'
<1>0. /\ informers \in [Keys -> Informers \cup {0}] /\ stopCh \in [Informers -> {"open", "closed"}]
      /\ pc \in [Threads -> Labels] /\ key \in [Threads -> Keys \cup {NoKey}]
      /\ held \in [Threads -> Informers \cup {0}] /\ 0 \notin Informers
  BY Types
<1>. USE DEF Goto
<1>1. CASE StopLoad(a)
  <2>1. /\ held' = [held EXCEPT ![a] = informers[key[a]]]
        /\ pc' = [pc EXCEPT ![a] = IF informers[key[a]] = 0 THEN AfterStop(a) ELSE "close"]
        /\ AfterStop(a) \in {"enable", "range", "add"} /\ key[a] \in Keys /\ pc[a] = "load"
        /\ UNCHANGED <<crds, mem, informers, chans, key, job, todo>>
    BY <1>1 DEF StopLoad, AfterStop, InfInd, InHand
  <2>2. TypeOK'
    BY <1>0, <2>1 DEF InfInd, TypeOK, Labels, crds, mem, chans
  <2>3. InHand'
    BY <1>0, <2>1 DEF InfInd, InHand
  <2>4. OneEntry'
    BY <1>0, <2>1 DEF InfInd, OneEntry
  <2>5. ClosedIsBeingDeleted'
    BY <1>0, <2>1 DEF InfInd, ClosedIsBeingDeleted, chans
  <2>. QED
    BY <2>2, <2>3, <2>4, <2>5 DEF InfInd
<1>2. CASE StopClose(a)
  <2>1. /\ stopCh' = [stopCh EXCEPT ![held[a]] = "closed"]
        /\ pc' = [pc EXCEPT ![a] = "delete"] /\ pc[a] = "close"
        /\ held[a] \in Informers /\ key[a] \in Keys
        /\ UNCHANGED <<crds, mem, informers, synced, key, held, job, todo>>
    BY <1>2 DEF StopClose, InfInd, InHand
  <2>2. TypeOK'
    BY <1>0, <2>1 DEF InfInd, TypeOK, Labels, crds, mem
  <2>3. InHand' /\ OneEntry'
    BY <1>0, <2>1 DEF InfInd, InHand, OneEntry
  <2>4. ClosedIsBeingDeleted'
    BY <1>0, <2>1 DEF InfInd, OneEntry, ClosedIsBeingDeleted
  <2>. QED
    BY <2>2, <2>3, <2>4 DEF InfInd
<1>3. CASE Panic(a)
  BY <1>3, BootKeeps DEF Panic, InfInd
<1>4. CASE StopDelete(a)
  <2>1. /\ informers' = [informers EXCEPT ![key[a]] = 0] /\ held' = [held EXCEPT ![a] = 0]
        /\ pc' = [pc EXCEPT ![a] = AfterStop(a)] /\ pc[a] = "delete"
        /\ AfterStop(a) \in {"enable", "range", "add"} /\ key[a] \in Keys
        /\ UNCHANGED <<crds, mem, chans, key, job, todo>>
    BY <1>4 DEF StopDelete, AfterStop, InfInd, InHand
  <2>2. TypeOK'
    BY <1>0, <2>1 DEF InfInd, TypeOK, Labels, crds, mem, chans
  <2>3. InHand'
    BY <1>0, <2>1 DEF InfInd, InHand
  <2>4. OneEntry'
    BY <1>0, <2>1 DEF InfInd, InHand, OneEntry
  <2>5. ClosedIsBeingDeleted'
    BY <1>0, <2>1 DEF InfInd, ClosedIsBeingDeleted, chans
  <2>. QED
    BY <2>2, <2>3, <2>4, <2>5 DEF InfInd
<1>5. CASE EnableInformer(a)
  <2>. DEFINE i == CHOOSE i \in Unused : TRUE
  <2>1. i \in Unused
    BY <1>5 DEF EnableInformer
  <2>2. /\ stopCh' = [stopCh EXCEPT ![i] = "open"] /\ synced' = [synced EXCEPT ![i] = FALSE]
        /\ informers' = [informers EXCEPT ![key[a]] = i] /\ held' = [held EXCEPT ![a] = i]
        /\ pc' = [pc EXCEPT ![a] = "sync"] /\ pc[a] = "enable" /\ key[a] \in Keys
        /\ UNCHANGED <<crds, mem, key, job, todo>>
    BY <1>5 DEF EnableInformer, InfInd, InHand
  <2>. HIDE DEF i
  <2>3. /\ i \in Informers /\ \A k \in Keys : informers[k] # i
        /\ \A b \in Threads : held[b] # i
    BY <2>1 DEF Unused
  <2>4. TypeOK'
    BY <1>0, <2>2, <2>3 DEF InfInd, TypeOK, Labels, crds, mem
  <2>5. InHand'
    BY <1>0, <2>2, <2>3 DEF InfInd, InHand
  <2>6. OneEntry'
    BY <1>0, <2>2, <2>3 DEF InfInd, OneEntry
  <2>7. ClosedIsBeingDeleted'
    BY <1>0, <2>2, <2>3 DEF InfInd, ClosedIsBeingDeleted
  <2>. QED
    BY <2>4, <2>5, <2>6, <2>7 DEF InfInd
<1>6. CASE Synced(a) \/ NotSynced(a)
  <2>1. /\ pc' = [pc EXCEPT ![a] = "idle"] /\ pc[a] = "sync"
        /\ key' = [key EXCEPT ![a] = NoKey] /\ held' = [held EXCEPT ![a] = 0]
        /\ job' = IF a = "worker" THEN NoJob ELSE job
        /\ UNCHANGED <<crds, once, spoilt, informers, chans, todo>>
    BY <1>6 DEF Synced, NotSynced, Finish
  <2>2. dir' \in [Services -> Targets \cup {None}] /\ queued' \in [Services -> BOOLEAN]
    BY <1>6 DEF Synced, NotSynced, ReturnNil, ReturnError, InfInd, TypeOK
  <2>3. TypeOK'
    BY <1>0, <2>1, <2>2 DEF InfInd, TypeOK, Labels, NoJob, crds, chans
  <2>4. InHand'
    BY <1>0, <2>1 DEF InfInd, InHand, Threads
  <2>5. OneEntry' /\ ClosedIsBeingDeleted'
    BY <1>0, <2>1 DEF InfInd, OneEntry, ClosedIsBeingDeleted, chans
  <2>. QED
    BY <2>3, <2>4, <2>5 DEF InfInd
<1>. QED
  BY <1>1, <1>2, <1>3, <1>4, <1>5, <1>6 DEF Step

(* A step by which a thread that is not between close and delete takes up   *)
(* another key, or none.                                                    *)
LEMMA NewKeyKeeps ==
    ASSUME InfInd, UNCHANGED <<informers, chans>>, TypeOK',
           NEW a \in Threads, pc[a] # "delete", pc'[a] # "close",
           pc'[a] \in {"load", "delete", "enable", "sync"} => key'[a] \in Keys,
           \A b \in Threads \ {a} : pc'[b] = pc[b] /\ key'[b] = key[b] /\ held'[b] = held[b],
           pc'["worker"] # "idle" => job'.crd \in Services /\ job'.ref \in Targets
    PROVE  InfInd'
<1>1. InHand'
  BY DEF InfInd, InHand
<1>2. OneEntry'
  BY DEF InfInd, OneEntry
<1>3. ClosedIsBeingDeleted'
  BY DEF InfInd, ClosedIsBeingDeleted, chans
<1>. QED
  BY <1>1, <1>2, <1>3 DEF InfInd

(* The steps of Reconcile and of the monitor. *)
LEMMA ThreadKeeps ==
    ASSUME InfInd,
           \/ Recovered \/ Add \/ (\E k \in Keys : StopNext(k)) \/ Finalized
           \/ (\E k \in Keys : Monitor(k)) \/ (\E c \in Services : Reconcile(c))
    PROVE  InfInd'
<1>0. /\ pc \in [Threads -> Labels] /\ key \in [Threads -> Keys \cup {NoKey}]
      /\ held \in [Threads -> Informers \cup {0}] /\ dir \in [Services -> Targets \cup {None}]
      /\ queued \in [Services -> BOOLEAN] /\ once \in [Services -> BOOLEAN]
      /\ target \in [Services -> Targets] /\ None \notin Targets
      /\ "worker" \in Threads /\ "monitor" \in Threads
      /\ pc["worker"] # "idle" => job.crd \in Services /\ job.ref \in Targets
  BY Types, InformerManagerAssumption DEF InfInd, TypeOK, InHand
<1>. USE DEF Goto
<1>1. CASE Recovered
  <2>1. /\ pc' = [pc EXCEPT !["worker"] = "idle"] /\ pc["worker"] = "close"
        /\ key' = [key EXCEPT !["worker"] = NoKey] /\ held' = [held EXCEPT !["worker"] = 0]
        /\ job' = NoJob /\ queued' = [queued EXCEPT ![job.crd] = TRUE]
        /\ UNCHANGED <<crds, once, dir, spoilt, informers, chans, todo>>
    BY <1>1 DEF Recovered, Finish, ReturnError
  <2>2. TypeOK'
    BY <1>0, <2>1 DEF InfInd, TypeOK, Labels, NoJob, crds, chans
  <2>. QED
    BY <1>0, <2>1, <2>2, NewKeyKeeps
<1>2. CASE Add
  <2>1. /\ pc["worker"] = "add" /\ once' = [once EXCEPT ![job.crd] = TRUE]
        /\ UNCHANGED <<crds, informers, chans, todo>> /\ spoilt' \in [Services -> BOOLEAN]
    BY <1>2 DEF Add, Spoil, InfInd, TypeOK
  <2>2. CASE /\ key' = [key EXCEPT !["worker"] = <<job.crd, job.ref>>]
             /\ pc' = [pc EXCEPT !["worker"] = "enable"]
             /\ UNCHANGED <<dir, queued, held, job>>
    <3>1. <<job.crd, job.ref>> \in Keys
      BY <1>0, <2>1 DEF Keys
    <3>2. TypeOK'
      BY <1>0, <2>1, <2>2, <3>1 DEF InfInd, TypeOK, Labels, crds, chans
    <3>. QED
      BY <1>0, <2>1, <2>2, <3>1, <3>2, NewKeyKeeps
  <2>3. CASE (ReturnError \/ ReturnNil) /\ Finish("worker")
    <3>1. /\ pc' = [pc EXCEPT !["worker"] = "idle"]
          /\ key' = [key EXCEPT !["worker"] = NoKey] /\ held' = [held EXCEPT !["worker"] = 0]
          /\ job' = NoJob
      BY <2>3 DEF Finish
    <3>2. dir' \in [Services -> Targets \cup {None}] /\ queued' \in [Services -> BOOLEAN]
      BY <1>0, <2>1, <2>3 DEF ReturnError, ReturnNil
    <3>3. TypeOK'
      BY <1>0, <2>1, <3>1, <3>2 DEF InfInd, TypeOK, Labels, NoJob, crds, chans
    <3>. QED
      BY <1>0, <2>1, <3>1, <3>3, NewKeyKeeps
  <2>. QED
    BY <1>2, <2>2, <2>3 DEF Add
<1>3. ASSUME NEW k \in Keys, StopNext(k) PROVE InfInd'
  <2>1. TypeOK'
    BY <1>0, <1>3 DEF StopNext, InfInd, TypeOK, Labels, crds, mem, chans
  <2>. QED
    BY <1>0, <1>3, <2>1, NewKeyKeeps DEF StopNext
<1>4. CASE Finalized
  <2>1. /\ pc' = [pc EXCEPT !["worker"] = "idle"] /\ pc["worker"] = "range"
        /\ key' = [key EXCEPT !["worker"] = NoKey] /\ held' = [held EXCEPT !["worker"] = 0]
        /\ job' = NoJob
        /\ UNCHANGED <<target, deletes, changes, queued, informers, chans, todo>>
    BY <1>4 DEF Finalized, Finish
  <2>2. /\ once' \in [Services -> BOOLEAN] /\ dir' \in [Services -> Targets \cup {None}]
        /\ spoilt' \in [Services -> BOOLEAN]
        /\ phase' \in [Services -> {"absent", "live", "deleting"}]
    BY <1>0, <1>4 DEF Finalized, InfInd, TypeOK
  <2>3. TypeOK'
    BY <1>0, <2>1, <2>2 DEF InfInd, TypeOK, Labels, NoJob, chans
  <2>. QED
    BY <1>0, <2>1, <2>3, NewKeyKeeps
<1>5. ASSUME NEW k \in Keys, Monitor(k) PROVE InfInd'
  <2>1. TypeOK'
    BY <1>0, <1>5 DEF Monitor, InfInd, TypeOK, Labels, crds, mem, chans
  <2>. QED
    BY <1>0, <1>5, <2>1, NewKeyKeeps DEF Monitor
<1>6. ASSUME NEW c \in Services, Reconcile(c) PROVE InfInd'
  <2>1. /\ pc["worker"] = "idle" /\ queued' = [queued EXCEPT ![c] = FALSE]
        /\ job' = [crd |-> c, ref |-> target[c], deleted |-> phase[c] = "deleting"]
        /\ UNCHANGED <<crds, once, dir, spoilt, informers, chans, held>>
    BY <1>6 DEF Reconcile
  <2>2. job'.crd \in Services /\ job'.ref \in Targets /\ job'.deleted \in BOOLEAN
    BY <1>0, <2>1
  <2>3. /\ todo' \subseteq Keys /\ key' \in [Threads -> Keys \cup {NoKey}]
        /\ pc' \in [Threads -> Labels] /\ pc'["worker"] \in {"range", "load", "add"}
        /\ pc'["worker"] = "load" => key'["worker"] \in Keys
        /\ pc'["monitor"] = pc["monitor"] /\ key'["monitor"] = key["monitor"]
    <3>1. CASE phase[c] = "deleting"
      BY <1>0, <1>6, <3>1 DEF Reconcile, Labels
    <3>2. CASE phase[c] # "deleting"
      <4>. DEFINE ref == IF Changed(c, target[c]) THEN dir[c] ELSE target[c]
      <4>1. ref \in Targets
        BY <1>0 DEF Changed
      <4>2. <<c, ref>> \in Keys
        BY <4>1 DEF Keys
      <4>3. key' = [key EXCEPT !["worker"] = <<c, ref>>] /\ todo' = todo
        BY <1>6, <3>2 DEF Reconcile
      <4>4. \E l \in {"load", "add"} : pc' = [pc EXCEPT !["worker"] = l]
        BY <1>6, <3>2 DEF Reconcile
      <4>. HIDE DEF ref
      <4>. QED
        BY <1>0, <4>2, <4>3, <4>4 DEF Labels, InfInd, TypeOK
    <3>. QED
      BY <3>1, <3>2
  <2>4. TypeOK'
    BY <1>0, <2>1, <2>2, <2>3 DEF InfInd, TypeOK, crds, chans
  <2>. QED
    BY <1>0, <2>1, <2>2, <2>3, <2>4, NewKeyKeeps DEF Threads
<1>. QED
  BY <1>1, <1>2, <1>3, <1>4, <1>5, <1>6

(* The cluster's steps leave the map and the threads alone. *)
LEMMA ClusterKeeps ==
    ASSUME InfInd,
           \/ \E i \in Informers : Sync(i)
           \/ \E c \in Services : Delete(c) \/ Create(c) \/ \E t \in Targets : Change(c, t)
    PROVE  InfInd'
<1>1. UNCHANGED <<informers, stopCh, pc, key, held, job>>
  BY DEF Sync, Delete, Create, Change, chans
<1>2. TypeOK'
  <2>1. ASSUME NEW i \in Informers, Sync(i) PROVE TypeOK'
    BY <2>1 DEF Sync, InfInd, TypeOK, crds, mem
  <2>2. ASSUME NEW c \in Services, Delete(c) PROVE TypeOK'
    BY <2>2, InformerManagerAssumption DEF Delete, Enqueue, InfInd, TypeOK, chans
  <2>3. ASSUME NEW c \in Services, Create(c) PROVE TypeOK'
    BY <2>3 DEF Create, Enqueue, InfInd, TypeOK, chans
  <2>4. ASSUME NEW c \in Services, NEW t \in Targets, Change(c, t) PROVE TypeOK'
    BY <2>4, InformerManagerAssumption DEF Change, Enqueue, InfInd, TypeOK, chans
  <2>. QED
    BY <2>1, <2>2, <2>3, <2>4
<1>. QED
  BY <1>1, <1>2 DEF InfInd, InHand, OneEntry, ClosedIsBeingDeleted

(* The invariant is inductive. *)
LEMMA InfIndNext == InfInd /\ [Next]_vars => InfInd'
<1>1. ASSUME InfInd, Next PROVE InfInd'
  BY <1>1, StepKeeps, ThreadKeeps, ClusterKeeps DEF Next, WorkerStep, Threads
<1>2. ASSUME InfInd, UNCHANGED vars PROVE InfInd'
  BY <1>2 DEF InfInd, TypeOK, InHand, OneEntry, ClosedIsBeingDeleted, vars, crds, mem, chans
<1>. QED
  BY <1>1, <1>2

(* Type correctness of the informer manager and its users. *)
THEOREM InformerManagerTypeOK == Spec => []TypeOK
<1>1. InfInd => TypeOK
  BY DEF InfInd
<1>. QED
  BY <1>1, InfIndInit, InfIndNext, PTL DEF Spec

(* However the worker and the monitor interleave on the map, an informer    *)
(* that was stopped is in it only until the thread that closed it deletes   *)
(* the entry: Add never takes a stopped informer for a running one for good *)
(* (informer.go:180-207, 250-285).                                          *)
THEOREM InformerManagerClosedIsBeingDeleted == Spec => []ClosedIsBeingDeleted
<1>1. InfInd => ClosedIsBeingDeleted
  BY DEF InfInd
<1>. QED
  BY <1>1, InfIndInit, InfIndNext, PTL DEF Spec

-----------------------------------------------------------------------------
(* No ElastiService is lost. *)

(* A deleted ElastiService has neither its Once nor its entry in the directory. *)
ForgottenOnceGone == \A c \in Services : phase[c] = "absent" => ~once[c] /\ dir[c] = None

(* The worker of finalizeCRD stops informers of its ElastiService, or of one whose *)
(* name begins like it, while that is being deleted.                               *)
StoppingFits ==
    pc["worker"] # "idle" /\ job.deleted =>
        /\ phase[job.crd] = "deleting"
        /\ pc["worker"] \in {"range", "load", "close", "delete"}
        /\ pc["worker"] # "range" => key["worker"][1] \in Matches[job.crd]
        /\ \A k \in todo : k[1] \in Matches[job.crd]

(* The worker of watchScaleTargetRef stops the informer of the directory's target *)
(* when that is no longer the one of the spec, and starts the one of the spec as  *)
(* it was read, which has not changed since or is queued; if it has changed and   *)
(* the directory does not have it, the change came too early.                     *)
WatchingFits ==
    pc["worker"] # "idle" /\ ~job.deleted =>
        LET c == job.crd
        IN /\ phase[c] # "absent" /\ pc["worker"] # "range"
           /\ dir[c] # job.ref /\ target[c] # job.ref => spoilt[c]
           /\ target[c] # job.ref => queued[c]
           /\ pc["worker"] \in {"load", "close", "delete"} =>
                  key["worker"] = <<c, dir[c]>> /\ dir[c] \notin {None, job.ref}
           /\ pc["worker"] \in {"enable", "sync"} => key["worker"] = <<c, job.ref>> /\ once[c]
           /\ pc["worker"] = "sync" => Exposed(c) \/ Kept(<<c, job.ref>>)

(* An ElastiService that nobody is to reconcile has been. *)
Reconciled ==
    \A c \in Services :
        phase[c] = "live" /\ ~queued[c] /\ job.crd # c => once[c] /\ dir[c] = target[c]

(* A consumed Once that is not spoilt stands for an informer, unless the directory *)
(* has another target, in which case the Once will be reset.                       *)
OnceIsKept ==
    \A c \in Services :
        phase[c] = "live" /\ once[c] /\ dir[c] \in {None, target[c]} /\ ~spoilt[c] =>
            \/ Exposed(c) \/ Kept(<<c, target[c]>>)
            \/ pc["worker"] = "enable" /\ key["worker"] = <<c, target[c]>>

LostInd ==
    /\ pc["worker"] = "idle" => job = NoJob
    /\ ForgottenOnceGone /\ StoppingFits /\ WatchingFits /\ Reconciled /\ OnceIsKept

(* The types of what LostInd speaks of. *)
LEMMA LostTypes ==
    ASSUME InfInd
    PROVE  /\ phase \in [Services -> {"absent", "live", "deleting"}] /\ target \in [Services -> Targets]
           /\ queued \in [Services -> BOOLEAN] /\ once \in [Services -> BOOLEAN]
           /\ dir \in [Services -> Targets \cup {None}] /\ None \notin Targets /\ None \notin Services
           /\ spoilt \in [Services -> BOOLEAN]
           /\ pc["worker"] # "idle" => job.crd \in Services /\ job.ref \in Targets
  BY InformerManagerAssumption DEF InfInd, TypeOK, InHand

(* A process that starts has everything queued. *)
LEMMA BootLost ==
    ASSUME InfInd, LostInd, Boot, UNCHANGED crds
    PROVE  LostInd'
<1>1. /\ phase' = phase /\ once' = [c \in Services |-> FALSE] /\ dir' = [c \in Services |-> None]
      /\ queued' = [c \in Services |-> phase[c] # "absent"]
      /\ pc'["worker"] = "idle" /\ job' = NoJob
  BY DEF Boot, crds, Threads
<1>2. ForgottenOnceGone' /\ StoppingFits' /\ WatchingFits' /\ Reconciled' /\ OnceIsKept'
  BY <1>1 DEF ForgottenOnceGone, StoppingFits, WatchingFits, Reconciled, OnceIsKept
<1>. QED
  BY <1>1, <1>2 DEF LostInd

(* What is kept stays so while the monitor restarts it. *)
LEMMA KeptByMonitor ==
    ASSUME InfInd, Step("monitor") \/ \E l \in Keys : Monitor(l), ~Panic("monitor"), NEW k \in Keys, Kept(k)
    PROVE  Kept(k)'
<1>0. /\ informers \in [Keys -> Informers \cup {0}] /\ pc \in [Threads -> Labels] /\ 0 \notin Informers
      /\ "monitor" \in Threads /\ key \in [Threads -> Keys \cup {NoKey}]
  BY Types
<1>. USE DEF Goto, Kept
<1>1. CASE StopLoad("monitor") \/ StopClose("monitor")
  BY <1>0, <1>1 DEF StopLoad, StopClose, AfterStop
<1>2. CASE StopDelete("monitor")
  BY <1>0, <1>2 DEF StopDelete, AfterStop
<1>3. CASE EnableInformer("monitor")
  <2>. DEFINE i == CHOOSE i \in Unused : TRUE
  <2>1. i \in Informers
    BY <1>3 DEF EnableInformer, Unused
  <2>2. informers' = [informers EXCEPT ![key["monitor"]] = i]
    BY <1>3 DEF EnableInformer
  <2>. HIDE DEF i
  <2>. QED
    BY <1>0, <2>1, <2>2
<1>4. CASE Synced("monitor") \/ NotSynced("monitor") \/ \E l \in Keys : Monitor(l)
  BY <1>0, <1>4 DEF Synced, NotSynced, Monitor
<1>. QED
  BY <1>1, <1>2, <1>3, <1>4 DEF Step

(* The worker loses only what it deletes itself. *)
LEMMA KeptByWorker ==
    ASSUME InfInd, Step("worker"), ~Panic("worker"), NEW k \in Keys, Kept(k),
           pc["worker"] = "delete" => key["worker"] # k
    PROVE  Kept(k)'
<1>0. /\ informers \in [Keys -> Informers \cup {0}] /\ pc \in [Threads -> Labels] /\ 0 \notin Informers
      /\ "monitor" \in Threads /\ "worker" \in Threads /\ key \in [Threads -> Keys \cup {NoKey}]
  BY Types
<1>1. pc'["monitor"] = pc["monitor"] /\ key'["monitor"] = key["monitor"]
  BY <1>0 DEF Step, StopLoad, StopClose, StopDelete, EnableInformer, Synced, NotSynced, Finish, Goto
<1>2. informers'[k] = 0 => informers[k] = 0
  <2>1. CASE StopDelete("worker")
    BY <1>0, <2>1 DEF StopDelete
  <2>2. CASE EnableInformer("worker")
    <3>. DEFINE i == CHOOSE i \in Unused : TRUE
    <3>1. i \in Informers
      BY <2>2 DEF EnableInformer, Unused
    <3>2. informers' = [informers EXCEPT ![key["worker"]] = i]
      BY <2>2 DEF EnableInformer
    <3>. HIDE DEF i
    <3>. QED
      BY <1>0, <3>1, <3>2
  <2>3. CASE UNCHANGED informers
    BY <2>3
  <2>. QED
    BY <2>1, <2>2, <2>3 DEF Step, StopLoad, StopClose, Synced, NotSynced
<1>. QED
  BY <1>1, <1>2 DEF Kept

(* The monitor keeps the invariant. *)
LEMMA MonitorLost ==
    ASSUME InfInd, LostInd, Step("monitor") \/ \E l \in Keys : Monitor(l), ~Panic("monitor")
    PROVE  LostInd'
<1>0. /\ pc \in [Threads -> Labels] /\ key \in [Threads -> Keys \cup {NoKey}]
      /\ "monitor" \in Threads /\ "worker" \in Threads
  BY Types
<1>1. UNCHANGED <<phase, target, queued, once, dir, spoilt, job, todo>>
  BY DEF Step, StopLoad, StopClose, StopDelete, EnableInformer, Synced, NotSynced, Monitor, Finish, crds, mem
<1>2. pc'["worker"] = pc["worker"] /\ key'["worker"] = key["worker"]
  BY <1>0 DEF Step, StopLoad, StopClose, StopDelete, EnableInformer, Synced, NotSynced, Monitor, Finish, Goto
<1>3. \A k \in Keys : Kept(k) => Kept(k)'
  BY KeptByMonitor
<1>4. WatchingFits'
  <2>1. pc["worker"] # "idle" => <<job.crd, job.ref>> \in Keys
    BY LostTypes DEF Keys
  <2>. QED
    BY <1>1, <1>2, <1>3, <2>1 DEF LostInd, WatchingFits
<1>5. OnceIsKept'
  <2>1. \A c \in Services : <<c, target[c]>> \in Keys
    BY LostTypes DEF Keys
  <2>. QED
    BY <1>1, <1>2, <1>3, <2>1 DEF LostInd, OnceIsKept
<1>6. ForgottenOnceGone' /\ StoppingFits' /\ Reconciled'
  BY <1>1, <1>2 DEF LostInd, ForgottenOnceGone, StoppingFits, Reconciled
<1>. QED
  BY <1>1, <1>2, <1>4, <1>5, <1>6 DEF LostInd

(* The worker does not delete what an ElastiService that stays needs. *)
LEMMA NotDeleted ==
    ASSUME InfInd, LostInd, pc["worker"] = "delete", NEW c \in Services,
           phase[c] = "live", dir[c] \in {None, target[c]}, ~spoilt[c], ~Exposed(c)
    PROVE  key["worker"] # <<c, target[c]>>
<1>. SUFFICES ASSUME key["worker"] = <<c, target[c]>> PROVE FALSE
  OBVIOUS
<1>0. job.crd \in Services
  BY LostTypes
<1>1. CASE job.deleted
  <2>1. c \in Matches[job.crd] /\ phase[job.crd] = "deleting"
    BY <1>1 DEF LostInd, StoppingFits
  <2>. QED
    BY <1>0, <2>1 DEF Exposed
<1>2. CASE ~job.deleted
  BY <1>2, LostTypes DEF LostInd, WatchingFits
<1>. QED
  BY <1>1, <1>2

(* The steps of StopInformer and enableInformer in the worker. *)
LEMMA WorkerStopLost ==
    ASSUME InfInd, LostInd,
           StopLoad("worker") \/ StopClose("worker") \/ StopDelete("worker") \/ EnableInformer("worker")
    PROVE  LostInd'
<1>0. /\ pc \in [Threads -> Labels] /\ key \in [Threads -> Keys \cup {NoKey}]
      /\ "monitor" \in Threads /\ "worker" \in Threads
  BY Types
<1>1. UNCHANGED <<phase, target, queued, once, dir, spoilt, job, todo, key>>
  BY DEF StopLoad, StopClose, StopDelete, EnableInformer, crds, mem
<1>2. /\ pc["worker"] \in {"load", "close", "delete"} =>
            pc'["worker"] \in {"close", "delete"} \/ pc'["worker"] = IF job.deleted THEN "range" ELSE "add"
      /\ pc["worker"] = "enable" => pc'["worker"] = "sync"
      /\ pc["worker"] \in {"load", "close", "delete", "enable"}
  BY <1>0 DEF StopLoad, StopClose, StopDelete, EnableInformer, Goto, AfterStop
<1>3. ~Panic("worker")
  <2>1. ~StopClose("worker") \/ ~Panic("worker")
    BY DEF StopClose, Panic
  <2>. QED
    BY <2>1 DEF StopLoad, StopDelete, EnableInformer, Panic
<1>4. \A k \in Keys : Kept(k) /\ (pc["worker"] = "delete" => key["worker"] # k) => Kept(k)'
  BY <1>3, KeptByWorker DEF Step
<1>5. \A k \in Keys : pc["worker"] = "enable" /\ key["worker"] = k => Kept(k)'
  <2>. SUFFICES ASSUME pc["worker"] = "enable" PROVE informers'[key["worker"]] # 0
    BY DEF Kept
  <2>. DEFINE i == CHOOSE i \in Unused : TRUE
  <2>1. i \in Informers /\ informers' = [informers EXCEPT ![key["worker"]] = i]
    BY DEF EnableInformer, Unused, StopLoad, StopClose, StopDelete
  <2>. HIDE DEF i
  <2>2. key["worker"] \in Keys /\ 0 \notin Informers /\ informers \in [Keys -> Informers \cup {0}]
    BY <1>0, Types DEF InfInd, InHand
  <2>. QED
    BY <2>1, <2>2
<1>6. WatchingFits'
  <2>. SUFFICES ASSUME ~job.deleted PROVE WatchingFits'
    BY <1>1 DEF WatchingFits
  <2>1. WatchingFits /\ pc["worker"] # "idle"
    BY <1>2 DEF LostInd
  <2>2. pc'["worker"] = "sync" => pc["worker"] = "enable"
    BY <1>2
  <2>3. pc'["worker"] = "sync" => Kept(<<job.crd, job.ref>>)'
    <3>1. <<job.crd, job.ref>> \in Keys
      BY <2>1, LostTypes DEF Keys
    <3>. QED
      BY <1>1, <1>5, <2>1, <2>2, <3>1 DEF WatchingFits
  <2>. QED
    BY <1>1, <1>2, <2>1, <2>3 DEF WatchingFits
<1>7. OnceIsKept'
  <2>. SUFFICES ASSUME NEW c \in Services, phase[c] = "live", once[c], dir[c] \in {None, target[c]},
                       ~spoilt[c], ~Exposed(c)
                PROVE  Kept(<<c, target[c]>>)'
    BY <1>1 DEF OnceIsKept
  <2>1. <<c, target[c]>> \in Keys
    BY LostTypes DEF Keys
  <2>2. CASE Kept(<<c, target[c]>>)
    BY <1>1, <1>4, <2>1, <2>2, NotDeleted
  <2>3. CASE ~Kept(<<c, target[c]>>)
    <3>1. pc["worker"] = "enable" /\ key["worker"] = <<c, target[c]>>
      BY <2>3 DEF LostInd, OnceIsKept
    <3>. QED
      BY <1>1, <1>5, <2>1, <3>1
  <2>. QED
    BY <2>2, <2>3
<1>8. StoppingFits'
  BY <1>1, <1>2 DEF LostInd, StoppingFits
<1>9. ForgottenOnceGone' /\ Reconciled'
  BY <1>1 DEF LostInd, ForgottenOnceGone, Reconciled
<1>. QED
  BY <1>2, <1>6, <1>7, <1>8, <1>9 DEF LostInd

(* What is kept does not change while nobody touches the map and the monitor rests. *)
LEMMA KeptSame ==
    ASSUME informers' = informers, pc'["monitor"] = pc["monitor"], key'["monitor"] = key["monitor"]
    PROVE  \A k \in Keys : Kept(k)' <=> Kept(k)
  BY DEF Kept

(* watchScaleTargetRef returns: with an error, or with an informer to show for the Once. *)
LEMMA ReturnLost ==
    ASSUME InfInd, LostInd, pc["worker"] # "idle", ~job.deleted, Finish("worker"),
           UNCHANGED <<crds, informers>>,
           (ReturnNil /\ once'[job.crd]) \/ ReturnError,
           \A d \in Services : d # job.crd => once'[d] = once[d] /\ spoilt'[d] = spoilt[d],
           phase[job.crd] = "live" /\ once'[job.crd] /\ dir'[job.crd] \in {None, target[job.crd]}
             /\ ~spoilt'[job.crd] => Exposed(job.crd) \/ Kept(<<job.crd, target[job.crd]>>)
    PROVE  LostInd'
<1>. DEFINE c == job.crd
<1>0. /\ pc \in [Threads -> Labels] /\ key \in [Threads -> Keys \cup {NoKey}]
      /\ "monitor" \in Threads /\ "worker" \in Threads
  BY Types
<1>1. /\ c \in Services /\ job.ref \in Targets /\ dir \in [Services -> Targets \cup {None}]
      /\ queued \in [Services -> BOOLEAN] /\ \A d \in Services : <<d, target[d]>> \in Keys
  BY LostTypes DEF Keys
<1>2. /\ pc'["worker"] = "idle" /\ job' = NoJob /\ phase' = phase /\ target' = target
      /\ pc'["monitor"] = pc["monitor"] /\ key'["monitor"] = key["monitor"]
  BY <1>0 DEF Finish, Goto, crds
<1>3. \A d \in Services : d # c => /\ once'[d] = once[d] /\ dir'[d] = dir[d]
                                   /\ queued'[d] = queued[d] /\ spoilt'[d] = spoilt[d]
  BY <1>1 DEF ReturnNil, ReturnError
<1>4. \/ dir'[c] = job.ref /\ once'[c] /\ queued'[c] = queued[c]
      \/ queued'[c] /\ dir'[c] = dir[c]
  BY <1>1 DEF ReturnNil, ReturnError
<1>5. WatchingFits
  BY DEF LostInd
<1>6. ForgottenOnceGone'
  BY <1>2, <1>3, <1>5 DEF LostInd, ForgottenOnceGone, WatchingFits
<1>7. Reconciled'
  <2>. SUFFICES ASSUME NEW d \in Services, phase[d] = "live", ~queued'[d] PROVE once'[d] /\ dir'[d] = target[d]
    BY <1>2 DEF Reconciled
  <2>1. CASE d = c
    BY <1>4, <1>5, <2>1 DEF WatchingFits
  <2>2. CASE d # c
    BY <1>3, <2>2 DEF LostInd, Reconciled
  <2>. QED
    BY <2>1, <2>2
<1>8. OnceIsKept'
  <2>. SUFFICES ASSUME NEW d \in Services, phase[d] = "live", once'[d], dir'[d] \in {None, target[d]},
                       ~spoilt'[d], ~Exposed(d)
                PROVE  Kept(<<d, target[d]>>)'
    BY <1>2 DEF OnceIsKept
  <2>1. Kept(<<d, target[d]>>)
    <3>1. CASE d = c
      BY <3>1
    <3>2. CASE d # c
      <4>1. pc["worker"] = "enable" => key["worker"] # <<d, target[d]>>
        BY <1>5, <3>2 DEF WatchingFits
      <4>. QED
        BY <1>3, <3>2, <4>1 DEF LostInd, OnceIsKept
    <3>. QED
      BY <3>1, <3>2
  <2>. QED
    BY <1>1, <1>2, <2>1, KeptSame
<1>9. StoppingFits' /\ WatchingFits'
  BY <1>2 DEF StoppingFits, WatchingFits
<1>. QED
  BY <1>2, <1>6, <1>7, <1>8, <1>9 DEF LostInd

(* The wait for the first list ends, or close has panicked and was recovered from. *)
LEMMA WaitLost ==
    ASSUME InfInd, LostInd, Synced("worker") \/ NotSynced("worker") \/ Recovered
    PROVE  LostInd'
<1>1. /\ pc["worker"] \in {"sync", "close"} /\ UNCHANGED <<once, spoilt>> /\ Finish("worker")
      /\ UNCHANGED <<crds, informers>>
      /\ (pc["worker"] = "sync" /\ ReturnNil) \/ ReturnError
      /\ pc["worker"] = "close" => ~job.deleted
  BY DEF Synced, NotSynced, Recovered
<1>2. ~job.deleted
  BY <1>1 DEF LostInd, StoppingFits
<1>3. /\ job.crd \in Services /\ job.ref \in Targets /\ None \notin Targets
      /\ dir \in [Services -> Targets \cup {None}]
  BY <1>1, LostTypes
<1>4. pc["worker"] = "sync" => once[job.crd] /\ (Exposed(job.crd) \/ Kept(<<job.crd, job.ref>>))
  BY <1>2 DEF LostInd, WatchingFits
<1>5. phase[job.crd] = "live" /\ once'[job.crd] /\ dir'[job.crd] \in {None, target[job.crd]}
        /\ ~spoilt'[job.crd] => Exposed(job.crd) \/ Kept(<<job.crd, target[job.crd]>>)
  <2>1. CASE pc["worker"] = "sync" /\ ReturnNil
    BY <1>3, <1>4, <2>1 DEF ReturnNil
  <2>2. CASE ReturnError
    <3>1. UNCHANGED <<dir, once, spoilt>> /\ pc["worker"] # "enable"
      BY <1>1, <2>2 DEF ReturnError
    <3>. QED
      BY <1>3, <3>1 DEF LostInd, OnceIsKept
  <2>. QED
    BY <1>1, <2>1, <2>2
<1>. QED
  BY <1>1, <1>2, <1>4, <1>5, ReturnLost

(* Add leaves the Once consumed only with an informer under the key, with one to *)
(* be started, or spoilt.                                                        *)
LEMMA AddLost ==
    ASSUME InfInd, LostInd, Add
    PROVE  LostInd'
<1>. DEFINE c == job.crd
            k == <<c, job.ref>>
            fresh == Changed(c, job.ref) \/ ~once[c]
<1>0. /\ pc \in [Threads -> Labels] /\ key \in [Threads -> Keys \cup {NoKey}]
      /\ "monitor" \in Threads /\ "worker" \in Threads
  BY Types
<1>1. /\ pc["worker"] = "add" /\ once' = [once EXCEPT ![c] = TRUE]
      /\ UNCHANGED <<crds, informers, chans, todo>>
  BY DEF Add
<1>2. /\ c \in Services /\ job.ref \in Targets /\ None \notin Targets /\ None \notin Services
      /\ dir \in [Services -> Targets \cup {None}] /\ spoilt \in [Services -> BOOLEAN]
      /\ once \in [Services -> BOOLEAN] /\ \A d \in Services : <<d, target[d]>> \in Keys
  BY <1>1, LostTypes DEF Keys
<1>3. ~job.deleted /\ WatchingFits
  BY <1>1 DEF LostInd, StoppingFits
<1>4. once'[c] /\ \A d \in Services : d # c => once'[d] = once[d] /\ spoilt'[d] = spoilt[d]
  BY <1>1, <1>2 DEF Add, Spoil
<1>5. /\ phase[c] # "absent" /\ (target[c] # job.ref => queued[c])
      /\ dir[c] # job.ref /\ target[c] # job.ref => spoilt[c]
  BY <1>1, <1>3 DEF WatchingFits
<1>6. CASE /\ Spoil(c, FALSE) /\ key' = [key EXCEPT !["worker"] = k]
           /\ pc' = [pc EXCEPT !["worker"] = "enable"] /\ UNCHANGED <<dir, queued, held, job>>
  <2>1. /\ phase' = phase /\ target' = target /\ pc'["worker"] = "enable" /\ key'["worker"] = k
        /\ pc'["monitor"] = pc["monitor"] /\ key'["monitor"] = key["monitor"]
    BY <1>0, <1>1, <1>6 DEF crds
  <2>2. target[c] # job.ref => spoilt'[c] = spoilt[c]
    BY <1>2, <1>6 DEF Spoil
  <2>3. WatchingFits'
    BY <1>3, <1>4, <1>5, <1>6, <2>1, <2>2 DEF WatchingFits
  <2>4. ForgottenOnceGone' /\ Reconciled' /\ StoppingFits'
    BY <1>3, <1>4, <1>5, <1>6, <2>1 DEF LostInd, ForgottenOnceGone, Reconciled, StoppingFits
  <2>5. OnceIsKept'
    <3>. SUFFICES ASSUME NEW d \in Services, phase[d] = "live", once'[d], dir[d] \in {None, target[d]},
                         ~spoilt'[d], ~Exposed(d)
                  PROVE  Kept(<<d, target[d]>>)' \/ k = <<d, target[d]>>
      BY <1>6, <2>1 DEF OnceIsKept
    <3>1. CASE d = c
      BY <1>2, <1>5, <2>2, <3>1
    <3>2. CASE d # c
      <4>1. Kept(<<d, target[d]>>)
        BY <1>1, <1>4, <3>2 DEF LostInd, OnceIsKept
      <4>. QED
        BY <1>1, <1>2, <2>1, <4>1, KeptSame
    <3>. QED
      BY <3>1, <3>2
  <2>. QED
    BY <2>1, <2>3, <2>4, <2>5 DEF LostInd
<1>7. CASE Spoil(c, TRUE) /\ ReturnError /\ Finish("worker")
  <2>1. spoilt'[c]
    BY <1>2, <1>7 DEF Spoil
  <2>. QED
    BY <1>1, <1>3, <1>4, <1>7, <2>1, ReturnLost
<1>8. CASE informers[k] # 0 /\ ReturnNil /\ Finish("worker")
  <2>1. dir'[c] = job.ref
    BY <1>2, <1>8 DEF ReturnNil
  <2>2. Kept(k)
    BY <1>8 DEF Kept
  <2>. QED
    BY <1>1, <1>2, <1>3, <1>4, <1>8, <2>1, <2>2, ReturnLost
<1>9. CASE ~fresh /\ ReturnNil /\ Finish("worker") /\ spoilt' = spoilt
  <2>1. dir'[c] = job.ref
    BY <1>2, <1>9 DEF ReturnNil
  <2>2. dir[c] \in {None, job.ref} /\ once[c]
    BY <1>9 DEF Changed
  <2>3. phase[c] = "live" /\ job.ref = target[c] /\ ~spoilt[c] => Exposed(c) \/ Kept(<<c, target[c]>>)
    BY <1>1, <1>2, <2>2 DEF LostInd, OnceIsKept
  <2>. QED
    BY <1>1, <1>2, <1>3, <1>4, <1>9, <2>1, <2>3, ReturnLost
<1>. QED
  BY <1>6, <1>7, <1>8, <1>9 DEF Add, Goto

(* Reconcile begins, and StopForCRD goes on to the next key. *)
LEMMA BeginLost ==
    ASSUME InfInd, LostInd, (\E c \in Services : Reconcile(c)) \/ (\E k \in Keys : StopNext(k))
    PROVE  LostInd'
<1>0. /\ pc \in [Threads -> Labels] /\ key \in [Threads -> Keys \cup {NoKey}]
      /\ "monitor" \in Threads /\ "worker" \in Threads
  BY Types
<1>1. /\ dir \in [Services -> Targets \cup {None}] /\ queued \in [Services -> BOOLEAN]
      /\ \A d \in Services : <<d, target[d]>> \in Keys
  BY LostTypes DEF Keys
<1>2. ASSUME NEW c \in Services, Reconcile(c) PROVE LostInd'
  <2>1. /\ UNCHANGED <<phase, target, once, dir, spoilt, informers>> /\ pc["worker"] = "idle" /\ phase[c] # "absent"
        /\ job' = [crd |-> c, ref |-> target[c], deleted |-> phase[c] = "deleting"]
        /\ \A d \in Services : d # c => queued'[d] = queued[d]
    BY <1>1, <1>2 DEF Reconcile, crds
  <2>2. job'.crd = c /\ job'.ref = target[c] /\ (job'.deleted <=> phase[c] = "deleting")
    BY <2>1
  <2>3. pc'["monitor"] = pc["monitor"] /\ key'["monitor"] = key["monitor"]
    BY <1>0, <1>2 DEF Reconcile, Goto
  <2>4. CASE phase[c] = "deleting"
    <3>1. pc'["worker"] = "range" /\ \A k \in todo' : k[1] \in Matches[c]
      BY <1>0, <1>2, <2>4 DEF Reconcile, Goto
    <3>. QED
      <4>1. StoppingFits' /\ WatchingFits'
        BY <2>1, <2>2, <2>4, <3>1 DEF StoppingFits, WatchingFits
      <4>2. ForgottenOnceGone' /\ Reconciled'
        <5>1. job.crd \notin Services
          BY <2>1, LostTypes DEF LostInd, NoJob
        <5>. QED
          BY <2>1, <2>2, <5>1 DEF LostInd, ForgottenOnceGone, Reconciled
      <4>3. OnceIsKept'
        BY <1>1, <2>1, <2>3, KeptSame DEF LostInd, OnceIsKept
      <4>. QED
        BY <3>1, <4>1, <4>2, <4>3 DEF LostInd
  <2>5. CASE phase[c] # "deleting"
    <3>1. /\ pc'["worker"] = IF Changed(c, target[c]) THEN "load" ELSE "add"
          /\ key'["worker"] = <<c, IF Changed(c, target[c]) THEN dir[c] ELSE target[c]>>
      BY <1>0, <1>2, <2>5 DEF Reconcile, Goto
    <3>2. StoppingFits' /\ WatchingFits'
      BY <2>1, <2>2, <2>5, <3>1 DEF StoppingFits, WatchingFits, Changed
    <3>3. ForgottenOnceGone' /\ Reconciled'
      <4>1. job.crd \notin Services
        BY <2>1, LostTypes DEF LostInd, NoJob
      <4>. QED
        BY <2>1, <2>2, <4>1 DEF LostInd, ForgottenOnceGone, Reconciled
    <3>4. OnceIsKept'
      BY <1>1, <2>1, <2>3, KeptSame DEF LostInd, OnceIsKept
    <3>. QED
      BY <3>1, <3>2, <3>3, <3>4 DEF LostInd
  <2>. QED
    BY <2>4, <2>5
<1>3. ASSUME NEW k \in Keys, StopNext(k) PROVE LostInd'
  <2>1. /\ UNCHANGED <<phase, target, once, dir, spoilt, queued, informers, job>> /\ pc["worker"] = "range"
        /\ pc'["worker"] = "load" /\ key'["worker"] = k /\ k \in todo /\ todo' = todo \ {k}
        /\ pc'["monitor"] = pc["monitor"] /\ key'["monitor"] = key["monitor"]
    BY <1>0, <1>3 DEF StopNext, Goto, crds, mem
  <2>2. job.deleted
    BY <2>1 DEF LostInd, WatchingFits
  <2>3. StoppingFits' /\ WatchingFits'
    BY <2>1, <2>2 DEF LostInd, StoppingFits, WatchingFits
  <2>4. ForgottenOnceGone' /\ Reconciled'
    BY <2>1 DEF LostInd, ForgottenOnceGone, Reconciled
  <2>5. OnceIsKept'
    BY <1>1, <2>1, KeptSame DEF LostInd, OnceIsKept
  <2>. QED
    BY <2>1, <2>3, <2>4, <2>5 DEF LostInd
<1>. QED
  BY <1>2, <1>3

(* finalizeCRD forgets what it stopped. *)
LEMMA FinalizedLost ==
    ASSUME InfInd, LostInd, Finalized
    PROVE  LostInd'
<1>. DEFINE c == job.crd
<1>0. /\ pc \in [Threads -> Labels] /\ key \in [Threads -> Keys \cup {NoKey}]
      /\ "monitor" \in Threads /\ "worker" \in Threads
  BY Types
<1>1. /\ pc["worker"] = "range" /\ pc'["worker"] = "idle" /\ job' = NoJob
      /\ pc'["monitor"] = pc["monitor"] /\ key'["monitor"] = key["monitor"]
      /\ UNCHANGED <<target, queued, informers>>
  BY <1>0 DEF Finalized, Finish, Goto
<1>2. c \in Services /\ \A d \in Services : <<d, target[d]>> \in Keys
  BY <1>1, LostTypes DEF Keys
<1>3. /\ phase'[c] = "absent" /\ ~once'[c] /\ dir'[c] = None
      /\ \A d \in Services : d # c => /\ phase'[d] = phase[d] /\ once'[d] = once[d]
                                      /\ dir'[d] = dir[d] /\ spoilt'[d] = spoilt[d]
  BY <1>2, LostTypes DEF Finalized
<1>4. ForgottenOnceGone' /\ Reconciled'
  BY <1>1, <1>3 DEF LostInd, ForgottenOnceGone, Reconciled
<1>5. OnceIsKept'
  BY <1>1, <1>2, <1>3, KeptSame DEF LostInd, OnceIsKept
<1>6. StoppingFits' /\ WatchingFits'
  BY <1>1 DEF StoppingFits, WatchingFits
<1>. QED
  BY <1>1, <1>4, <1>5, <1>6 DEF LostInd

(* Users queue what they change; a change of a target that has not been reconciled *)
(* spoils the Once.                                                                *)
LEMMA ClusterLost ==
    ASSUME InfInd, LostInd,
           \/ \E i \in Informers : Sync(i)
           \/ \E c \in Services : Delete(c) \/ Create(c) \/ \E t \in Targets : Change(c, t)
    PROVE  LostInd'
<1>1. UNCHANGED <<once, dir, informers, pc, key, job, todo>>
  BY DEF Sync, Delete, Create, Change, Enqueue, mem
<1>2. \A k \in Keys : Kept(k)' <=> Kept(k)
  BY <1>1, KeptSame
<1>3. /\ \A d \in Services : <<d, target[d]>> \in Keys
      /\ phase \in [Services -> {"absent", "live", "deleting"}] /\ target \in [Services -> Targets]
      /\ queued \in [Services -> BOOLEAN] /\ dir \in [Services -> Targets \cup {None}]
      /\ None \notin Targets /\ None \notin Services /\ spoilt \in [Services -> BOOLEAN]
  BY LostTypes DEF Keys
<1>4. ASSUME NEW i \in Informers, Sync(i) PROVE LostInd'
  BY <1>1, <1>4 DEF Sync, crds, mem, LostInd, ForgottenOnceGone, StoppingFits, WatchingFits, Reconciled,
     OnceIsKept, Kept
<1>5. ASSUME NEW c \in Services, Delete(c) \/ Create(c) PROVE LostInd'
  <2>1. /\ target' = target /\ spoilt' = spoilt /\ queued'[c] /\ phase[c] # "deleting" /\ phase'[c] # "absent"
        /\ phase'[c] = "live" => ~once[c]
        /\ \A d \in Services : d # c => phase'[d] = phase[d] /\ queued'[d] = queued[d]
    BY <1>3, <1>5 DEF Delete, Create, Enqueue, LostInd, ForgottenOnceGone
  <2>2. pc["worker"] # "idle" => job.crd \in Services
    BY LostTypes
  <2>3. StoppingFits'
    BY <1>1, <2>1, <2>2 DEF LostInd, StoppingFits
  <2>4. WatchingFits'
    <3>1. pc["worker"] # "idle" => <<job.crd, job.ref>> \in Keys
      BY LostTypes DEF Keys
    <3>. QED
      BY <1>1, <1>2, <2>1, <2>2, <3>1 DEF LostInd, WatchingFits
  <2>5. ForgottenOnceGone' /\ Reconciled'
    BY <1>1, <2>1 DEF LostInd, ForgottenOnceGone, Reconciled
  <2>6. OnceIsKept'
    BY <1>1, <1>2, <1>3, <2>1 DEF LostInd, OnceIsKept
  <2>. QED
    BY <1>1, <2>3, <2>4, <2>5, <2>6 DEF LostInd
<1>6. ASSUME NEW c \in Services, NEW t \in Targets, Change(c, t) PROVE LostInd'
  <2>1. /\ phase' = phase /\ queued'[c] /\ target'[c] = t /\ t # target[c]
        /\ spoilt'[c] <=> spoilt[c] \/ dir[c] # target[c]
        /\ \A d \in Services : d # c => /\ target'[d] = target[d] /\ queued'[d] = queued[d]
                                        /\ spoilt'[d] = spoilt[d]
    BY <1>3, <1>6 DEF Change, Enqueue
  <2>2. pc["worker"] # "idle" => job.crd \in Services
    BY LostTypes
  <2>3. StoppingFits'
    BY <1>1, <2>1 DEF LostInd, StoppingFits
  <2>4. WatchingFits'
    <3>1. pc["worker"] # "idle" => <<job.crd, job.ref>> \in Keys
      BY LostTypes DEF Keys
    <3>. QED
      BY <1>1, <1>2, <2>1, <2>2, <3>1 DEF LostInd, WatchingFits
  <2>5. ForgottenOnceGone' /\ Reconciled'
    BY <1>1, <2>1 DEF LostInd, ForgottenOnceGone, Reconciled
  <2>6. OnceIsKept'
    <3>1. ~spoilt'[c] => dir[c] \notin {None, t}
      BY <1>3, <2>1
    <3>. QED
      BY <1>1, <1>2, <1>3, <2>1, <3>1 DEF LostInd, OnceIsKept
  <2>. QED
    BY <1>1, <2>3, <2>4, <2>5, <2>6 DEF LostInd
<1>. QED
  BY <1>4, <1>5, <1>6

(* An ElastiService that nobody is to reconcile has an informer of its target, or the *)
(* monitor is restarting it, unless its name begins with that of another, the Once    *)
(* was last consumed by an Add that did not find the target, or its scaleTargetRef    *)
(* was changed before it had been reconciled: for any number of ElastiServices,       *)
(* deletions, changes and failed Gets, and whatever the monitor restarts meanwhile    *)
(* (Reconcile, watchScaleTargetRef, StopForCRD, monitorInformers).                    *)
THEOREM InformerManagerNeverLost == Spec => []NeverLost
<1>1. Init => LostInd
  BY DEF Init, LostInd, ForgottenOnceGone, StoppingFits, WatchingFits, Reconciled, OnceIsKept, Threads
<1>2. InfInd /\ LostInd /\ [Next]_vars => LostInd'
  <2>1. ASSUME InfInd, LostInd, Next PROVE LostInd'
    <3>1. CASE Step("monitor") \/ \E k \in Keys : Monitor(k)
      <4>1. CASE Panic("monitor")
        BY <2>1, <4>1, BootLost DEF Panic
      <4>2. CASE ~Panic("monitor")
        BY <2>1, <3>1, <4>2, MonitorLost
      <4>. QED
        BY <4>1, <4>2
    <3>2. CASE WorkerStep
      <4>1. CASE Panic("worker")
        BY <2>1, <4>1, BootLost DEF Panic
      <4>2. CASE ~Panic("worker")
        BY <2>1, <3>2, <4>2, WorkerStopLost, WaitLost, AddLost, BeginLost, FinalizedLost DEF WorkerStep, Step
      <4>. QED
        BY <4>1, <4>2
    <3>3. CASE \E c \in Services : Reconcile(c)
      BY <2>1, <3>3, BeginLost
    <3>4. CASE \/ \E i \in Informers : Sync(i)
               \/ \E c \in Services : Delete(c) \/ Create(c) \/ \E t \in Targets : Change(c, t)
      BY <2>1, <3>4, ClusterLost
    <3>. QED
      BY <2>1, <3>1, <3>2, <3>3, <3>4 DEF Next
  <2>2. ASSUME LostInd, UNCHANGED vars PROVE LostInd'
    BY <2>2 DEF vars, crds, mem, chans, LostInd, ForgottenOnceGone, StoppingFits, WatchingFits, Reconciled,
       OnceIsKept, Kept
  <2>. QED
    BY <2>1, <2>2
<1>3. InfInd /\ LostInd => NeverLost
  <2>. SUFFICES ASSUME InfInd, LostInd, NEW c \in Services, phase[c] = "live", ~spoilt[c],
                       ~queued[c], job.crd # c
                PROVE  Exposed(c) \/ Kept(<<c, target[c]>>)
    BY DEF NeverLost
  <2>1. once[c] /\ dir[c] = target[c]
    BY DEF LostInd, Reconciled
  <2>2. pc["worker"] = "enable" => key["worker"] # <<c, target[c]>>
    BY DEF LostInd, StoppingFits, WatchingFits
  <2>. QED
    BY <2>1, <2>2 DEF LostInd, OnceIsKept
<1>. QED
  BY <1>1, <1>2, <1>3, InfIndInit, InfIndNext, PTL DEF Spec
=============================================================================
