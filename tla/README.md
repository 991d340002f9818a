# KubeElasti in TLA+

KubeElasti scales Kubernetes services to zero and back. When a service has no
replicas its traffic is redirected to a *resolver*, which holds the requests and
asks the *operator* to scale the service up; when pods are ready again traffic
goes to them directly. This directory models the parts of the two programs whose
correctness depends on the order in which goroutines, API calls, cache updates,
failures and restarts happen. Line numbers refer to `src/`; the file
`PROJECT.json` maps every definition to the lines it stands for.

## Inventory

| Component | State | Operations | Used by / uses |
|---|---|---|---|
| semaphore (`resolver/.../semaphore.go`) | packed word `state` (capacity, permits in use), channel of wakeups | `acquire`, `release`, `updateCapacity` (from `newSemaphore` only) | breaker |
| breaker (`breaker.go`) | `inFlight` slots | `Maybe` | throttler; uses semaphore |
| throttler (`throttler.go`) | breaker, queue sizes, readiness cache | `Try`, `checkIfServiceReady` | request handler |
| request handler (`handler.go`, `writer.go`) | none of its own | `handleAnyRequest`, `ProxyRequest` | throttler, host manager, RPC client |
| host manager (`hostManager.go`) | hosts with `TrafficAllowed`, timers | `GetHost`, `DisableTrafficForHost`, `enableTrafficForHost` | request handler |
| operator RPC client (`RPCClient.go`) | a lock per service, released by a timer | `SendIncomingRequestInfo` | operator's server |
| elasti server (`elastiServer.go`) | none of its own | `resolverReqHandler`, `scaleTargetForService` | CRD directory, scale handler |
| scale handler (`pkg/scaling/scale_handler.go`) | a mutex per service | `StartScaleDownWatcher`, `checkAndScale`, `handleScaleToZero`, `handleScaleFromZero`, `ScaleTarget*` | triggers, API server, KEDA |
| triggers (`prometheus_scaler.go`) | none | `ShouldScaleToZero`, `IsHealthy` | scale handler, Prometheus |
| controller (`operator/internal/controller`) | three maps of mutexes and Onces | `Reconcile`, `finalizeCRD`, `switchMode`, `handleResolverChanges`, `Initialize` | informer manager, CRD directory, API server through a cache |
| CRD directory (`directory.go`) | map service -> ElastiService with its status | `AddCRD`, `RemoveCRD`, `GetCRD` | controller, server |
| informer manager (`informer.go`) | map of running informers | `Add`, `StopForCRD`, `StopInformer`, health check | controller |

The rest (entry points, metrics, logging, HTTP transport, generated deep copies,
stateless Kubernetes helpers) is wiring, text and configuration.

**How they interact.** A request reaches the resolver's handler, which reports it
to the operator's server (RPC) and calls the throttler, which polls for readiness
inside a permit of the breaker. In the operator three sources of work touch one
service at the same time: the server's goroutines and the scale-down watcher
(replicas, KEDA's ScaledObject, `lastScaledUpTime`), and the reconciler with its
informers (EndpointSlice, private service, the ElastiService's mode). They share
the API server, which the controller reads through a cache, and the in-memory
directory.

**What is hard.** Lock-free counters and a lossy wakeup channel; Get-then-Patch
sequences of two jobs; copies used after they are stale (the poll's list, the
directory's mode, the manager's cache); handlers that outlive the informer that
called them; a `sync.Once` around a call that may fail; a finalizer that races
with mode switches; restarts between any two API calls; flags and counters in
shared maps that are loaded and stored without a lock, timers that act on whatever
they find, and channels that two threads may close. `PROJECT.json` lists these
hazards line by line.

**What makes each component correct.**
- semaphore: permits are counted exactly, no `release` without an `acquire`, no
  waiter without a wakeup while a permit is free.
- breaker: slots are not undercounted, the semaphore is used in pairs, a full
  queue is really full.
- triggers: a service goes down only on complete evidence of idleness, and up
  only on the answer of a trigger, never on a failed query.
- scale handler: jobs of one service do not act on each other's stale reads; a
  scale-up never removes replicas; the cooldown; lasting load or idleness has
  its effect in the end.
- controller, directory, informer manager: nothing is left behind by a deleted
  ElastiService; what is reconciled is watched; redirected traffic has somewhere
  to go; the mode settles; a deletion completes; no stopped informer is taken for
  a running one.
- throttler, handler: a request is sent to the target at most once and always
  answered; one that is held does not wait for ever; the readiness of a target is
  not believed for ever; the queue size is that of the queue.
- host manager: traffic that was disabled is enabled again.
- RPC client: one call per name under way, and the operator is told until it acts.

## Modules

| Module | Models | State and actions |
|---|---|---|
| `Limiter` | what the semaphore promises | at most `Limit` clients inside; `Request`, `GiveUp`, `Enter`, `Leave` |
| `Semaphore` | `semaphore.go` | one action per atomic or channel operation; `in` is the used half of the word, `queue` the number of buffered wakeups, `pc`/`old` the goroutine's position and last load |
| `Gate` | what the breaker promises | at most `Slots` callers inside and `Permits` running; `Ask`, `Refuse`, `Enter`, `Run`, `Finish`, and `GiveBack` or `Leak` of the slot |
| `Breaker` (extends `Semaphore`) | `breaker.go` | the two slot operations around the semaphore; the thunk is the time a goroutine is `"held"` |
| `Triggers` | `calculateScaleDirection`, `ShouldScaleToZero`, `IsHealthy` | pure operators over the outcome of each query; `Direction` is the first trigger that decides |
| `ScaleHandler` (extends `Triggers`) | `scale_handler.go`, `elastiServer.go` | one action per API call of a job; `snap`/`todo` are the watcher's listed copies, `lock` the mutexes |
| `Controller` | `elastiservice_controller.go`, `opsCRD.go`, `opsModes.go`, `opsDeployment.go`, `opsRollout.go`, `opsEndpointslices.go`, `opsServices.go`, `opsInformer.go`, `directory.go`, part of `informer.go` | the goroutines of Reconcile, Initialize, target informers and resolver informer for one ElastiService; each write to the API server is a step, consecutive cached reads are one |
| `InformerManager` | `informer.go` with `watchScaleTargetRef` and `finalizeCRD` of `opsCRD.go` | the map of informers of several ElastiServices; the worker and the health monitor, one load, close, store or delete at a time |
| `Forwarding` | what the resolver promises a client | a request is held, then refused, or sent once and answered |
| `OperatorRPC` | `RPCClient.go` | one goroutine per `SendIncomingRequestInfo`; `mutex` is `serviceRPCLocks`, its timers are goroutines at `"timer"` |
| `Throttler` (extends `OperatorRPC`) | `throttler.go`, the part of `handler.go` around `Try`, `CheckIfServiceEndpointSliceActive` | one goroutine per request; `ready`/`readyTimers` are the readiness cache, `queueSize` the counters, `response` what the client was told first |
| `HostManager` (extends `Forwarding`) | `hostManager.go`, the part of `handler.go` before and after `Try` | one goroutine per request; `hosts` is the map, `allowed` the flag of each `Host` object, `timer[r]` how far the timer that `r` started and its `enableTrafficForHost` are |
| `MC*` | | the instances TLC checks |
| `*Proofs` | | theorems about the module they are named after |

How they compose: `Breaker` contains `Semaphore`, which implements `Limiter`, and
itself implements `Gate`; `Throttler` takes from `Gate` when a request may enter,
run and be refused, contains `OperatorRPC`, and implements `Forwarding`;
`HostManager` is built on `Forwarding`. So each level is checked against the one below as it was shown to
behave, and no run has to carry all of them. In the operator `ScaleHandler`
contains `Triggers`; `Controller` has one ElastiService with all its objects and
stale caches, `InformerManager` has several, with the operator's maps only.

Definitions whose comment begins with "Mutant:" are deliberately wrong versions of
the definition that follows; they show that the properties can fail and are part
of no specification.

### Abstractions

- **Semaphore.** `updateCapacity` runs in `newSemaphore` only, so the capacity
  half of the word is constant and the word is `in`. The panic in `release` is
  not a branch: that it cannot happen is `ReleasePaired`.
- **Triggers.** A query's outcome is one of the cases the code tells apart
  (error, a null sample or -1, below the threshold, at or above it); text is left
  out. A null sample is an answer, and the code scales up on it: `UpOnlyOnAnswer`
  counts it as one (`AnsweredNotIdle`), and `DownOnlyWhenAllIdle` does not take
  it for idleness. Responses are decoded into one variable of the package
  (`promQueryResponse`), which is not reset: what a response lacks is left from the
  one before. As any outcome may follow any, the model has these too.
- **ScaleHandler.** Time is kept as ages that stop at `Cooldown`, since the code
  only compares with the cooldown period. A service's autoscaler kind is chosen
  initially and is not edited. An HPA leaves a target at 0 alone; KEDA keeps a
  paused target at 0 and any other at 1 or more (external). Every API call may
  fail, except that a failed List is no step. Kubernetes events are left out.
- **Controller.** One ElastiService whose spec does not change and whose public
  service exists. The cache of an object kind catches up all at once, for the
  kinds in `Lagging` (the ElastiService's always lags). A handler acts on the
  target state that was delivered to it, which may be old by the time it gets the
  mutex. Optimistic concurrency compares contents: an Update is refused when the
  object differs from the copy. An informer needs an idle watcher of the set
  `Watchers`; a second one stands for the handler of an earlier informer. There is no
  health monitor, so nobody stops an informer that `Add` waits for. `lastReconciledTime`,
  which every status patch sets, is left out: the API server refuses more Updates of the
  finalizers than the model, and each of them is retried.
- **InformerManager.** ElastiServices are read from the API server, not from a
  cache (`Controller` has the stale copies). A key is a pair of an ElastiService
  and a target; the prefix match is the constant `Matches`, and no name is longer
  than a key (see below). Informers have numbers that are used again. The
  goroutines of `StopForCRD`, which work on different keys, run one after the other.
  A panic of the monitor, of `StopForCRD` or of a Reconcile that Initialize calls
  ends the process, and it starts again; in a Reconcile of the worker it may be
  recovered instead. Any Get of `verifyTargetExist` may fail, which stands for a target
  that is missing, at first or later, and for a failed call. `spoilt` is a history
  variable: the Once of an ElastiService was consumed in vain, or its `scaleTargetRef`
  changed before the last change was reconciled, and nothing was started since.
- **OperatorRPC.** The text and the status of the call are its success or failure;
  a failed call may or may not have reached the operator. `Senders` bounds the
  goroutines and timers at a time.
- **Throttler.** Leaving the breaker is one step, and lost slots are not counted:
  once another request has called `Maybe`, a request may be refused although fewer
  than `Slots` are inside, as `Leak` of `Gate` allows. Time is left out: a sleep or a
  timer ends at some time. The end of
  a context is a choice at the two places where the code looks at it. A target's
  endpoints are one bit, `up`, which the operator turns on some time after it was told.
- **HostManager.** Whether names can be taken from a host is a choice (`BadHost`);
  `Try` is what `Forwarding` says of it. The two reads of the condition of
  `DisableTrafficForHost` and of `enableTrafficForHost` are one step, the
  assignment and the Store are two others. A request starts at most one timer. Time is
  left out but for one thing, which the constant `Prompt` turns on: a timer does not
  fire before an enabler that had only its Store left when the timer was *started* has
  stored (`ahead` remembers which those are). Timers that are pending together overlap
  in every way.

## Runs

| Run | Instance | Shows |
|---|---|---|
| `breaker` | 3 calls, channel 1 < permits 2, queue 2 | permits and slots counted, pairing, no lost wakeup, nobody stuck, correct use of the semaphore, which implements `Limiter`; `Maybe` implements `Gate` |
| `breaker_leak` (violation) | 3 calls, permits 1, queue 2 | a lost CompareAndSwap leaks a slot; requests are rejected with free slots |
| `scale` | 1 service with each autoscaler kind, lists of up to 2 triggers with each verdict, 1 handler and the watcher, failures, 1 restart | scale-downs only on idleness, scale-ups only on an answer, fresh reads, raising scale-ups, cooldown, liveness both ways |
| `controller` | 2 lives, 2 deletions, a target that is never at zero (the maps it is about do not depend on the mode), 1 failed call, 1 restart, all caches stale | after finalization no directory entry, no informer of the target and no Once of it is left (of the public service's informer and Once, which a running `switchMode` may still leave, it says nothing); each life is watched |
| `controller_finalize` | proxy mode, 1 deletion, 1 failed call, stale caches of slice and private service | deletions complete; until the deletion and the failure a private service exists whenever traffic is redirected |
| `controller_settles` | a rollout, 2 resolver addresses, stale slice cache | the mode and the EndpointSlice settle on what the target needs |
| `controller_orphan` (violation) | 1 deletion, fresh caches | an EndpointSlice outlives its ElastiService |
| `throttler` | 3 requests, 1 permit, 2 slots, 2 senders, 1 outage | implementation of `Forwarding`, exact queue size, timed readiness, one call to the operator |
| `throttler_served` | 2 requests, the same otherwise | nobody is held for ever, an outage is noticed |
| `hosts` | 3 requests to one host, `Prompt` | disabled traffic has something to enable it, and comes back |
| `informers` | 2 ElastiServices with names `x` and `x...`, 2 targets, any of which may not be found, 1 deletion, 1 change, 4 informers | no stopped informer in the map; a reconciled ElastiService has its informer but for three named cases; a lasting one is watched for good |
| `informers_lost` (violation) | the same | after one failed Get nothing watches the target |

**Why the bounds are enough.** The races need two or three actors: a CAS fails
because of one other goroutine, a waiter is missed by one releaser, a job meets
one other job. Three calls are one more than the permits, so that a waiter, a
contender and a releaser occur together. Three requests are one that runs, one
that waits inside the breaker and one that is rejected; and for a host one that
made the object in the map, one that replaces it late and one that acts in
between. Symmetry is used in the runs `throttler` (of the requests) and
`breaker_leak` only, which have no liveness property. Two lives of an ElastiService
show what survives a deletion; a second watcher is the handler left over from the
first. One failed call may hit any call, one restart may fall between any two
steps. Capacities 1 and 2 give each order of channel, permits and queue.
`MaxReplicas` is above `MinTargetReplicas` so that both early returns occur.
Where a theorem below covers a property the bounds do not matter: `ForwardPath` is
checked with one resolver address and no restart, and proved for any, for resolvers
without pods and for restarts.

**Deadlock.** `controller` and `controller_finalize` do not check for deadlock:
when their creations and deletions are used up and the target does not change,
an operator with nothing to do is a correct final state. Nor do `throttler`,
`throttler_served` and `hosts`, whose requests are each made once, and `informers`,
where all ElastiServices may be watched and no change be left. All others check it.

### Fairness

- Semaphore: runnable goroutines are scheduled (WF of each step), the holder's
  work ends (the thunk is bounded by timeouts), and a Go channel serves blocked
  receivers first in, first out, hence SF of a receive. No caller is made to call
  and no context to end.
- Scale handler: the ticker fires and time passes (WF). Go's mutex has a
  starvation mode that hands it to the longest waiter (SF of `Lock`). No kind of
  API call for a service fails for ever (SF of each call, per service and goroutine). Nothing is assumed
  of requests, autoscalers, triggers and restarts.
- Controller: the queue is served and the cache catches up (WF), reconcilers run
  (SF because of the mutex): `ReconcileFairness`, which is all that
  `DeletionCompletes` needs, handlers may be stuck. For the other two, besides,
  handlers run and target and resolver informers resync every five minutes (WF).
  Failed calls are bounded by `MaxFailures`, and the environment is not fair.
- Throttler: goroutines run, sleeps, timers and forwarded requests end, the
  operator acts on what it was told (WF). The breaker starves nobody, which is
  `NoStuckWaiter` of `Semaphore` (SF of `Enter`); neither the List of a ready
  target nor the call to the operator fails for ever (SF). No context need end, so
  `HeldUntilServed` does not lean on the deadline.
- HostManager: goroutines run and timers fire (WF), and `Prompt`: no goroutine takes
  `trafficReEnableDuration` (30 s) between the assignment and the Store of
  `enableTrafficForHost`, which the Go scheduler keeps to in practice and nothing in
  the code enforces.
- InformerManager: worker and monitor run, informers list their targets (WF), the
  worker comes to all that is queued (SF of `Reconcile`, as the queue is first in,
  first out). The monitor comes every five seconds, and so is not for ever faster than
  the first list of the informer that the worker waits for, or than a wait that looks
  every 100 ms (SF of that `Sync` and of the worker's `Synced`). That the monitor comes
  at all is not assumed.

## Proofs

TLAPS proves the following for every value of the constants that satisfies the
named assumptions (`SemaphoreAssumption`, `BreakerAssumption`,
`ScaleHandlerAssumption`, `ControllerAssumption`, `OperatorRPCAssumption`,
`ThrottlerAssumption`, `HostManagerAssumption`, `InformerManagerAssumption`, and
`NoneIsNoMode`: the absent value is not the name of a mode), which TLC evaluates on
the instances.

**SemaphoreProofs.** The inductive invariant is the type invariant with
`PermitsCounted` and the fact that a load `old` never exceeds the capacity while
a CAS is pending; cardinalities of the sets of goroutines at a label move by one
at each step, which a few lemmas on finite sets give once.
`SemaphoreNeverPanics` follows: a goroutine in `release` is a holder, so `in > 0`.
`NoLostWakeup` is not inductive. It says that somebody will try, not that enough
will: with two free permits, two waiters and one wakeup, the wakeup can be used up
and leave a waiter with a free permit. `WakeupsSuffice` counts: wakeups, contenders and
pokers together cover the free permits, or wakeups and pokers cover the waiters.
A poke is dropped only with a full channel, so with
`MaxCapacity >= InitialCapacity` the first disjunct survives
(`SemaphoreNoLostWakeup`). `SemaphoreImplementsLimiter` is a step simulation: the
two successful CASes are `Enter` and `Leave`.

**BreakerProofs.** `BreakerUsesSemaphore` shows that every breaker step is a
semaphore step or leaves it alone, so the semaphore's invariant is inherited.
`BreakerInvariant` adds that `inFlight` covers the calls inside: an acquisition
counts exactly and a release never takes more than one. `BreakerLeaksArePermanent`
is its action form; the run checks it as part of `ImplementsGate`. With `QueueDepth <= InitialCapacity` the slots bound holders
and waiters together (`SlotsCoverWaitersAndHolders`), so at most `MaxConcurrency`
calls block (`BreakerWaitersFitChannel`) and a full channel has a wakeup for each:
`BreakerWakeupsSuffice` and `BreakerNoLostWakeup` hold under either order of the
settings. The chart's settings satisfy neither (see the disagreements below).
`BreakerImplementsGate` is a step simulation. With the leaked slots as a variable of
`Gate`, the slots it counts as taken are `inFlight` (`GateCounts`), so the code's
comparison with a loaded value is the gate's with the real one at the CAS that
succeeds. A call is `disturbed` while its CAS in `releaseInFlightSlot` would fail. The
theorem says exactly when a slot is lost: the call was leaving while another call
took or gave back a slot; without such an overlap none is.

**ScaleHandlerProofs.** `ScaleInd` joins the type invariant, `LockOwned` (a job
between Get and Patch holds its service's mutex) and `FreshRead`. A restart drops
the mutexes and the jobs together. `UpJobRaises` needs `SawFewer` (what a scale-up
saw was below what it asks for) and `MinTargetReplicas > 0`; with 0, the value of an omitted
`minTargetReplicas`, a scale-up passes both early returns and patches a running
target to 0. The cooldown needs `ListedOldEnough`: between its check and its patch
the watcher's job has a listed age of at least the cooldown, and ages only grow
or are stamped back to 0. The direction of a list is decided by its first trigger
that is not idle; that there is a first one (`LeastOfIndices`) is the one place
where well-foundedness of the naturals is needed. `OnlyEvaluateStarts` turns the
two facts about `Direction` into action properties of the watcher.

**ControllerProofs.** That a finalized ElastiService is forgotten rests on
`ReconcileLocks` and on an order of copies. `CtrlInd` joins the types; `MutexHeld`
(a reconciler between its Get and its return holds the mutex); `CopiesOlder` (the
life and stage of the ElastiService are behind in the cache, and behind again in a
reconciler's copy); `CopyFits` (what a copy says for the step its reconciler is
at); `CleanUnlessClaimed` (while the object does not carry the finalizer,
directory, Once and informer are empty, no cached copy carries it and no reconciler
is past `addCRDFinalizer`); `Undoing` (what `finalizeCRD` has undone stays undone,
and what it works on is not the next life); and `ClaimedIsCached` (once an object
has the finalizer, the cache shows that life). Mutual exclusion alone would not do:
a Reconcile with a copy from an earlier life could still write to the maps in the
next; the order of the copies excludes it. `ControllerWatched` adds `OnceHasInformer`:
without failed calls a consumed Once has its informer.
`ForwardPath` is about the first life of an ElastiService, until it is being deleted,
and says nothing of how a slice comes to be: the code writes one when the
status, the cache's copy of it, the directory's copy of that or a reconciler's copy
says proxy, and each may be old. `PrivateFirst` collects them: as long as there is no
private service, none of the copies says proxy, no handler is past
`createPrivateService`, and the cache shows no private service (`NoTraceOfProxy`);
a private service that is there belongs to this life, so that the garbage collector
leaves it alone (`PrivateOwned`). `ForwardPath` needs its three conditions: the
finalizer removes private service and slice in any order; a failed creation is
recorded as proxy mode (`opsModes.go:38`), and with a second life TLC finds the
EndpointSlice that a `switchMode` wrote during `finalizeCRD` (the run
`controller_orphan`) next to an ElastiService whose private service was collected.

**OperatorRPCProofs.** `OneReporter` and `MutexOwned` are inductive together: the
LoadOrStore finds nothing exactly because each mutex in the map has an owner.

**ThrottlerProofs.** Every step of `Throttler` is one of the client or leaves it
alone, so that the invariant of `OperatorRPC` is inherited. `Progress` ties a
request's position to what was written to its client and to the error that `Try`
will return; with it each step is one of `Forwarding` or invisible to it
(`ThrottlerImplementsForwarding`). The queue size needs `OneUpdate`: until two
updates overlap, at most one request is between its load and its store and the
size it loaded is the present one.

**HostManagerProofs.** `DisabledIsTimed` is not inductive, for an enabler may put an
object back into the map that another goroutine switched off meanwhile. `PutBackIsTimed`
states it for those objects: one that an enabler has assigned and not stored, and that
is off again, has a timer that was started while that enabler was under way (`ahead`), so that under `Prompt` it is still to fire when the Store happens. `Fresh` says
that nobody knows an object before it is stored, and `ObjectsThere` that an object is
where the code uses one without looking. `HostManagerDisabledIsTimed` has `Prompt` as
its hypothesis; the type invariant does not. Without it TLC finds a violation.

**InformerManagerProofs.** `ClosedIsBeingDeleted` needs that an informer has one
entry and that a thread about to close one holds the informer of its own key, or
one that has left the map (`OneEntry`): otherwise a thread could close the informer
of a key that nobody is about to delete.
`NeverLost` is about two guards that both keep `watchScaleTargetRef` from starting an
informer, the Once and the directory's target. `LostInd` ties them to the map:
`Reconciled` (who is neither queued nor at work has its Once and its present target in
the directory), `OnceIsKept` (a consumed Once that is not spoilt stands for an informer,
or for a thread about to start one, unless the directory has another target),
`StoppingFits` and `WatchingFits` (what the worker stops or starts belongs to the
ElastiService it works on), and `ForgottenOnceGone`.
The restarts of the monitor are why `Kept` counts a thread between its Stop and its Add.
`InformerManagerNeverLost` has no hypothesis: the cases in which the code does lose an
ElastiService are in the formula (`spoilt`, `Exposed`), and that there are no others is
what it says.

**Only model-checked.** Every invariant and every action property of the passing runs
is a theorem. What is left is liveness, which is out of the prover's reach (`NoStuckWaiter`,
`LoadEventuallyUp`, `IdleEventuallyZero`, `DeletionCompletes`,
`ReadyEventuallyServed`, `ZeroEventuallyProxied`, `HeldUntilServed`,
`OutageNoticed`, `TrafficComesBack`, `LiveEventuallyWatched`), and the three violations,
which are no theorems.

## Disagreements found

The violation runs are findings in `PROJECT.json`: slots leak in
`releaseInFlightSlot` (`breaker.go:87`); `finalizeCRD` does not exclude a
running `switchMode` and can leave an EndpointSlice behind (`opsCRD.go:100`); and the
`sync.Once` of `watchScaleTargetRef` is consumed by an `Add` that fails
(`opsCRD.go:157`), after which Reconcile reports success without an informer.

The passing runs hold under conditions that the code does not enforce. These limits
were met while writing the models:
- `semaphore.go:63-67` calls a dropped poke safe. The proof needs
  `MaxConcurrency >= InitialCapacity \/ QueueDepth <= InitialCapacity`. The defaults
  satisfy it; the proportions of `charts/elasti/values.yaml:54-60` (100 < 500 < 50000)
  do not, and with channel 1, permits 2 and queue 3 TLC finds a waiter that nobody wakes;
- the permits come from `InitialCapacity`, not from `MaxQueueConcurrency`, which
  `resolver/cmd/main.go:41` calls the maximum of concurrent requests;
- a trigger that fails hides an active one after it (`scale_handler.go:166`),
  against `docs/src/gs-introduction.md:21`;
- `CooldownSinceList` allows a scale-down within the cooldown if the request was
  stamped after the poll's List (`scale_handler.go:210`);
- KEDA is patched outside the mutex, so a scale-up may patch a target whose
  ScaledObject has just been paused; `LoadEventuallyUp` shows that this heals if
  the triggers stay active;
- `ForwardPath` needs calls that do not fail: the status records proxy mode
  also when the private service was not created (`opsModes.go:38`);
- the resolver's handler may recreate the EndpointSlice of a service that is
  already in serve mode (`opsDeployment.go:51`), until the next resync;
  `ReadyEventuallyServed` shows that it goes away;
- because of that Once `WatchedOnceReconciled` has `failures = 0`, `ControllerWatched`
  the hypothesis that the target exists, and `NeverLost` and `LiveEventuallyWatched`
  the exception `spoilt`. A target that is missing at first is watched only once its
  `scaleTargetRef` changes or the operator restarts;
- a `scaleTargetRef` that changes again before the last change was reconciled, as after
  a failed `Add`, may never be watched, for the directory has no entry, or another, to
  compare with;
- `StopForCRD` matches by prefix (`informer.go:166`) and stops the informers of
  ElastiServices with a longer name or in another namespace; their Onces stay
  consumed, so that nobody starts them again. `NeverLost` and
  `LiveEventuallyWatched` leave those (`Exposed`) out, `AlwaysStarted` does not. A name longer than a key would be a slice out of range there;
- the monitor may restart an informer whose ElastiService was finalized meanwhile,
  or of a target that was changed; and when the monitor and `Add` both store, one of
  the two informers runs on out of reach;
- concurrent requests lose updates of the queue size (`throttler.go:128`), which can
  also go below 0: `QueueExactUnlessRaced` says nothing after that, and
  `/queue-status` may then report an empty queue that is not, and the reverse;
- a deadline that passes while a request is forwarded makes the handler append its
  408 to the response; the client keeps the status that was written first. The
  `ErrorHandler` of the proxy writes nothing if a Content-Type is set already;
- the RPC client has no timeout of its own, and its key has no namespace: services
  of one name in two namespaces share one mutex;
- a null sample of Prometheus scales a service up (`prometheus_scaler.go:140`);
- with `minTargetReplicas` omitted, and so 0, a scale-up may patch a running target to
  0 (`scale_handler.go:370`): hence the positive `MinTargetReplicas` of `UpJobRaises`;
- `DisabledIsTimed` and `TrafficComesBack` need `Prompt`: a goroutine delayed for a
  whole `trafficReEnableDuration` before its Store, together with a `GetHost` that
  missed the map, would leave an object there that is off and has no timer.

## Not modelled

- The HTTP servers and the reverse proxy, Prometheus' text format, regular
  expressions over host names, metrics, logging: input and output without state
  that the properties tell apart.
- The name of the public service as something that changes, copies of public-service
  changes into the private service, several ElastiServices that name one service:
  they need the objects of `Controller` twice, which its runs cannot carry.
- `Manager.Stop` and the servers' shutdown: the process ends with them.
- `GetQueueStatus`, `ServeHTTP`'s metrics, the buffer pool, `transport.go`, the
  generated deep copies and `pkg/utils`: they only read, or convert text.

## Plan

Done: `Limiter`, `Gate`, `Semaphore`, `Breaker`, `Forwarding`, `OperatorRPC`, `Throttler`,
`HostManager`, `Triggers`, `ScaleHandler`, `Controller` and `InformerManager`, each
but the abstract ones with proofs.

1. Composition of `Controller` and `ScaleHandler` through the directory: a request
   in proxy mode ends with the target up and traffic served directly.
2. An abstract specification of the two modes that `Controller` implements without
   failed calls, on top of `PrivateFirst`.
3. Two services in `throttler_served`, so that waiting requests of one take the
   permits of the other.
