--------------------------- MODULE ThrottlerProofs ---------------------------
(***************************************************************************)
(* Proofs about Try and the requests it holds, for any number of requests, *)
(* services, permits and slots.                                            *)
(***************************************************************************)
EXTENDS Throttler, OperatorRPCProofs, FiniteSetTheorems

(* The operations a request goes through before resolve. *)
Unsent == {"incStore", "maybe", "wait", "fetch", "sleep"}

(* How far a request is says what was written to its client, and whether   *)
(* Try will return an error: a request leaves the loop with a response, or *)
(* with an error that makes the handler write one.                         *)
Progress ==
    \A r \in Requests :
        /\ pc[r] \in Unsent \cup {"idle", "proxying"} => response[r] = "none"
        /\ pc[r] \in {"decLoad", "decStore"} => response[r] # "handler" /\ (response[r] = "proxy" \/ failed[r])
        /\ pc[r] = "done" => response[r] # "none"

ThrInd == TypeOK /\ OneReporter /\ MutexOwned /\ CachedIsTimed /\ Progress

(* Every step of the model is a step of the client or leaves it alone. *)
LEMMA NextIsRPCStep ==
    ASSUME TypeOK, Next
    PROVE  RPCNext \/ UNCHANGED rpcVars
<1>1. ASSUME NEW r \in Requests, CallTry(r) \/ FetchNotReady(r)
      PROVE  RPCNext
  <2>1. svc[r] \in Services
    BY DEF TypeOK
  <2>2. Spawn(svc[r])
    BY <1>1 DEF CallTry, FetchNotReady
  <2>. QED
    BY <2>1, <2>2 DEF RPCNext
<1>2. ASSUME NEW r \in Requests, (Step(r) /\ ~FetchNotReady(r)) \/ Enter(r) \/ GiveUp(r)
      PROVE  UNCHANGED rpcVars
  BY <1>2 DEF Step, StoreIncrement, LoadDecrement, StoreDecrement, CallMaybe, FetchReady,
              ProxyReturns, ProxyFails, WakeUp, Enter, GiveUp
<1>3. ASSUME NEW s \in Services, ReadyTimer(s) \/ TargetDown(s)
      PROVE  UNCHANGED rpcVars
  BY <1>3 DEF ReadyTimer, TargetDown
<1>4. ASSUME NEW s \in Services, ScaleUp(s) PROVE RPCNext
  BY <1>4 DEF ScaleUp, RPCNext
<1>5. ASSUME NEW g \in Senders, Sender(g) PROVE RPCNext
  BY <1>5 DEF Sender, RPCNext
<1>. QED
  BY <1>1, <1>2, <1>3, <1>4, <1>5 DEF Next

(* The initial states. *)
LEMMA ThrIndInit == Init => ThrInd
<1>. SUFFICES ASSUME Init PROVE ThrInd
  OBVIOUS
<1>1. RPCInd
  BY RPCIndInit DEF Init
<1>2. TypeOK
  BY <1>1, ThrottlerAssumption DEF RPCInd, Init, TypeOK, Labels
<1>3. CachedIsTimed /\ Progress
  BY DEF Init, CachedIsTimed, Progress, Unsent
<1>. QED
  BY <1>1, <1>2, <1>3 DEF RPCInd, ThrInd

(* A step of a request moves only that request. *)
LEMMA RequestStep ==
    ASSUME ThrInd, NEW r \in Requests, CallTry(r) \/ Step(r) \/ Enter(r) \/ GiveUp(r), RPCTypeOK'
    PROVE  /\ TypeOK' /\ CachedIsTimed' /\ Progress'
           /\ \A q \in Requests \ {r} : pc'[q] = pc[q] /\ response'[q] = response[q]
<1>. USE ThrottlerAssumption DEF ThrInd, Goto, Fail, Respond
<1>0. /\ up \in [Services -> BOOLEAN] /\ downs \in 0..MaxDowns
      /\ ready \in [Services -> BOOLEAN] /\ readyTimers \in [Services -> Nat]
      /\ queueSize \in [Services -> Int] /\ raced \in [Services -> BOOLEAN]
      /\ pc \in [Requests -> Labels] /\ svc \in [Requests -> Services]
      /\ size \in [Requests -> Int] /\ failed \in [Requests -> BOOLEAN]
      /\ response \in [Requests -> {"none", "proxy", "handler"}]
      /\ svc[r] \in Services
  BY DEF TypeOK
<1>1. CASE CallTry(r)
  <2>1. TypeOK'
    BY <1>0, <1>1 DEF TypeOK, CallTry, LoadSize,
             Labels, Counting, Inside, Running, targetVars, readyVars, queueVars
  <2>2. CachedIsTimed' /\ Progress'
    BY <1>0, <1>1 DEF CallTry, LoadSize, CachedIsTimed, Progress, Unsent, readyVars
  <2>. QED
    BY <1>0, <1>1, <2>1, <2>2 DEF CallTry, LoadSize
<1>2. CASE StoreIncrement(r)
  <2>1. TypeOK'
    BY <1>0, <1>2 DEF TypeOK, StoreIncrement, StoreSize,
             Labels, Counting, Inside, Running, targetVars, readyVars, queueVars
  <2>2. CachedIsTimed' /\ Progress'
    BY <1>0, <1>2 DEF StoreIncrement, StoreSize, CachedIsTimed, Progress, Unsent, readyVars
  <2>. QED
    BY <1>0, <1>2, <2>1, <2>2 DEF StoreIncrement, StoreSize
<1>3. CASE LoadDecrement(r)
  <2>1. TypeOK'
    BY <1>0, <1>3 DEF TypeOK, LoadDecrement, LoadSize,
             Labels, Counting, Inside, Running, targetVars, readyVars, queueVars
  <2>2. CachedIsTimed' /\ Progress'
    BY <1>0, <1>3 DEF LoadDecrement, LoadSize, CachedIsTimed, Progress, Unsent, readyVars
  <2>. QED
    BY <1>0, <1>3, <2>1, <2>2 DEF LoadDecrement, LoadSize
<1>4. CASE StoreDecrement(r)
  <2>1. TypeOK'
    BY <1>0, <1>4 DEF TypeOK, StoreDecrement, StoreSize,
             Labels, Counting, Inside, Running, targetVars, readyVars, queueVars
  <2>2. CachedIsTimed' /\ Progress'
    BY <1>0, <1>4 DEF StoreDecrement, StoreSize, CachedIsTimed, Progress, Unsent, readyVars
  <2>. QED
    BY <1>0, <1>4, <2>1, <2>2 DEF StoreDecrement, StoreSize
<1>5. CASE CallMaybe(r)
  <2>1. TypeOK'
    BY <1>0, <1>5 DEF TypeOK, CallMaybe,
             Labels, Counting, Inside, Running, targetVars, readyVars, queueVars
  <2>2. CachedIsTimed' /\ Progress'
    BY <1>0, <1>5 DEF CallMaybe, CachedIsTimed, Progress, Unsent, readyVars
  <2>. QED
    BY <1>0, <1>5, <2>1, <2>2 DEF CallMaybe
<1>6. CASE FetchReady(r)
  <2>1. TypeOK'
    <3>1. pc' \in [Requests -> Labels] /\ failed' \in [Requests -> BOOLEAN]
      BY <1>0, <1>6 DEF FetchReady, Resolve, EndThunk, ContextDone, Labels, Inside, Running
    <3>2. ready' \in [Services -> BOOLEAN] /\ readyTimers' \in [Services -> Nat]
      BY <1>0, <1>6 DEF FetchReady
    <3>3. UNCHANGED <<targetVars, queueVars, svc, size, response>>
      BY <1>6 DEF FetchReady
    <3>. QED
      BY <1>0, <3>1, <3>2, <3>3 DEF TypeOK, targetVars, queueVars
  <2>2. CachedIsTimed' /\ Progress'
    BY <1>0, <1>6 DEF FetchReady, Resolve, EndThunk, ContextDone, CachedIsTimed, Progress, Unsent, readyVars
  <2>. QED
    BY <1>0, <1>6, <2>1, <2>2 DEF FetchReady, Resolve, EndThunk, ContextDone
<1>7. CASE FetchNotReady(r)
  <2>1. TypeOK'
    BY <1>0, <1>7 DEF TypeOK, FetchNotReady, Reenqueue, ContextDone,
             Labels, Counting, Inside, Running, targetVars, readyVars, queueVars
  <2>2. CachedIsTimed' /\ Progress'
    BY <1>0, <1>7 DEF FetchNotReady, Reenqueue, ContextDone, CachedIsTimed, Progress, Unsent, readyVars
  <2>. QED
    BY <1>0, <1>7, <2>1, <2>2 DEF FetchNotReady, Reenqueue, ContextDone
<1>8. CASE ProxyReturns(r)
  <2>1. TypeOK'
    BY <1>0, <1>8 DEF TypeOK, ProxyReturns, EndThunk, ContextDone,
             Labels, Counting, Inside, Running, targetVars, readyVars, queueVars
  <2>2. CachedIsTimed' /\ Progress'
    BY <1>0, <1>8 DEF ProxyReturns, EndThunk, ContextDone, CachedIsTimed, Progress, Unsent, readyVars
  <2>. QED
    BY <1>0, <1>8, <2>1, <2>2 DEF ProxyReturns, EndThunk, ContextDone
<1>9. CASE ProxyFails(r)
  <2>1. TypeOK'
    BY <1>0, <1>9 DEF TypeOK, ProxyFails, EndThunk, ContextDone,
             Labels, Counting, Inside, Running, targetVars, readyVars, queueVars
  <2>2. CachedIsTimed' /\ Progress'
    BY <1>0, <1>9 DEF ProxyFails, EndThunk, ContextDone, CachedIsTimed, Progress, Unsent, readyVars
  <2>. QED
    BY <1>0, <1>9, <2>1, <2>2 DEF ProxyFails, EndThunk, ContextDone
<1>10. CASE WakeUp(r)
  <2>1. TypeOK'
    BY <1>0, <1>10 DEF TypeOK, WakeUp,
             Labels, Counting, Inside, Running, targetVars, readyVars, queueVars
  <2>2. CachedIsTimed' /\ Progress'
    BY <1>0, <1>10 DEF WakeUp, CachedIsTimed, Progress, Unsent, readyVars
  <2>. QED
    BY <1>0, <1>10, <2>1, <2>2 DEF WakeUp
<1>11. CASE Enter(r)
  <2>1. TypeOK'
    BY <1>0, <1>11 DEF TypeOK, Enter, Resolve, EndThunk, ContextDone,
             Labels, Counting, Inside, Running, targetVars, readyVars, queueVars
  <2>2. CachedIsTimed' /\ Progress'
    BY <1>0, <1>11 DEF Enter, Resolve, EndThunk, ContextDone, CachedIsTimed, Progress, Unsent, readyVars
  <2>. QED
    BY <1>0, <1>11, <2>1, <2>2 DEF Enter, Resolve, EndThunk, ContextDone
<1>12. CASE GiveUp(r)
  <2>1. TypeOK'
    BY <1>0, <1>12 DEF TypeOK, GiveUp, ContextDone,
             Labels, Counting, Inside, Running, targetVars, readyVars, queueVars
  <2>2. CachedIsTimed' /\ Progress'
    BY <1>0, <1>12 DEF GiveUp, ContextDone, CachedIsTimed, Progress, Unsent, readyVars
  <2>. QED
    BY <1>0, <1>12, <2>1, <2>2 DEF GiveUp, ContextDone
<1>. QED
  BY <1>1, <1>2, <1>3, <1>4, <1>5, <1>6, <1>7, <1>8, <1>9, <1>10, <1>11, <1>12 DEF Step

(* The other steps move no request. *)
LEMMA OtherStep ==
    ASSUME ThrInd, RPCTypeOK',
           \/ \E s \in Services : ReadyTimer(s) \/ ScaleUp(s) \/ TargetDown(s)
           \/ \E g \in Senders : Sender(g)
    PROVE  TypeOK' /\ CachedIsTimed' /\ Progress' /\ UNCHANGED <<pc, response>>
<1>. USE ThrottlerAssumption DEF ThrInd
<1>0. /\ up \in [Services -> BOOLEAN] /\ downs \in 0..MaxDowns /\ MaxDowns \in Nat
      /\ ready \in [Services -> BOOLEAN] /\ readyTimers \in [Services -> Nat]
  BY DEF TypeOK
<1>1. ASSUME NEW s \in Services, ReadyTimer(s)
      PROVE  TypeOK' /\ CachedIsTimed' /\ Progress' /\ UNCHANGED <<pc, response>>
  <2>1. ready' \in [Services -> BOOLEAN] /\ readyTimers' \in [Services -> Nat] /\ CachedIsTimed'
    BY <1>0, <1>1 DEF ReadyTimer, CachedIsTimed
  <2>. QED
    BY <1>1, <2>1 DEF ReadyTimer, TypeOK, Progress, targetVars, queueVars
<1>2. ASSUME NEW s \in Services, ScaleUp(s) \/ TargetDown(s)
      PROVE  TypeOK' /\ CachedIsTimed' /\ Progress' /\ UNCHANGED <<pc, response>>
  <2>1. up' \in [Services -> BOOLEAN] /\ downs' \in 0..MaxDowns
    <3>1. CASE ScaleUp(s)
      BY <1>0, <3>1 DEF ScaleUp
    <3>2. CASE TargetDown(s)
      BY <1>0, <3>2 DEF TargetDown
    <3>. QED
      BY <1>2, <3>1, <3>2
  <2>. QED
    BY <1>2, <2>1 DEF ScaleUp, TargetDown, TypeOK, CachedIsTimed, Progress, readyVars, queueVars
<1>3. ASSUME NEW g \in Senders, Sender(g)
      PROVE  TypeOK' /\ CachedIsTimed' /\ Progress' /\ UNCHANGED <<pc, response>>
  BY <1>3 DEF Sender, TypeOK, CachedIsTimed, Progress, targetVars, readyVars, queueVars
<1>. QED
  BY <1>1, <1>2, <1>3

(* The invariant is inductive. *)
LEMMA ThrIndNext == ThrInd /\ [Next]_vars => ThrInd'
<1>1. ASSUME ThrInd, Next PROVE ThrInd'
  <2>1. RPCInd'
    BY <1>1, NextIsRPCStep, RPCIndNext DEF ThrInd, TypeOK, RPCInd
  <2>2. TypeOK' /\ CachedIsTimed' /\ Progress'
    BY <1>1, <2>1, RequestStep, OtherStep DEF Next, RPCInd
  <2>. QED
    BY <2>1, <2>2 DEF ThrInd, RPCInd
<1>2. ASSUME ThrInd, UNCHANGED vars PROVE ThrInd'
  <2>1. RPCInd'
    BY <1>2, RPCIndStutter DEF vars, ThrInd, TypeOK, RPCInd
  <2>. QED
    BY <1>2, <2>1 DEF ThrInd, TypeOK, RPCInd, CachedIsTimed, Progress,
                      vars, targetVars, readyVars, queueVars
<1>. QED
  BY <1>1, <1>2

(* Type correctness of Try and of the client it reports through. *)
THEOREM ThrottlerTypeOK == Spec => []TypeOK
<1>1. ThrInd => TypeOK
  BY DEF ThrInd
<1>. QED
  BY <1>1, ThrIndInit, ThrIndNext, PTL DEF Spec

(* However many requests report a service, its name has one call or timer   *)
(* at a time (RPCClient.go:46-51).                                          *)
THEOREM ThrottlerOneReporter == Spec => []OneReporter
<1>1. ThrInd => OneReporter
  BY DEF ThrInd
<1>. QED
  BY <1>1, ThrIndInit, ThrIndNext, PTL DEF Spec

(* The timer finds its mutex locked, and no mutex stays in the map without  *)
(* an owner to take it out (RPCClient.go:54, 98-105).                       *)
THEOREM ThrottlerMutexOwned == Spec => []MutexOwned
<1>1. ThrInd => MutexOwned
  BY DEF ThrInd
<1>. QED
  BY <1>1, ThrIndInit, ThrIndNext, PTL DEF Spec

(* A cached readiness is always timed (throttler.go:98-114). *)
THEOREM ThrottlerCachedIsTimed == Spec => []CachedIsTimed
<1>1. ThrInd => CachedIsTimed
  BY DEF ThrInd
<1>. QED
  BY <1>1, ThrIndInit, ThrIndNext, PTL DEF Spec

-----------------------------------------------------------------------------
(* The phases of one request, as its steps see them. *)
LEMMA PhaseValues ==
    ASSUME ThrInd, NEW r \in Requests
    PROVE  /\ pc[r] = "idle" => PhaseOf(r) = "outside"
           /\ pc[r] \in Unsent => PhaseOf(r) = "held"
           /\ pc[r] = "proxying" => PhaseOf(r) = "sent"
           /\ pc[r] \in {"decLoad", "decStore", "done"} =>
                PhaseOf(r) = CASE response[r] = "none" -> "held"
                               [] response[r] = "proxy" -> "answered"
                               [] response[r] = "handler" -> "refused"
<1>1. response[r] \in {"none", "proxy", "handler"} /\ pc[r] \in Labels
  BY DEF ThrInd, TypeOK
<1>. QED
  BY <1>1 DEF ThrInd, Progress, PhaseOf, Unsent

(* The same after the step. *)
LEMMA PhaseValuesPrime ==
    ASSUME ThrInd', NEW r \in Requests
    PROVE  /\ pc'[r] = "idle" => PhaseOf(r)' = "outside"
           /\ pc'[r] \in Unsent => PhaseOf(r)' = "held"
           /\ pc'[r] = "proxying" => PhaseOf(r)' = "sent"
           /\ pc'[r] \in {"decLoad", "decStore", "done"} =>
                PhaseOf(r)' = CASE response'[r] = "none" -> "held"
                                [] response'[r] = "proxy" -> "answered"
                                [] response'[r] = "handler" -> "refused"
<1>1. response'[r] \in {"none", "proxy", "handler"} /\ pc'[r] \in Labels
  BY DEF ThrInd, TypeOK
<1>. QED
  BY <1>1 DEF ThrInd, Progress, PhaseOf, Unsent

(* A step of a request is a step of Forwarding, or one it does not see. *)
LEMMA RequestForwards ==
    ASSUME ThrInd, ThrInd', NEW r \in Requests, CallTry(r) \/ Step(r) \/ Enter(r) \/ GiveUp(r)
    PROVE  Promise!FwdNext \/ UNCHANGED phaseOf
<1>0. \A q \in Requests \ {r} : pc'[q] = pc[q] /\ response'[q] = response[q]
  BY RequestStep DEF ThrInd, TypeOK
<1>1. \A q \in Requests \ {r} : phaseOf'[q] = phaseOf[q]
  BY <1>0 DEF phaseOf, PhaseOf
<1>2. /\ phaseOf \in [Requests -> {PhaseOf(q) : q \in Requests}]
      /\ phaseOf' = [phaseOf EXCEPT ![r] = PhaseOf(r)'] /\ phaseOf[r] = PhaseOf(r)
  BY <1>1 DEF phaseOf
<1>3. ASSUME NEW from, NEW to, PhaseOf(r) = from, PhaseOf(r)' = to,
             <<from, to>> \in {<<"outside", "held">>, <<"held", "refused">>,
                               <<"held", "sent">>, <<"sent", "answered">>}
      PROVE  Promise!FwdNext
  BY <1>2, <1>3 DEF Promise!FwdNext, Promise!Hold, Promise!Refuse, Promise!Send, Promise!Answer, Promise!Move
<1>4. ASSUME PhaseOf(r)' = PhaseOf(r) PROVE UNCHANGED phaseOf
  BY <1>2, <1>4 DEF phaseOf
<1>5. /\ pc \in [Requests -> Labels] /\ response \in [Requests -> {"none", "proxy", "handler"}]
      /\ failed \in [Requests -> BOOLEAN]
      /\ pc[r] \in Unsent \cup {"idle", "proxying"} => response[r] = "none"
      /\ pc[r] \in {"decLoad", "decStore"} => response[r] # "handler" /\ (response[r] = "proxy" \/ failed[r])
  BY DEF ThrInd, TypeOK, Progress
<1>6. CASE CallTry(r)
  <2>1. pc[r] = "idle" /\ pc'[r] = "incStore"
    BY <1>5, <1>6 DEF CallTry, Goto
  <2>. QED
    BY <1>3, <2>1, PhaseValues, PhaseValuesPrime DEF Unsent
<1>7. CASE StoreIncrement(r) \/ WakeUp(r)
  <2>1. pc[r] \in Unsent /\ pc'[r] = "maybe"
    BY <1>5, <1>7 DEF StoreIncrement, WakeUp, Goto, Unsent
  <2>. QED
    BY <1>4, <2>1, PhaseValues, PhaseValuesPrime DEF Unsent
<1>8. CASE LoadDecrement(r)
  <2>1. pc[r] = "decLoad" /\ pc'[r] = "decStore" /\ response' = response
    BY <1>5, <1>8 DEF LoadDecrement, Goto
  <2>. QED
    BY <1>4, <2>1, PhaseValues, PhaseValuesPrime
<1>9. CASE StoreDecrement(r)
  <2>1. /\ pc[r] = "decStore" /\ pc'[r] = "done"
        /\ \/ response[r] = "none" /\ response'[r] = "handler"
           \/ response[r] = "proxy" /\ response'[r] = "proxy"
    BY <1>5, <1>9 DEF StoreDecrement, Goto, Respond
  <2>. QED
    BY <1>3, <1>4, <2>1, PhaseValues, PhaseValuesPrime
<1>10. CASE CallMaybe(r) \/ GiveUp(r) \/ FetchNotReady(r)
  <2>1. pc[r] \in Unsent /\ pc'[r] \in Unsent \cup {"decLoad"} /\ response'[r] = "none"
    BY <1>5, <1>10 DEF CallMaybe, GiveUp, FetchNotReady, Reenqueue, ContextDone, Goto, Unsent
  <2>. QED
    BY <1>4, <2>1, PhaseValues, PhaseValuesPrime
<1>11. CASE Enter(r) \/ FetchReady(r)
  <2>1. pc[r] \in Unsent /\ pc'[r] \in Unsent \cup {"decLoad", "proxying"} /\ response'[r] = "none"
    BY <1>5, <1>11 DEF Enter, FetchReady, Resolve, EndThunk, ContextDone, Goto, Unsent
  <2>. QED
    BY <1>3, <1>4, <2>1, PhaseValues, PhaseValuesPrime
<1>12. CASE ProxyReturns(r) \/ ProxyFails(r)
  <2>1. pc[r] = "proxying" /\ pc'[r] = "decLoad" /\ response'[r] = "proxy"
    BY <1>5, <1>12 DEF ProxyReturns, ProxyFails, EndThunk, ContextDone, Respond, Goto, Unsent
  <2>. QED
    BY <1>3, <2>1, PhaseValues, PhaseValuesPrime
<1>. QED
  BY <1>6, <1>7, <1>8, <1>9, <1>10, <1>11, <1>12 DEF Step

(* Try implements Forwarding, for any number of requests: one request is    *)
(* sent to its target at most once, a request that is refused was never     *)
(* sent, and no handler returns without a response (throttler.go:53-95,     *)
(* handler.go:120-155).                                                     *)
THEOREM ThrottlerImplementsForwarding == Spec => ImplementsForwarding
<1>1. Init => Promise!FwdInit
  BY DEF Init, Promise!FwdInit, phaseOf, PhaseOf
<1>2. ThrInd /\ [Next]_vars /\ ThrInd' => [Promise!FwdNext]_phaseOf
  <2>1. ASSUME ThrInd, ThrInd', Next PROVE Promise!FwdNext \/ UNCHANGED phaseOf
    <3>1. CASE \E r \in Requests : CallTry(r) \/ Step(r) \/ Enter(r) \/ GiveUp(r)
      BY <2>1, <3>1, RequestForwards
    <3>2. CASE \/ \E s \in Services : ReadyTimer(s) \/ ScaleUp(s) \/ TargetDown(s)
               \/ \E g \in Senders : Sender(g)
      <4>1. UNCHANGED <<pc, response>>
        BY <2>1, <3>2, OtherStep DEF ThrInd, TypeOK
      <4>. QED
        BY <4>1 DEF phaseOf, PhaseOf
    <3>. QED
      BY <2>1, <3>1, <3>2 DEF Next
  <2>2. ASSUME UNCHANGED vars PROVE UNCHANGED phaseOf
    BY <2>2 DEF vars, phaseOf, PhaseOf
  <2>. QED
    BY <2>1, <2>2
<1>. QED
  BY <1>1, <1>2, ThrIndInit, ThrIndNext, PTL DEF Spec, ImplementsForwarding, Promise!FwdSpec

-----------------------------------------------------------------------------
(* The labels at which a request is counted. *)
CountedLabels == Inside \cup {"maybe", "decLoad", "decStore"}

(* Until the updates of a service overlap, one request at a time is between *)
(* its load and its store, and what it loaded is still there.               *)
OneUpdate ==
    \A s \in Services : ~raced[s] =>
        \A r \in Requests : pc[r] \in Counting /\ svc[r] = s =>
            /\ size[r] = queueSize[s]
            /\ \A q \in Requests : pc[q] \in Counting /\ svc[q] = s => q = r

QueueInd == TypeOK /\ OneUpdate /\ QueueExactUnlessRaced

(* The set of counted requests, and that it is finite. *)
LEMMA CountedFacts ==
    ASSUME NEW s
    PROVE  /\ Counted(s) = {r \in Requests : pc[r] \in CountedLabels /\ svc[r] = s}
           /\ IsFiniteSet(Counted(s)) /\ Cardinality(Counted(s)) \in Nat
<1>1. Counted(s) = {r \in Requests : pc[r] \in CountedLabels /\ svc[r] = s}
  BY DEF Counted, At, CountedLabels
<1>2. IsFiniteSet(Counted(s))
  BY <1>1, ThrottlerAssumption, FS_Subset
<1>. QED
  BY <1>1, <1>2, FS_CardinalityType

(* A step that counts nobody in or out. *)
LEMMA QueueUntouched ==
    ASSUME QueueInd, UNCHANGED <<queueVars, svc, size>>,
           \A q \in Requests : /\ pc'[q] \in Counting <=> pc[q] \in Counting
                               /\ pc'[q] \in CountedLabels <=> pc[q] \in CountedLabels
    PROVE  OneUpdate' /\ QueueExactUnlessRaced'
<1>1. \A s : Counted(s)' = Counted(s)
  BY DEF Counted, At, CountedLabels
<1>2. QueueExactUnlessRaced'
  BY <1>1 DEF QueueInd, QueueExactUnlessRaced, queueVars
<1>3. OneUpdate'
  BY DEF QueueInd, OneUpdate, queueVars
<1>. QED
  BY <1>2, <1>3

(* The load of a queue size: a second one while the first is under way is a *)
(* race from then on.                                                       *)
LEMMA QueueLoad ==
    ASSUME QueueInd, NEW r \in Requests, NEW l \in Labels,
           LoadSize(r), pc' = [pc EXCEPT ![r] = l], svc' = svc,
           pc[r] \notin Counting, l \in Counting,
           l \in CountedLabels <=> pc[r] \in CountedLabels
    PROVE  OneUpdate' /\ QueueExactUnlessRaced'
<1>0. /\ pc \in [Requests -> Labels] /\ svc \in [Requests -> Services]
      /\ raced \in [Services -> BOOLEAN] /\ size \in [Requests -> Int]
      /\ queueSize' = queueSize /\ size' = [size EXCEPT ![r] = queueSize[svc[r]]]
      /\ raced' = [raced EXCEPT ![svc[r]] = @ \/ \E q \in At(Counting) : svc[q] = svc[r]]
  BY DEF QueueInd, TypeOK, LoadSize
<1>1. \A s \in Services : ~raced'[s] => ~raced[s]
  BY <1>0
<1>2. ASSUME NEW q \in Requests, pc[q] \in Counting, svc[q] = svc[r] PROVE raced'[svc[r]]
  BY <1>0, <1>2 DEF At
<1>3. \A s : Counted(s)' = Counted(s)
  BY <1>0 DEF Counted, At, CountedLabels
<1>4. QueueExactUnlessRaced'
  BY <1>0, <1>1, <1>3 DEF QueueInd, QueueExactUnlessRaced
<1>5. OneUpdate'
  <2>. SUFFICES ASSUME NEW s \in Services, ~raced'[s],
                       NEW p \in Requests, pc'[p] \in Counting, svc[p] = s
                PROVE  /\ size'[p] = queueSize[s]
                       /\ \A q \in Requests : pc'[q] \in Counting /\ svc[q] = s => q = p
    BY <1>0 DEF OneUpdate
  <2>1. CASE s = svc[r]
    <3>1. \A q \in Requests : svc[q] = s => pc[q] \notin Counting
      BY <1>2, <2>1
    <3>2. p = r /\ \A q \in Requests : pc'[q] \in Counting /\ svc[q] = s => q = r
      BY <1>0, <3>1
    <3>. QED
      BY <1>0, <2>1, <3>2
  <2>2. CASE s # svc[r]
    <3>1. \A q \in Requests : svc[q] = s => pc'[q] = pc[q] /\ size'[q] = size[q]
      BY <1>0, <2>2
    <3>. QED
      BY <1>1, <3>1 DEF QueueInd, OneUpdate
  <2>. QED
    BY <2>1, <2>2
<1>. QED
  BY <1>4, <1>5

(* Its store, by the only request that is between the two. *)
LEMMA QueueStore ==
    ASSUME QueueInd, NEW r \in Requests, NEW l \in Labels, NEW n \in Int,
           StoreSize(r, n), pc' = [pc EXCEPT ![r] = l], svc' = svc,
           pc[r] \in Counting, l \notin Counting,
           \/ n = size[r] + 1 /\ pc[r] \notin CountedLabels /\ l \in CountedLabels
           \/ n = size[r] - 1 /\ pc[r] \in CountedLabels /\ l \notin CountedLabels
    PROVE  OneUpdate' /\ QueueExactUnlessRaced'
<1>0. /\ pc \in [Requests -> Labels] /\ svc \in [Requests -> Services]
      /\ queueSize \in [Services -> Int] /\ size \in [Requests -> Int]
      /\ raced' = raced /\ queueSize' = [queueSize EXCEPT ![svc[r]] = n]
      /\ size' = [size EXCEPT ![r] = 0]
  BY DEF QueueInd, TypeOK, StoreSize
<1>1. OneUpdate'
  <2>. SUFFICES ASSUME NEW s \in Services, ~raced[s],
                       NEW p \in Requests, pc'[p] \in Counting, svc[p] = s
                PROVE  /\ size'[p] = queueSize'[s]
                       /\ \A q \in Requests : pc'[q] \in Counting /\ svc[q] = s => q = p
    BY <1>0 DEF OneUpdate
  <2>1. p # r /\ pc[p] \in Counting
    BY <1>0
  <2>2. s # svc[r]
    BY <1>0, <2>1 DEF QueueInd, OneUpdate
  <2>. QED
    BY <1>0, <2>1, <2>2 DEF QueueInd, OneUpdate
<1>2. QueueExactUnlessRaced'
  <2>. SUFFICES ASSUME NEW s \in Services, ~raced[s]
                PROVE  queueSize'[s] = Cardinality(Counted(s)')
    BY <1>0 DEF QueueExactUnlessRaced
  <2>0. queueSize[s] = Cardinality(Counted(s))
    BY DEF QueueInd, QueueExactUnlessRaced
  <2>1. CASE s # svc[r]
    <3>1. Counted(s)' = Counted(s)
      BY <1>0, <2>1 DEF Counted, At
    <3>. QED
      BY <1>0, <2>0, <2>1, <3>1
  <2>2. CASE s = svc[r]
    <3>1. size[r] = queueSize[s]
      BY <2>2 DEF QueueInd, OneUpdate
    <3>2. queueSize'[s] = n
      BY <1>0, <2>2
    <3>3. CASE n = size[r] + 1 /\ pc[r] \notin CountedLabels /\ l \in CountedLabels
      <4>1. Counted(s)' = Counted(s) \cup {r} /\ r \notin Counted(s)
        BY <1>0, <2>2, <3>3 DEF Counted, At, CountedLabels
      <4>2. Cardinality(Counted(s)') = Cardinality(Counted(s)) + 1
        BY <4>1, CountedFacts, FS_AddElement
      <4>. QED
        BY <2>0, <3>1, <3>2, <3>3, <4>2
    <3>4. CASE n = size[r] - 1 /\ pc[r] \in CountedLabels /\ l \notin CountedLabels
      <4>1. Counted(s)' = Counted(s) \ {r} /\ r \in Counted(s)
        BY <1>0, <2>2, <3>4 DEF Counted, At, CountedLabels
      <4>2. Cardinality(Counted(s)') = Cardinality(Counted(s)) - 1
        BY <4>1, CountedFacts, FS_RemoveElement
      <4>. QED
        BY <2>0, <3>1, <3>2, <3>4, <4>2
    <3>. QED
      BY <3>3, <3>4
  <2>. QED
    BY <2>1, <2>2
<1>. QED
  BY <1>1, <1>2

(* Every step keeps the count. *)
LEMMA QueueIndStep ==
    ASSUME QueueInd, Next
    PROVE  OneUpdate' /\ QueueExactUnlessRaced'
<1>0. pc \in [Requests -> Labels] /\ size \in [Requests -> Int]
  BY DEF QueueInd, TypeOK
<1>. USE DEF Labels, Counting, CountedLabels, Inside, Running
<1>1. ASSUME NEW r \in Requests, CallTry(r) PROVE OneUpdate' /\ QueueExactUnlessRaced'
  <2>1. LoadSize(r) /\ pc' = [pc EXCEPT ![r] = "incStore"] /\ svc' = svc /\ pc[r] = "idle"
    BY <1>1 DEF CallTry, Goto
  <2>. QED
    BY <2>1, QueueLoad
<1>2. ASSUME NEW r \in Requests, LoadDecrement(r) PROVE OneUpdate' /\ QueueExactUnlessRaced'
  <2>1. LoadSize(r) /\ pc' = [pc EXCEPT ![r] = "decStore"] /\ svc' = svc /\ pc[r] = "decLoad"
    BY <1>2 DEF LoadDecrement, Goto
  <2>. QED
    BY <2>1, QueueLoad
<1>3. ASSUME NEW r \in Requests, StoreIncrement(r) PROVE OneUpdate' /\ QueueExactUnlessRaced'
  <2>1. /\ StoreSize(r, size[r] + 1) /\ pc' = [pc EXCEPT ![r] = "maybe"] /\ svc' = svc
        /\ pc[r] = "incStore" /\ size[r] + 1 \in Int
    BY <1>0, <1>3 DEF StoreIncrement, Goto
  <2>. DEFINE n == size[r] + 1
  <2>2. /\ pc[r] \in Counting /\ pc[r] \notin CountedLabels
        /\ "maybe" \in Labels \ Counting /\ "maybe" \in CountedLabels
    BY <2>1
  <2>3. n \in Int /\ StoreSize(r, n) /\ n = size[r] + 1
    BY <2>1
  <2>. HIDE DEF n, Labels, Counting, CountedLabels
  <2>. QED
    BY <2>1, <2>2, <2>3, QueueStore
<1>4. ASSUME NEW r \in Requests, StoreDecrement(r) PROVE OneUpdate' /\ QueueExactUnlessRaced'
  <2>1. /\ StoreSize(r, size[r] - 1) /\ pc' = [pc EXCEPT ![r] = "done"] /\ svc' = svc
        /\ pc[r] = "decStore" /\ size[r] - 1 \in Int
    BY <1>0, <1>4 DEF StoreDecrement, Goto
  <2>. DEFINE n == size[r] - 1
  <2>2. /\ pc[r] \in Counting /\ pc[r] \in CountedLabels
        /\ "done" \in Labels \ Counting /\ "done" \notin CountedLabels
    BY <2>1
  <2>3. n \in Int /\ StoreSize(r, n) /\ n = size[r] - 1
    BY <2>1
  <2>. HIDE DEF n, Labels, Counting, CountedLabels
  <2>. QED
    BY <2>1, <2>2, <2>3, QueueStore
<1>5. ASSUME NEW r \in Requests,
             \/ CallMaybe(r) \/ FetchReady(r) \/ FetchNotReady(r) \/ ProxyReturns(r)
             \/ ProxyFails(r) \/ WakeUp(r) \/ Enter(r) \/ GiveUp(r)
      PROVE  OneUpdate' /\ QueueExactUnlessRaced'
  <2>1. UNCHANGED <<queueVars, svc, size>>
    BY <1>5 DEF CallMaybe, FetchReady, FetchNotReady, ProxyReturns, ProxyFails, WakeUp, Enter, GiveUp
  <2>2. \A q \in Requests \ {r} : pc'[q] = pc[q]
    BY <1>0, <1>5 DEF CallMaybe, FetchReady, FetchNotReady, ProxyReturns, ProxyFails, WakeUp, Enter, GiveUp,
                Resolve, Reenqueue, EndThunk, ContextDone, Goto
  <2>3. /\ pc[r] \in {"maybe", "wait", "fetch", "proxying", "sleep"}
        /\ pc'[r] \in {"maybe", "wait", "fetch", "proxying", "sleep", "decLoad"}
    BY <1>0, <1>5 DEF CallMaybe, FetchReady, FetchNotReady, ProxyReturns, ProxyFails, WakeUp, Enter, GiveUp,
                Resolve, Reenqueue, EndThunk, ContextDone, Goto
  <2>. QED
    BY <2>1, <2>2, <2>3, QueueUntouched
<1>6. CASE \/ \E s \in Services : ReadyTimer(s) \/ ScaleUp(s) \/ TargetDown(s)
           \/ \E g \in Senders : Sender(g)
  <2>1. UNCHANGED <<queueVars, svc, size, pc>>
    BY <1>6 DEF ReadyTimer, ScaleUp, TargetDown, Sender
  <2>. QED
    BY <2>1, QueueUntouched
<1>. QED
  BY <1>1, <1>2, <1>3, <1>4, <1>5, <1>6 DEF Next, Step

(* The queue size is exact as long as no two updates of it overlap, for any *)
(* number of requests: every way out of Try takes its request off again     *)
(* (throttler.go:58-59, 126-134).  That they may overlap is the race of     *)
(* their load and store.                                                    *)
THEOREM ThrottlerQueueExact == Spec => []QueueExactUnlessRaced
<1>1. Init => OneUpdate /\ QueueExactUnlessRaced
  <2>. SUFFICES ASSUME Init PROVE OneUpdate /\ QueueExactUnlessRaced
    OBVIOUS
  <2>1. \A s : Counted(s) = {}
    BY DEF Init, Counted, At, Inside, Running
  <2>. QED
    BY <2>1, FS_EmptySet DEF Init, OneUpdate, QueueExactUnlessRaced, Counting
<1>2. TypeOK /\ OneUpdate /\ QueueExactUnlessRaced /\ [Next]_vars => OneUpdate' /\ QueueExactUnlessRaced'
  <2>1. ASSUME QueueInd, UNCHANGED vars PROVE OneUpdate' /\ QueueExactUnlessRaced'
    BY <2>1, QueueUntouched DEF vars
  <2>. QED
    BY <2>1, QueueIndStep DEF QueueInd
<1>. QED
  BY <1>1, <1>2, ThrottlerTypeOK, PTL DEF Spec
=============================================================================
