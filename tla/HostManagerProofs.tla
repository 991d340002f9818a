-------------------------- MODULE HostManagerProofs --------------------------
(***************************************************************************)
(* Proofs about the host manager, for any number of requests and hosts.    *)
(***************************************************************************)
EXTENDS HostManager, TLAPS

(* Where a request needs the object it has, and where one is in the map. *)
ObjectsThere ==
    /\ \A r \in Requests : pc[r] \in {"check", "setFalse", "storeBack"} => obj[r] \in Requests
    /\ \A r \in Requests : pc[r] \in {"check", "try", "disable", "setFalse", "storeBack"}
            => hosts[host[r]] \in Requests
    /\ \A r \in Requests : timer[r] # "none" => hosts[host[r]] \in Requests
    /\ \A r \in Requests : timer[r] \in {"loaded", "assigned"} => seen[r] \in Requests

(* Every object is used for the host it was made for. *)
OfOneHost ==
    /\ \A h \in Hosts : hosts[h] \in Requests => host[hosts[h]] = h
    /\ \A r \in Requests : /\ obj[r] \in Requests => host[obj[r]] = host[r]
                           /\ seen[r] \in Requests => host[seen[r]] = host[r]

(* An object that its request has not stored yet is known to nobody, and   *)
(* lets traffic through.                                                   *)
Fresh ==
    \A r \in Requests : pc[r] \in {"getHost", "storeHost"} =>
        /\ allowed[r] /\ \A h \in Hosts : hosts[h] # r
        /\ \A q \in Requests : obj[q] # r /\ seen[q] # r

(* An object that an enabler is about to put back and whose traffic is off  *)
(* again has been switched off since: that timer waits for the enabler, or  *)
(* has yet to be started.                                                   *)
PutBackIsTimed ==
    \A e \in Requests : timer[e] = "assigned" /\ ~allowed[seen[e]] =>
        \/ Switching(host[e])
        \/ \E r \in Requests : timer[r] = "set" /\ host[r] = host[e] /\ e \in ahead[r]

HostInd == TypeOK /\ ObjectsThere /\ OfOneHost /\ Fresh

TimedInd == PutBackIsTimed /\ DisabledIsTimed

(* The types of the state, one by one. *)
LEMMA HostTypes ==
    ASSUME HostInd
    PROVE  /\ pc \in [Requests -> Labels] /\ obj \in [Requests -> Requests \cup {None}]
           /\ host \in [Requests -> Hosts] /\ hosts \in [Hosts -> Requests \cup {None}]
           /\ allowed \in [Requests -> BOOLEAN] /\ timer \in [Requests -> Stages]
           /\ seen \in [Requests -> Requests \cup {None}] /\ ahead \in [Requests -> SUBSET Requests]
           /\ None \notin Requests
BY HostManagerAssumption DEF HostInd, TypeOK

(* The initial states. *)
LEMMA HostIndInit == Init => HostInd /\ TimedInd
<1>. SUFFICES ASSUME Init PROVE HostInd /\ TimedInd
  OBVIOUS
<1>1. TypeOK
  BY DEF Init, TypeOK, FwdInit, Phases, Labels, Stages
<1>2. ObjectsThere /\ OfOneHost /\ Fresh
  BY HostManagerAssumption DEF Init, ObjectsThere, OfOneHost, Fresh
<1>3. TimedInd
  BY DEF Init, TimedInd, PutBackIsTimed, DisabledIsTimed
<1>. QED
  BY <1>1, <1>2, <1>3 DEF HostInd

-----------------------------------------------------------------------------
(* The steps of a request that do not touch the hosts. *)
Untouched(r) ==
    /\ UNCHANGED <<host, hostVars, timerVars>>
    /\ pc[r] # "storeBack"
    /\ \E l \in Labels \ {"getHost", "storeBack"}, o \in {obj[r], hosts[host[r]]} :
          /\ pc' = [pc EXCEPT ![r] = l] /\ obj' = [obj EXCEPT ![r] = o]
          /\ l = "storeHost" => pc[r] = "getHost"
          /\ l \in {"check", "try", "disable", "setFalse"} => hosts[host[r]] \in Requests
          /\ l \in {"check", "setFalse"} => o \in Requests

(* What each step of a request is. *)
LEMMA RequestSteps ==
    ASSUME HostInd, NEW r \in Requests, Step(r) \/ BadHost(r)
    PROVE  \/ Untouched(r) \/ TrySends(r) \/ StoreHost(r) \/ SetFalse(r) \/ StoreBack(r)
<1>0. /\ pc \in [Requests -> Labels] /\ obj \in [Requests -> Requests \cup {None}]
      /\ host[r] \in Hosts /\ hosts \in [Hosts -> Requests \cup {None}] /\ None \notin Requests
  BY HostTypes
<1>1. obj = [obj EXCEPT ![r] = obj[r]]
  BY <1>0
<1>. USE DEF Goto, Labels, Untouched
<1>2. CASE GetHost(r)
  <2>1. /\ obj' = [obj EXCEPT ![r] = hosts[host[r]]] /\ pc[r] = "getHost"
        /\ UNCHANGED <<host, hostVars, timerVars>>
    BY <1>2 DEF GetHost
  <2>2. CASE hosts[host[r]] = None
    <3>1. pc' = [pc EXCEPT ![r] = "storeHost"] /\ "storeHost" \in Labels \ {"getHost", "storeBack"}
      BY <1>2, <2>2 DEF GetHost
    <3>. HIDE DEF Labels
    <3>. QED
      BY <2>1, <3>1
  <2>3. CASE hosts[host[r]] # None
    <3>1. pc' = [pc EXCEPT ![r] = "check"] /\ hosts[host[r]] \in Requests
      BY <1>0, <1>2, <2>3 DEF GetHost
    <3>. QED
      BY <1>0, <2>1, <3>1
  <2>. QED
    BY <2>2, <2>3
<1>3. CASE BadHost(r)
  <2>1. /\ pc' = [pc EXCEPT ![r] = "done"] /\ obj' = [obj EXCEPT ![r] = obj[r]] /\ pc[r] = "getHost"
        /\ UNCHANGED <<host, hostVars, timerVars>> /\ "done" \in Labels \ {"getHost", "storeBack"}
    BY <1>1, <1>3 DEF BadHost
  <2>. HIDE DEF Labels
  <2>. QED
    BY <2>1
<1>4. CASE CheckHost(r) \/ TryRefuses(r) \/ ProxyRequest(r)
  <2>1. PICK l \in {"try", "disable", "done"} : pc' = [pc EXCEPT ![r] = l]
    BY <1>4 DEF CheckHost, TryRefuses, ProxyRequest
  <2>2. pc[r] \in {"check", "try"} /\ hosts[host[r]] \in Requests
    BY <1>0, <1>4 DEF CheckHost, TryRefuses, ProxyRequest, HostInd, ObjectsThere
  <2>3. obj' = [obj EXCEPT ![r] = obj[r]] /\ UNCHANGED <<host, hostVars, timerVars>>
    BY <1>1, <1>4 DEF CheckHost, TryRefuses, ProxyRequest
  <2>. QED
    BY <2>1, <2>2, <2>3
<1>5. CASE LoadHost(r)
  <2>1. hosts[host[r]] \in Requests
    BY <1>0, <1>5 DEF LoadHost, HostInd, ObjectsThere
  <2>. QED
    BY <1>0, <1>5, <2>1 DEF LoadHost
<1>. QED
  BY <1>2, <1>3, <1>4, <1>5 DEF Step

(* The types. *)
LEMMA HostTypeStep ==
    ASSUME HostInd, NEW r \in Requests, Step(r) \/ BadHost(r) \/ Enabler(r)
    PROVE  TypeOK'
<1>0. TypeOK
  BY DEF HostInd
<1>1. phase' \in [Requests -> Phases]
  BY <1>0 DEF TypeOK, Phases, Step, BadHost, Enabler, GetHost, StoreHost, CheckHost, TryRefuses, TrySends,
     ProxyRequest, LoadHost, SetFalse, StoreBack, EnableTimer, SetTrue, StoreEnabled, Hold, Refuse, Send, Answer, Move
<1>2. CASE Untouched(r)
  <2>1. obj' \in [Requests -> Requests \cup {None}] /\ pc' \in [Requests -> Labels]
    BY <1>0, <1>2 DEF Untouched, TypeOK
  <2>. QED
    BY <1>0, <1>1, <1>2, <2>1 DEF Untouched, TypeOK, hostVars, timerVars
<1>3. CASE TrySends(r)
  BY <1>0, <1>1, <1>3 DEF TrySends, TypeOK, hostVars, timerVars
<1>4. CASE StoreHost(r)
  BY <1>0, <1>1, <1>4 DEF StoreHost, Goto, TypeOK, Labels, timerVars
<1>5. CASE SetFalse(r)
  BY <1>0, <1>1, <1>5 DEF SetFalse, Goto, TypeOK, Labels, timerVars
<1>6. CASE StoreBack(r)
  <2>1. UnderWay(host[r]) \in SUBSET Requests
    BY DEF UnderWay
  <2>2. /\ hosts' = [hosts EXCEPT ![host[r]] = obj[r]] /\ timer' = [timer EXCEPT ![r] = "set"]
        /\ ahead' = [ahead EXCEPT ![r] = UnderWay(host[r])] /\ pc' = [pc EXCEPT ![r] = "done"]
        /\ UNCHANGED <<host, allowed, obj, seen>>
    BY <1>6 DEF StoreBack, StartTimer, Goto
  <2>. HIDE DEF UnderWay
  <2>3. ahead' \in [Requests -> SUBSET Requests]
    BY <1>0, <2>1, <2>2 DEF TypeOK
  <2>. QED
    BY <1>0, <1>1, <2>2, <2>3 DEF TypeOK, Labels, Stages
<1>7. CASE EnableTimer(r)
  <2>1. timer' \in [Requests -> Stages] /\ seen' \in [Requests -> Requests \cup {None}]
    BY <1>0, <1>7 DEF EnableTimer, TypeOK, Stages
  <2>. QED
    BY <1>0, <1>1, <1>7, <2>1 DEF EnableTimer, TypeOK, hostVars
<1>8. CASE SetTrue(r)
  BY <1>0, <1>1, <1>8 DEF SetTrue, TypeOK, Stages
<1>9. CASE StoreEnabled(r)
  BY <1>0, <1>1, <1>9 DEF StoreEnabled, TypeOK, Stages
<1>. QED
  BY <1>2, <1>3, <1>4, <1>5, <1>6, <1>7, <1>8, <1>9, RequestSteps DEF Enabler

(* Where the objects are. *)
LEMMA HostObjects ==
    ASSUME HostInd, NEW r \in Requests, Step(r) \/ BadHost(r) \/ Enabler(r)
    PROVE  ObjectsThere' /\ OfOneHost' /\ Fresh'
<1>0. /\ pc \in [Requests -> Labels] /\ obj \in [Requests -> Requests \cup {None}]
      /\ host \in [Requests -> Hosts] /\ hosts \in [Hosts -> Requests \cup {None}]
      /\ allowed \in [Requests -> BOOLEAN] /\ timer \in [Requests -> Stages]
      /\ seen \in [Requests -> Requests \cup {None}] /\ None \notin Requests
  BY HostTypes
<1>i. ObjectsThere /\ OfOneHost /\ Fresh
  BY DEF HostInd
<1>1. CASE Untouched(r)
  <2>1. PICK l \in Labels \ {"getHost", "storeBack"}, o \in {obj[r], hosts[host[r]]} :
          /\ pc' = [pc EXCEPT ![r] = l] /\ obj' = [obj EXCEPT ![r] = o]
          /\ l = "storeHost" => pc[r] = "getHost"
          /\ l \in {"check", "try", "disable", "setFalse"} => hosts[host[r]] \in Requests
          /\ l \in {"check", "setFalse"} => o \in Requests
    BY <1>1 DEF Untouched
  <2>2. UNCHANGED <<host, hosts, allowed, timer, seen, ahead>>
    BY <1>1 DEF Untouched, hostVars, timerVars
  <2>3. ObjectsThere'
    BY <1>0, <1>i, <2>1, <2>2 DEF ObjectsThere
  <2>4. OfOneHost'
    BY <1>0, <1>i, <2>1, <2>2 DEF OfOneHost
  <2>5. Fresh'
    BY <1>0, <1>i, <2>1, <2>2 DEF Fresh
  <2>. QED
    BY <2>3, <2>4, <2>5
<1>2. CASE TrySends(r)
  BY <1>2, <1>i DEF TrySends, hostVars, timerVars, ObjectsThere, OfOneHost, Fresh
<1>3. CASE StoreHost(r)
  <2>1. /\ hosts' = [hosts EXCEPT ![host[r]] = r] /\ obj' = [obj EXCEPT ![r] = r]
        /\ pc' = [pc EXCEPT ![r] = "check"] /\ pc[r] = "storeHost"
        /\ UNCHANGED <<host, allowed, timer, seen, ahead>>
    BY <1>3 DEF StoreHost, Goto, timerVars
  <2>2. ObjectsThere'
    BY <1>0, <1>i, <2>1 DEF ObjectsThere
  <2>3. OfOneHost'
    BY <1>0, <1>i, <2>1 DEF OfOneHost
  <2>4. Fresh'
    BY <1>0, <1>i, <2>1 DEF Fresh
  <2>. QED
    BY <2>2, <2>3, <2>4
<1>4. CASE SetFalse(r)
  <2>1. /\ allowed' = [allowed EXCEPT ![obj[r]] = FALSE]
        /\ pc' = [pc EXCEPT ![r] = "storeBack"] /\ pc[r] = "setFalse" /\ obj[r] \in Requests
        /\ UNCHANGED <<host, hosts, timer, seen, ahead, obj>>
    BY <1>4, <1>i DEF SetFalse, Goto, timerVars, ObjectsThere
  <2>. QED
    BY <1>0, <1>i, <2>1 DEF ObjectsThere, OfOneHost, Fresh
<1>5. CASE StoreBack(r)
  <2>1. /\ hosts' = [hosts EXCEPT ![host[r]] = obj[r]] /\ timer' = [timer EXCEPT ![r] = "set"]
        /\ pc' = [pc EXCEPT ![r] = "done"] /\ pc[r] = "storeBack" /\ obj[r] \in Requests
        /\ UNCHANGED <<host, allowed, obj, seen>>
    BY <1>5, <1>i DEF StoreBack, StartTimer, Goto, ObjectsThere
  <2>2. ObjectsThere'
    BY <1>0, <1>i, <2>1 DEF ObjectsThere
  <2>3. OfOneHost' /\ Fresh'
    BY <1>0, <1>i, <2>1 DEF OfOneHost, Fresh
  <2>. QED
    BY <2>2, <2>3
<1>6. CASE EnableTimer(r)
  <2>. DEFINE o == hosts[host[r]]
  <2>1. /\ timer' = [timer EXCEPT ![r] = IF allowed[o] THEN "done" ELSE "loaded"]
        /\ seen' = [seen EXCEPT ![r] = IF allowed[o] THEN seen[r] ELSE o]
        /\ o \in Requests /\ host[o] = host[r] /\ timer[r] = "set"
        /\ UNCHANGED <<host, hosts, allowed, pc, obj>>
    BY <1>0, <1>6, <1>i DEF EnableTimer, hostVars, ObjectsThere, OfOneHost
  <2>2. ObjectsThere'
    BY <1>0, <1>i, <2>1 DEF ObjectsThere
  <2>3. OfOneHost'
    BY <1>0, <1>i, <2>1 DEF OfOneHost
  <2>4. Fresh'
    BY <1>0, <1>i, <2>1 DEF Fresh
  <2>. QED
    BY <2>2, <2>3, <2>4
<1>7. CASE SetTrue(r)
  <2>1. /\ allowed' = [allowed EXCEPT ![seen[r]] = TRUE] /\ timer' = [timer EXCEPT ![r] = "assigned"]
        /\ timer[r] = "loaded" /\ UNCHANGED <<host, hosts, seen, pc, obj>>
    BY <1>7 DEF SetTrue
  <2>. QED
    BY <1>0, <1>i, <2>1 DEF ObjectsThere, OfOneHost, Fresh
<1>8. CASE StoreEnabled(r)
  <2>1. /\ hosts' = [hosts EXCEPT ![host[r]] = seen[r]] /\ timer' = [timer EXCEPT ![r] = "done"]
        /\ timer[r] = "assigned" /\ seen[r] \in Requests /\ UNCHANGED <<host, allowed, seen, pc, obj>>
    BY <1>8, <1>i DEF StoreEnabled, ObjectsThere
  <2>2. ObjectsThere'
    BY <1>0, <1>i, <2>1 DEF ObjectsThere
  <2>3. OfOneHost' /\ Fresh'
    BY <1>0, <1>i, <2>1 DEF OfOneHost, Fresh
  <2>. QED
    BY <2>2, <2>3
<1>. QED
  BY <1>1, <1>2, <1>3, <1>4, <1>5, <1>6, <1>7, <1>8, RequestSteps DEF Enabler

(* The first part of the invariant is inductive, and needs no assumption. *)
LEMMA HostIndNext == HostInd /\ [Next]_vars => HostInd'
<1>1. ASSUME HostInd, Next PROVE HostInd'
  BY <1>1, HostTypeStep, HostObjects DEF HostInd, Next
<1>2. ASSUME HostInd, UNCHANGED vars PROVE HostInd'
  BY <1>2 DEF HostInd, TypeOK, ObjectsThere, OfOneHost, Fresh, vars, hostVars, timerVars
<1>. QED
  BY <1>1, <1>2

(* Type correctness of the host manager. *)
THEOREM HostManagerTypeOK == Spec => []TypeOK
<1>1. HostInd => TypeOK
  BY DEF HostInd
<1>. QED
  BY <1>1, HostIndInit, HostIndNext, PTL DEF Spec

-----------------------------------------------------------------------------
(* The steps of a request keep what is timed. *)
LEMMA RequestTimed ==
    ASSUME HostInd, TimedInd, NEW r \in Requests, Step(r) \/ BadHost(r)
    PROVE  TimedInd'
<1>0. /\ pc \in [Requests -> Labels] /\ obj \in [Requests -> Requests \cup {None}]
      /\ host \in [Requests -> Hosts] /\ hosts \in [Hosts -> Requests \cup {None}]
      /\ allowed \in [Requests -> BOOLEAN] /\ timer \in [Requests -> Stages]
      /\ seen \in [Requests -> Requests \cup {None}] /\ ahead \in [Requests -> SUBSET Requests]
      /\ None \notin Requests
  BY HostTypes
<1>i. ObjectsThere /\ OfOneHost /\ Fresh /\ PutBackIsTimed /\ DisabledIsTimed
  BY DEF HostInd, TimedInd
<1>1. CASE Untouched(r)
  <2>1. UNCHANGED <<host, hosts, allowed, timer, seen, ahead>>
    BY <1>1 DEF Untouched, hostVars, timerVars
  <2>2. \A h \in Hosts : Switching(h)' <=> Switching(h)
    BY <1>0, <1>1 DEF Untouched, Switching
  <2>. QED
    BY <1>0, <1>i, <2>1, <2>2 DEF TimedInd, PutBackIsTimed, DisabledIsTimed, Timed
<1>2. CASE TrySends(r)
  BY <1>2, <1>i DEF TrySends, hostVars, timerVars, TimedInd, PutBackIsTimed, DisabledIsTimed, Timed, Switching
<1>3. CASE StoreHost(r)
  <2>1. /\ hosts' = [hosts EXCEPT ![host[r]] = r]
        /\ pc' = [pc EXCEPT ![r] = "check"] /\ pc[r] = "storeHost" /\ allowed[r]
        /\ UNCHANGED <<host, allowed, timer, seen, ahead>>
    BY <1>3, <1>i DEF StoreHost, Goto, timerVars, Fresh
  <2>2. \A h \in Hosts : Switching(h)' <=> Switching(h)
    BY <1>0, <2>1 DEF Switching
  <2>. QED
    BY <1>0, <1>i, <2>1, <2>2 DEF TimedInd, PutBackIsTimed, DisabledIsTimed, Timed
<1>4. CASE SetFalse(r)
  <2>1. /\ allowed' = [allowed EXCEPT ![obj[r]] = FALSE]
        /\ pc' = [pc EXCEPT ![r] = "storeBack"] /\ obj[r] \in Requests /\ host[obj[r]] = host[r]
        /\ UNCHANGED <<host, hosts, timer, seen, ahead>>
    BY <1>4, <1>i DEF SetFalse, Goto, timerVars, ObjectsThere, OfOneHost
  <2>2. Switching(host[r])' /\ \A h \in Hosts : Switching(h) => Switching(h)'
    BY <1>0, <2>1 DEF Switching
  <2>3. PutBackIsTimed'
    <3>. SUFFICES ASSUME NEW e \in Requests, timer[e] = "assigned", ~allowed'[seen[e]], host[e] # host[r]
                  PROVE  ~allowed[seen[e]]
      BY <1>0, <1>i, <2>1, <2>2 DEF PutBackIsTimed
    <3>1. seen[e] \in Requests /\ host[seen[e]] = host[e]
      BY <1>i DEF ObjectsThere, OfOneHost
    <3>. QED
      BY <1>0, <2>1, <3>1
  <2>4. DisabledIsTimed'
    <3>. SUFFICES ASSUME NEW h \in Hosts, hosts[h] # None, ~allowed'[hosts[h]], h # host[r]
                  PROVE  ~allowed[hosts[h]]
      BY <1>0, <1>i, <2>1, <2>2 DEF DisabledIsTimed, Timed
    <3>1. hosts[h] \in Requests /\ host[hosts[h]] = h
      BY <1>0, <1>i DEF OfOneHost
    <3>. QED
      BY <1>0, <2>1, <3>1
  <2>. QED
    BY <2>3, <2>4 DEF TimedInd
<1>5. CASE StoreBack(r)
  <2>1. /\ hosts' = [hosts EXCEPT ![host[r]] = obj[r]] /\ timer' = [timer EXCEPT ![r] = "set"]
        /\ ahead' = [ahead EXCEPT ![r] = {e \in Requests : timer[e] = "assigned" /\ host[e] = host[r]}]
        /\ pc' = [pc EXCEPT ![r] = "done"] /\ pc[r] = "storeBack"
        /\ UNCHANGED <<host, allowed, obj, seen>>
    BY <1>5 DEF StoreBack, StartTimer, UnderWay, Goto
  <2>2. \A h \in Hosts : h # host[r] => (Switching(h)' <=> Switching(h))
    BY <1>0, <2>1 DEF Switching
  <2>3. timer'[r] = "set" /\ \A e \in Requests : timer[e] = "assigned" /\ host[e] = host[r] => e \in ahead'[r]
    BY <1>0, <2>1
  <2>4. \A q \in Requests : q # r => timer'[q] = timer[q] /\ ahead'[q] = ahead[q]
    BY <1>0, <2>1
  <2>5. PutBackIsTimed'
    <3>. SUFFICES ASSUME NEW e \in Requests, timer'[e] = "assigned", ~allowed[seen[e]]
                  PROVE  \/ Switching(host[e])'
                         \/ \E q \in Requests : timer'[q] = "set" /\ host[q] = host[e] /\ e \in ahead'[q]
      BY <2>1 DEF PutBackIsTimed
    <3>1. timer[e] = "assigned" /\ host[e] \in Hosts
      BY <1>0, <2>3, <2>4
    <3>2. CASE host[e] = host[r]
      BY <2>3, <3>1, <3>2
    <3>3. CASE host[e] # host[r]
      <4>1. CASE Switching(host[e])
        BY <1>0, <2>1, <3>1, <3>3, <4>1 DEF Switching
      <4>2. CASE ~Switching(host[e])
        <5>1. PICK q \in Requests : timer[q] = "set" /\ host[q] = host[e] /\ e \in ahead[q]
          BY <1>i, <3>1, <4>2 DEF PutBackIsTimed
        <5>. QED
          BY <2>4, <3>3, <5>1
      <4>. QED
        BY <4>1, <4>2
    <3>. QED
      BY <3>2, <3>3
  <2>6. DisabledIsTimed'
    <3>. SUFFICES ASSUME NEW h \in Hosts, hosts'[h] # None, ~allowed[hosts'[h]], h # host[r]
                  PROVE  Timed(h, hosts[h])' \/ Switching(h)'
      BY <1>0, <2>1, <2>3 DEF DisabledIsTimed, Timed
    <3>1. hosts'[h] = hosts[h]
      BY <1>0, <2>1
    <3>2. Timed(h, hosts[h]) \/ Switching(h)
      BY <1>i, <3>1 DEF DisabledIsTimed
    <3>3. Timed(h, hosts[h]) => Timed(h, hosts[h])'
      BY <2>1, <2>4, <3>1 DEF Timed
    <3>. QED
      BY <2>2, <3>2, <3>3
  <2>. QED
    BY <2>5, <2>6 DEF TimedInd
<1>. QED
  BY <1>1, <1>2, <1>3, <1>4, <1>5, RequestSteps

(* The steps of enableTrafficForHost.  A timer that fires sees the object in the *)
(* map, and nobody who is about to put another back relies on it.                *)
LEMMA EnablerTimed ==
    ASSUME Prompt, HostInd, TimedInd, NEW r \in Requests, Enabler(r)
    PROVE  TimedInd'
<1>0. /\ host \in [Requests -> Hosts] /\ hosts \in [Hosts -> Requests \cup {None}]
      /\ allowed \in [Requests -> BOOLEAN] /\ timer \in [Requests -> Stages]
      /\ seen \in [Requests -> Requests \cup {None}] /\ None \notin Requests
  BY HostTypes
<1>i. ObjectsThere /\ OfOneHost /\ PutBackIsTimed /\ DisabledIsTimed
  BY DEF HostInd, TimedInd
<1>1. UNCHANGED <<host, pc, obj, ahead>> /\ \A h \in Hosts : Switching(h)' <=> Switching(h)
  BY DEF Enabler, EnableTimer, SetTrue, StoreEnabled, Switching
<1>2. CASE EnableTimer(r)
  <2>. DEFINE o == hosts[host[r]]
  <2>1. /\ timer' = [timer EXCEPT ![r] = IF allowed[o] THEN "done" ELSE "loaded"]
        /\ seen' = [seen EXCEPT ![r] = IF allowed[o] THEN seen[r] ELSE o]
        /\ timer[r] = "set" /\ \A e \in ahead[r] : timer[e] # "assigned"
        /\ UNCHANGED <<hosts, allowed>>
    BY <1>2 DEF EnableTimer, hostVars
  <2>2. \A q \in Requests : q # r => timer'[q] = timer[q] /\ seen'[q] = seen[q]
    BY <1>0, <2>1
  <2>3. timer'[r] \in {"done", "loaded"} /\ (~allowed[o] => timer'[r] = "loaded" /\ seen'[r] = o)
    BY <1>0, <2>1
  <2>4. PutBackIsTimed'
    <3>. SUFFICES ASSUME NEW e \in Requests, timer[e] = "assigned", ~allowed[seen[e]], ~Switching(host[e])
                  PROVE  \E q \in Requests : timer'[q] = "set" /\ host[q] = host[e] /\ e \in ahead[q]
      BY <1>0, <1>1, <2>1, <2>2, <2>3 DEF PutBackIsTimed
    <3>1. PICK q \in Requests : timer[q] = "set" /\ host[q] = host[e] /\ e \in ahead[q]
      BY <1>i DEF PutBackIsTimed
    <3>2. q # r
      BY <2>1, <3>1
    <3>. QED
      BY <2>2, <3>1, <3>2
  <2>5. DisabledIsTimed'
    <3>. SUFFICES ASSUME NEW h \in Hosts, hosts[h] # None, ~allowed[hosts[h]], ~Switching(h)
                  PROVE  Timed(h, hosts[h])'
      BY <1>1, <2>1 DEF DisabledIsTimed
    <3>1. CASE h = host[r]
      BY <1>1, <2>1, <2>3, <3>1 DEF Timed
    <3>2. CASE h # host[r]
      <4>1. Timed(h, hosts[h])
        BY <1>i DEF DisabledIsTimed
      <4>. QED
        BY <1>1, <2>1, <2>2, <3>2, <4>1 DEF Timed
    <3>. QED
      BY <3>1, <3>2
  <2>. QED
    BY <2>4, <2>5 DEF TimedInd
<1>3. CASE SetTrue(r)
  <2>1. /\ allowed' = [allowed EXCEPT ![seen[r]] = TRUE] /\ timer' = [timer EXCEPT ![r] = "assigned"]
        /\ timer[r] = "loaded" /\ seen[r] \in Requests /\ UNCHANGED <<hosts, seen>>
    BY <1>3, <1>i DEF SetTrue, ObjectsThere
  <2>2. /\ \A q \in Requests : q # r => timer'[q] = timer[q]
        /\ timer'[r] = "assigned" /\ allowed'[seen[r]]
        /\ \A o \in Requests : ~allowed'[o] => ~allowed[o] /\ o # seen[r]
    BY <1>0, <2>1
  <2>3. PutBackIsTimed'
    <3>. SUFFICES ASSUME NEW e \in Requests, timer'[e] = "assigned", ~allowed'[seen[e]], ~Switching(host[e])
                  PROVE  \E q \in Requests : timer'[q] = "set" /\ host[q] = host[e] /\ e \in ahead[q]
      BY <1>0, <1>1, <2>1 DEF PutBackIsTimed
    <3>1. e # r /\ timer[e] = "assigned" /\ seen[e] \in Requests
      BY <1>i, <2>2 DEF ObjectsThere
    <3>2. ~allowed[seen[e]]
      BY <2>2, <3>1
    <3>3. PICK q \in Requests : timer[q] = "set" /\ host[q] = host[e] /\ e \in ahead[q]
      BY <1>i, <3>1, <3>2 DEF PutBackIsTimed
    <3>. QED
      BY <2>1, <2>2, <3>3
  <2>4. DisabledIsTimed'
    <3>. SUFFICES ASSUME NEW h \in Hosts, hosts[h] # None, ~allowed'[hosts[h]], ~Switching(h)
                  PROVE  Timed(h, hosts[h])'
      BY <1>1, <2>1 DEF DisabledIsTimed
    <3>1. hosts[h] \in Requests /\ ~allowed[hosts[h]] /\ hosts[h] # seen[r]
      BY <1>0, <2>2
    <3>2. PICK q \in Requests : host[q] = h /\ (timer[q] = "set" \/ (timer[q] = "loaded" /\ seen[q] = hosts[h]))
      BY <1>i, <3>1 DEF DisabledIsTimed, Timed
    <3>3. q # r
      BY <2>1, <3>1, <3>2
    <3>. QED
      BY <1>1, <2>1, <2>2, <3>2, <3>3 DEF Timed
  <2>. QED
    BY <2>3, <2>4 DEF TimedInd
<1>4. CASE StoreEnabled(r)
  <2>1. /\ hosts' = [hosts EXCEPT ![host[r]] = seen[r]] /\ timer' = [timer EXCEPT ![r] = "done"]
        /\ timer[r] = "assigned" /\ seen[r] \in Requests /\ UNCHANGED <<allowed, seen>>
    BY <1>4, <1>i DEF StoreEnabled, ObjectsThere
  <2>2. timer'[r] = "done" /\ \A q \in Requests : q # r => timer'[q] = timer[q]
    BY <1>0, <2>1
  <2>3. PutBackIsTimed'
    <3>. SUFFICES ASSUME NEW e \in Requests, timer[e] = "assigned", ~allowed[seen[e]], ~Switching(host[e])
                  PROVE  \E q \in Requests : timer'[q] = "set" /\ host[q] = host[e] /\ e \in ahead[q]
      BY <1>0, <1>1, <2>1, <2>2 DEF PutBackIsTimed
    <3>1. PICK q \in Requests : timer[q] = "set" /\ host[q] = host[e] /\ e \in ahead[q]
      BY <1>i DEF PutBackIsTimed
    <3>. QED
      BY <2>1, <2>2, <3>1
  <2>4. DisabledIsTimed'
    <3>. SUFFICES ASSUME NEW h \in Hosts, hosts'[h] # None, ~allowed[hosts'[h]], ~Switching(h)
                  PROVE  Timed(h, hosts[h])'
      BY <1>1, <2>1 DEF DisabledIsTimed
    <3>1. CASE h = host[r]
      <4>1. hosts'[h] = seen[r]
        BY <1>0, <2>1, <3>1
      <4>2. PICK q \in Requests : timer[q] = "set" /\ host[q] = host[r]
        BY <1>i, <2>1, <3>1, <4>1 DEF PutBackIsTimed
      <4>. QED
        BY <1>1, <2>1, <2>2, <3>1, <4>2 DEF Timed
    <3>2. CASE h # host[r]
      <4>1. hosts'[h] = hosts[h]
        BY <1>0, <2>1, <3>2
      <4>2. Timed(h, hosts[h])
        BY <1>i, <4>1 DEF DisabledIsTimed
      <4>. QED
        BY <1>1, <2>1, <2>2, <3>2, <4>1, <4>2 DEF Timed
    <3>. QED
      BY <3>1, <3>2
  <2>. QED
    BY <2>3, <2>4 DEF TimedInd
<1>. QED
  BY <1>2, <1>3, <1>4 DEF Enabler

(* If no enabler takes as long for its last two statements as a timer runs  *)
(* (Prompt; the code has no such condition, but the timer runs for          *)
(* trafficReEnableDuration), then however many requests make, replace and   *)
(* switch off the objects of however many hosts, and however their timers   *)
(* overlap, a host whose traffic is off has a timer to come that switches   *)
(* it on (hostManager.go:70-99).                                            *)
THEOREM HostManagerDisabledIsTimed ==
    ASSUME Prompt
    PROVE  Spec => []DisabledIsTimed
<1>1. HostInd /\ TimedInd /\ [Next]_vars => TimedInd'
  <2>1. ASSUME HostInd, TimedInd, Next PROVE TimedInd'
    BY <2>1, RequestTimed, EnablerTimed DEF Next
  <2>2. ASSUME TimedInd, UNCHANGED vars PROVE TimedInd'
    BY <2>2 DEF TimedInd, PutBackIsTimed, DisabledIsTimed, Timed, Switching, vars, hostVars, timerVars
  <2>. QED
    BY <2>1, <2>2
<1>2. TimedInd => DisabledIsTimed
  BY DEF TimedInd
<1>. QED
  BY <1>1, <1>2, HostIndInit, HostIndNext, PTL DEF Spec
=============================================================================
