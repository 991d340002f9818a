---------------------------- MODULE HostManager -----------------------------
(***************************************************************************)
(* The host manager of resolver/internal/hostmanager/hostManager.go and    *)
(* the part of handleAnyRequest around Try.                                *)
(*                                                                         *)
(* A request takes its Host object from the map of hosts, or puts a new    *)
(* one there, and is refused if the traffic of that object is switched     *)
(* off.  What Try makes of it is what module Forwarding promises.  A       *)
(* request that Try has sent to the target switches the traffic of its     *)
(* host off; a timer switches it on again.                                 *)
(*                                                                         *)
(* The flag is a plain field of an object that is shared by pointer, read  *)
(* and written without a lock.  A request that was slow to store its new   *)
(* object replaces one on which others have acted meanwhile.               *)
(***************************************************************************)
EXTENDS Forwarding, Integers, FiniteSets

CONSTANTS Hosts,        \* the values of the incoming host
          Prompt,       \* an enabler does not take 30 s for its last two statements: see EnableTimer
          None

ASSUME HostManagerAssumption == None \notin Requests /\ Prompt \in BOOLEAN

VARIABLES host,         \* host[r]: the incoming host of r
          hosts,        \* HostManager.hosts: the request that made the object; None if there is none
          allowed,      \* allowed[r]: TrafficAllowed of the object that r makes
          timer,        \* timer[r]: the timer that r starts, and then its enableTrafficForHost
          seen,         \* seen[r]: the object that one has found with the traffic off
          ahead,        \* ahead[r]: the enablers under way when r started its timer
          pc,           \* pc[r]: the next step of r
          obj           \* obj[r]: its Host object, later the one that it switches off

hostVars == <<hosts, allowed>>
timerVars == <<timer, seen, ahead>>
vars == <<phase, host, hostVars, timerVars, pc, obj>>

Labels == {"getHost", "storeHost", "check", "try", "disable", "setFalse", "storeBack", "done"}

(* Of a timer: to fire, the object loaded, its flag assigned, and the object stored. *)
Stages == {"none", "set", "loaded", "assigned", "done"}

Init ==
    /\ FwdInit
    /\ host \in [Requests -> Hosts]
    /\ hosts = [h \in Hosts |-> None]
    /\ allowed = [r \in Requests |-> TRUE]
    /\ timer = [r \in Requests |-> "none"]
    /\ seen = [r \in Requests |-> None]
    /\ ahead = [r \in Requests |-> {}]
    /\ pc = [r \in Requests |-> "getHost"]
    /\ obj = [r \in Requests |-> None]

-----------------------------------------------------------------------------
Goto(r, label) == pc' = [pc EXCEPT ![r] = label]

(* GetHost finds the object in the map, or has to make one. *)
GetHost(r) ==
    /\ pc[r] = "getHost"
    /\ obj' = [obj EXCEPT ![r] = hosts[host[r]]]
    /\ Goto(r, IF hosts[host[r]] = None THEN "storeHost" ELSE "check")
    /\ UNCHANGED <<phase, host, hostVars, timerVars>>

(* It cannot take the names from the host: http.Error with 500. *)
BadHost(r) ==
    /\ pc[r] = "getHost" /\ hosts[host[r]] = None
    /\ Goto(r, "done")
    /\ UNCHANGED <<phase, host, hostVars, timerVars, obj>>

(* Mutant: the map, which takes any value, gets the host's name. *)
StoreHostName(r) ==
    /\ pc[r] = "storeHost"
    /\ hosts' = [hosts EXCEPT ![host[r]] = host[r]]
    /\ obj' = [obj EXCEPT ![r] = r]
    /\ Goto(r, "check")
    /\ UNCHANGED <<phase, host, allowed, timerVars>>

(* It stores the new object, whatever is there by now. *)
StoreHost(r) ==
    /\ pc[r] = "storeHost"
    /\ hosts' = [hosts EXCEPT ![host[r]] = r]
    /\ obj' = [obj EXCEPT ![r] = r]
    /\ Goto(r, "check")
    /\ UNCHANGED <<phase, host, allowed, timerVars>>

(* handleAnyRequest: 403 if the traffic is switched off, else Try. *)
CheckHost(r) ==
    /\ pc[r] = "check"
    /\ IF allowed[obj[r]]
       THEN Hold(r) /\ Goto(r, "try")
       ELSE UNCHANGED phase /\ Goto(r, "done")
    /\ UNCHANGED <<host, hostVars, timerVars, obj>>

(* Try refuses the request: no target seen, all slots taken, or its deadline. *)
TryRefuses(r) ==
    /\ pc[r] = "try"
    /\ Refuse(r)
    /\ Goto(r, "done")
    /\ UNCHANGED <<host, hostVars, timerVars, obj>>

TrySends(r) ==
    /\ pc[r] = "try"
    /\ Send(r)
    /\ UNCHANGED <<host, hostVars, timerVars, pc, obj>>

(* ProxyRequest returns nil, the target's answer or a 502 written; or it recovers *)
(* from a panic, and traffic is left on.                                          *)
ProxyRequest(r) ==
    /\ pc[r] = "try"
    /\ Answer(r)
    /\ Goto(r, "disable") \/ Goto(r, "done")
    /\ UNCHANGED <<host, hostVars, timerVars, obj>>

(* DisableTrafficForHost: the object in the map, and its flag. *)
LoadHost(r) ==
    /\ pc[r] = "disable"
    /\ obj' = [obj EXCEPT ![r] = hosts[host[r]]]
    /\ Goto(r, IF allowed[hosts[host[r]]] THEN "setFalse" ELSE "done")
    /\ UNCHANGED <<phase, host, hostVars, timerVars>>

SetFalse(r) ==
    /\ pc[r] = "setFalse"
    /\ allowed' = [allowed EXCEPT ![obj[r]] = FALSE]
    /\ Goto(r, "storeBack")
    /\ UNCHANGED <<phase, host, hosts, timerVars, obj>>

(* The enablers of a host that have switched an object on and not stored it yet. *)
UnderWay(h) == {e \in Requests : timer[e] = "assigned" /\ host[e] = h}

StartTimer(r) ==
    /\ timer' = [timer EXCEPT ![r] = "set"]
    /\ ahead' = [ahead EXCEPT ![r] = UnderWay(host[r])]
    /\ UNCHANGED seen

(* Mutant: a timer is only started if the object is still the one in the map. *)
StoreBackSameObject(r) ==
    /\ pc[r] = "storeBack"
    /\ hosts' = [hosts EXCEPT ![host[r]] = obj[r]]
    /\ IF hosts[host[r]] = obj[r] THEN StartTimer(r) ELSE UNCHANGED timerVars
    /\ Goto(r, "done")
    /\ UNCHANGED <<phase, host, allowed, obj>>

(* It stores the object and starts a timer. *)
StoreBack(r) ==
    /\ pc[r] = "storeBack"
    /\ hosts' = [hosts EXCEPT ![host[r]] = obj[r]]
    /\ StartTimer(r)
    /\ Goto(r, "done")
    /\ UNCHANGED <<phase, host, allowed, obj>>

-----------------------------------------------------------------------------
(* The timer fires and calls enableTrafficForHost: the object in the map, and its  *)
(* flag.  The code has no condition.  Where Prompt is assumed, an enabler that had *)
(* only its Store left when this timer was started has stored: the timer runs for  *)
(* trafficReEnableDuration.  Timers that were pending by then overlap with it as   *)
(* they like.                                                                      *)
EnableTimer(r) ==
    LET o == hosts[host[r]]
    IN /\ timer[r] = "set"
       /\ Prompt => \A e \in ahead[r] : timer[e] # "assigned"
       /\ timer' = [timer EXCEPT ![r] = IF allowed[o] THEN "done" ELSE "loaded"]
       /\ seen' = [seen EXCEPT ![r] = IF allowed[o] THEN @ ELSE o]
       /\ UNCHANGED <<phase, host, hostVars, ahead, pc, obj>>

(* Its assignment. *)
SetTrue(r) ==
    /\ timer[r] = "loaded"
    /\ allowed' = [allowed EXCEPT ![seen[r]] = TRUE]
    /\ timer' = [timer EXCEPT ![r] = "assigned"]
    /\ UNCHANGED <<phase, host, hosts, seen, ahead, pc, obj>>

(* Its store of the object. *)
StoreEnabled(r) ==
    /\ timer[r] = "assigned"
    /\ hosts' = [hosts EXCEPT ![host[r]] = seen[r]]
    /\ timer' = [timer EXCEPT ![r] = "done"]
    /\ UNCHANGED <<phase, host, allowed, seen, ahead, pc, obj>>

-----------------------------------------------------------------------------
Step(r) ==
    \/ GetHost(r) \/ StoreHost(r) \/ CheckHost(r) \/ TryRefuses(r) \/ TrySends(r)
    \/ ProxyRequest(r) \/ LoadHost(r) \/ SetFalse(r) \/ StoreBack(r)

Enabler(r) == EnableTimer(r) \/ SetTrue(r) \/ StoreEnabled(r)

Next == \E r \in Requests : Step(r) \/ BadHost(r) \/ Enabler(r)

Spec == Init /\ [][Next]_vars

(* Goroutines run and timers fire. *)
Fairness == \A r \in Requests : WF_vars(Step(r)) /\ WF_vars(Enabler(r))

FairSpec == Spec /\ Fairness

-----------------------------------------------------------------------------
(* The type invariant. *)
TypeOK ==
    /\ phase \in [Requests -> Phases]
    /\ host \in [Requests -> Hosts]
    /\ hosts \in [Hosts -> Requests \cup {None}]
    /\ allowed \in [Requests -> BOOLEAN]
    /\ timer \in [Requests -> Stages] /\ seen \in [Requests -> Requests \cup {None}]
    /\ ahead \in [Requests -> SUBSET Requests]
    /\ pc \in [Requests -> Labels]
    /\ obj \in [Requests -> Requests \cup {None}]

(* A request that has switched the traffic of h off and has not stored the object *)
(* and started its timer yet.                                                       *)
Switching(h) == \E r \in Requests : pc[r] = "storeBack" /\ host[r] = h

(* The enabler of a request for h is to load what is in the map, or has loaded o. *)
Timed(h, o) ==
    \E r \in Requests : host[r] = h /\ (timer[r] = "set" \/ (timer[r] = "loaded" /\ seen[r] = o))

(* Traffic that is switched off will be switched on: for the object in the map a   *)
(* timer is to come, or one has seen the flag, though objects replace each other   *)
(* there, many goroutines write the flag, timers overlap, and each acts on         *)
(* whatever object it finds (DisableTrafficForHost, enableTrafficForHost).  That   *)
(* rests on Prompt: a goroutine that took 30 s between its assignment and its      *)
(* Store would put back an object that was switched off and whose timer has        *)
(* passed.                                                                         *)
DisabledIsTimed ==
    \A h \in Hosts : hosts[h] # None /\ ~allowed[hosts[h]] => Timed(h, hosts[h]) \/ Switching(h)

(* The traffic of a host is not off for ever, also when what switched it off was a *)
(* 502 (handler.go:143); under Prompt, as DisabledIsTimed.                         *)
TrafficComesBack == \A h \in Hosts : []<>(hosts[h] = None \/ allowed[hosts[h]])
=============================================================================
