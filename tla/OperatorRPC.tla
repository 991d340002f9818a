----------------------------- MODULE OperatorRPC -----------------------------
(***************************************************************************)
(* The client of resolver/internal/operator/RPCClient.go, through which    *)
(* the resolver tells the operator of a request.  One call of              *)
(* SendIncomingRequestInfo is a goroutine.  A map holds a mutex per        *)
(* service name; a goroutine that finds one there returns at once.  The    *)
(* one that put it there makes the call and starts a timer, whatever the   *)
(* call returned; the timer unlocks the mutex and takes it out of the map. *)
(*                                                                         *)
(* The key is the name of the service without its namespace.               *)
(***************************************************************************)
EXTENDS Integers, FiniteSets

CONSTANTS Services,     \* services with their namespaces
          Names,        \* the names of services
          NameOf,       \* NameOf[s]: the name of service s
          Senders       \* bound: goroutines and timers of the client at a time

ASSUME OperatorRPCAssumption == Services # {} /\ NameOf \in [Services -> Names]

VARIABLES mutex,        \* serviceRPCLocks: mutex[n], "absent" if n is not in the map
          rpc,          \* rpc[g]: the next step of g
          rpcSvc,       \* rpcSvc[g]: the service of g's call
          asked         \* asked[s]: the operator has been told of s and has not acted on it

rpcVars == <<mutex, rpc, rpcSvc, asked>>

RPCLabels == {"idle", "begin", "call", "timer", "delete"}

Key(g) == NameOf[rpcSvc[g]]

RPCInit ==
    /\ mutex = [n \in Names |-> "absent"]
    /\ rpc = [g \in Senders |-> "idle"]
    /\ rpcSvc = [g \in Senders |-> CHOOSE s \in Services : TRUE]
    /\ asked = [s \in Services |-> FALSE]

-----------------------------------------------------------------------------
RPCGoto(g, label) == rpc' = [rpc EXCEPT ![g] = label]
SetMutex(g, m) == mutex' = [mutex EXCEPT ![Key(g)] = m]

(* The goroutines that are not in use. *)
Idle == {g \in Senders : rpc[g] = "idle"}

(* go SendIncomingRequestInfo(s).  It does not matter which goroutine it is. *)
Spawn(s) ==
    /\ Idle # {}
    /\ LET g == CHOOSE g \in Idle : TRUE
       IN RPCGoto(g, "begin") /\ rpcSvc' = [rpcSvc EXCEPT ![g] = s]
    /\ UNCHANGED <<mutex, asked>>

(* Mutant: the goroutine goes on if the mutex it finds is not locked. *)
GetMutexTryLock(g) ==
    /\ rpc[g] = "begin"
    /\ IF mutex[Key(g)] # "locked"
       THEN SetMutex(g, "locked") /\ RPCGoto(g, "call")
       ELSE UNCHANGED mutex /\ RPCGoto(g, "idle")
    /\ UNCHANGED <<rpcSvc, asked>>

(* getMutexForServiceRPC: the LoadOrStore, and the return if it is taken.  The  *)
(* Lock that follows cannot wait: nobody else has seen the mutex.               *)
GetMutex(g) ==
    /\ rpc[g] = "begin"
    /\ IF mutex[Key(g)] = "absent"
       THEN SetMutex(g, "locked") /\ RPCGoto(g, "call")
       ELSE UNCHANGED mutex /\ RPCGoto(g, "idle")
    /\ UNCHANGED <<rpcSvc, asked>>

(* Mutant: the timer of a failed call is not started. *)
CallFailsUntimed(g) ==
    /\ rpc[g] = "call"
    /\ \/ UNCHANGED asked
       \/ asked' = [asked EXCEPT ![rpcSvc[g]] = TRUE]
    /\ RPCGoto(g, "idle")
    /\ UNCHANGED <<mutex, rpcSvc>>

(* The request fails, before or after the operator has read it, or its      *)
(* answer is not 200.                                                       *)
CallFails(g) ==
    /\ rpc[g] = "call"
    /\ \/ UNCHANGED asked
       \/ asked' = [asked EXCEPT ![rpcSvc[g]] = TRUE]
    /\ RPCGoto(g, "timer")
    /\ UNCHANGED <<mutex, rpcSvc>>

CallSucceeds(g) ==
    /\ rpc[g] = "call"
    /\ asked' = [asked EXCEPT ![rpcSvc[g]] = TRUE]
    /\ RPCGoto(g, "timer")
    /\ UNCHANGED <<mutex, rpcSvc>>

(* releaseMutexForServiceRPC, called by the timer: it returns if the map has no *)
(* mutex.                                                                       *)
UnlockMutex(g) ==
    /\ rpc[g] = "timer"
    /\ IF mutex[Key(g)] = "absent"
       THEN UNCHANGED mutex /\ RPCGoto(g, "idle")
       ELSE SetMutex(g, "unlocked") /\ RPCGoto(g, "delete")
    /\ UNCHANGED <<rpcSvc, asked>>

DeleteMutex(g) ==
    /\ rpc[g] = "delete"
    /\ SetMutex(g, "absent")
    /\ RPCGoto(g, "idle")
    /\ UNCHANGED <<rpcSvc, asked>>

(* External: the operator's server acts on what it was told. *)
OperatorActs(s) ==
    /\ asked[s]
    /\ asked' = [asked EXCEPT ![s] = FALSE]
    /\ UNCHANGED <<mutex, rpc, rpcSvc>>

RPCStep(g) ==
    \/ GetMutex(g) \/ CallFails(g) \/ CallSucceeds(g)
    \/ UnlockMutex(g) \/ DeleteMutex(g)

RPCNext ==
    \/ \E s \in Services : Spawn(s) \/ OperatorActs(s)
    \/ \E g \in Senders : RPCStep(g)

RPCSpec == RPCInit /\ [][RPCNext]_rpcVars

-----------------------------------------------------------------------------
(* The types of the client's map, goroutines and calls. *)
RPCTypeOK ==
    /\ mutex \in [Names -> {"absent", "unlocked", "locked"}]
    /\ rpc \in [Senders -> RPCLabels]
    /\ rpcSvc \in [Senders -> Services]
    /\ asked \in [Services -> BOOLEAN]

(* The goroutines whose mutex is in the map, their timers included. *)
Owners == {g \in Senders : rpc[g] \in {"call", "timer", "delete"}}

(* At most one goroutine or timer works on a name at a time: no two calls for *)
(* it are under way, and none begins before the timer of the last has fired   *)
(* (OperatorRetryDuration in resolver/cmd/main.go: "duration for which we     *)
(* don't inform the operator about the traffic on the same host").            *)
OneReporter == \A g, h \in Owners : Key(g) = Key(h) => g = h

(* The state of a mutex is what its owner left it in.  So the timer finds it *)
(* locked: Unlock of an unlocked mutex would end the process, and a mutex in *)
(* the map that nobody owns would silence the service for ever.              *)
MutexOwned ==
    /\ \A g \in Owners : mutex[Key(g)] = IF rpc[g] = "delete" THEN "unlocked" ELSE "locked"
    /\ \A n \in Names : mutex[n] # "absent" => \E g \in Owners : Key(g) = n
=============================================================================
