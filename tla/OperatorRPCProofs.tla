-------------------------- MODULE OperatorRPCProofs --------------------------
(***************************************************************************)
(* Proofs about the client that tells the operator of requests, for any    *)
(* services, names and goroutines.                                         *)
(***************************************************************************)
EXTENDS OperatorRPC, TLAPS

(* The type invariant and the two properties together are inductive: the   *)
(* LoadOrStore finds nothing because every mutex in the map has an owner.  *)
RPCInd == RPCTypeOK /\ OneReporter /\ MutexOwned

(* Nobody owns a mutex at the start. *)
LEMMA RPCIndInit == RPCInit => RPCInd
<1>. SUFFICES ASSUME RPCInit PROVE RPCInd
  OBVIOUS
<1>1. RPCTypeOK
  <2>1. (CHOOSE s \in Services : TRUE) \in Services
    BY OperatorRPCAssumption
  <2>. QED
    BY <2>1 DEF RPCInit, RPCTypeOK, RPCLabels
<1>2. Owners = {}
  BY DEF RPCInit, Owners
<1>3. OneReporter /\ MutexOwned
  BY <1>2 DEF RPCInit, OneReporter, MutexOwned
<1>. QED
  BY <1>1, <1>3 DEF RPCInd

(* A new goroutine owns nothing yet. *)
LEMMA SpawnKeeps ==
    ASSUME RPCInd, NEW s \in Services, Spawn(s)
    PROVE  RPCInd'
<1>. USE OperatorRPCAssumption DEF RPCInd
<1>1. PICK g \in Senders : /\ rpc[g] = "idle"
                           /\ rpc' = [rpc EXCEPT ![g] = "begin"]
                           /\ rpcSvc' = [rpcSvc EXCEPT ![g] = s]
                           /\ mutex' = mutex /\ asked' = asked
  <2>. DEFINE c == CHOOSE g \in Idle : TRUE
  <2>1. c \in Idle
    BY DEF Spawn
  <2>. HIDE DEF c
  <2>2. c \in Senders /\ rpc[c] = "idle"
    BY <2>1 DEF Idle
  <2>. QED
    BY <2>2 DEF Spawn, RPCGoto, c
<1>2. RPCTypeOK'
  BY <1>1 DEF RPCTypeOK, RPCLabels
<1>3. Owners' = Owners /\ \A h \in Owners : Key(h)' = Key(h) /\ rpc'[h] = rpc[h]
  BY <1>1 DEF RPCTypeOK, Owners, Key
<1>4. OneReporter'
  BY <1>3 DEF OneReporter
<1>5. MutexOwned'
  BY <1>1, <1>3 DEF MutexOwned
<1>. QED
  BY <1>2, <1>4, <1>5

(* The steps of a goroutine and of its timer. *)
LEMMA RPCStepKeeps ==
    ASSUME RPCInd, NEW g \in Senders, RPCStep(g)
    PROVE  RPCInd'
<1>. USE OperatorRPCAssumption DEF RPCInd
<1>0. /\ mutex \in [Names -> {"absent", "unlocked", "locked"}]
      /\ rpc \in [Senders -> RPCLabels] /\ rpcSvc \in [Senders -> Services]
      /\ \A h \in Senders : Key(h) \in Names
  BY DEF RPCTypeOK, Key
<1>1. CASE GetMutex(g) /\ mutex[Key(g)] = "absent"
  <2>1. /\ mutex' = [mutex EXCEPT ![Key(g)] = "locked"]
        /\ rpc' = [rpc EXCEPT ![g] = "call"] /\ rpcSvc' = rpcSvc /\ asked' = asked
    BY <1>1 DEF GetMutex, SetMutex, RPCGoto
  <2>2. \A h \in Owners : Key(h) # Key(g)
    BY <1>1 DEF MutexOwned
  <2>3. Owners' = Owners \cup {g} /\ g \notin Owners
    BY <1>0, <1>1, <2>1 DEF Owners, GetMutex
  <2>4. \A h \in Senders : Key(h)' = Key(h)
    BY <2>1 DEF Key
  <2>5. OneReporter'
    BY <2>2, <2>3, <2>4 DEF OneReporter, Owners
  <2>6. \A h \in Owners' : mutex'[Key(h)'] = IF rpc'[h] = "delete" THEN "unlocked" ELSE "locked"
    <3>. SUFFICES ASSUME NEW h \in Owners'
                  PROVE  mutex'[Key(h)] = IF rpc'[h] = "delete" THEN "unlocked" ELSE "locked"
      BY <2>3, <2>4 DEF Owners
    <3>1. CASE h = g
      BY <1>0, <2>1, <3>1
    <3>2. CASE h # g
      BY <1>0, <2>1, <2>2, <2>3, <3>2 DEF MutexOwned
    <3>. QED
      BY <3>1, <3>2
  <2>7. \A n \in Names : mutex'[n] # "absent" => \E h \in Owners' : Key(h)' = n
    BY <1>0, <2>1, <2>3, <2>4 DEF MutexOwned, Owners
  <2>. QED
    BY <2>1, <2>5, <2>6, <2>7 DEF RPCTypeOK, RPCLabels, MutexOwned
<1>2. CASE GetMutex(g) /\ mutex[Key(g)] # "absent"
  <2>1. /\ mutex' = mutex /\ rpc' = [rpc EXCEPT ![g] = "idle"] /\ rpc[g] = "begin"
        /\ rpcSvc' = rpcSvc /\ asked' = asked
    BY <1>2 DEF GetMutex, RPCGoto
  <2>2. Owners' = Owners /\ \A h \in Owners : Key(h)' = Key(h) /\ rpc'[h] = rpc[h]
    BY <1>0, <2>1 DEF Owners, Key
  <2>. QED
    BY <2>1, <2>2 DEF RPCTypeOK, RPCLabels, OneReporter, MutexOwned
<1>3. CASE CallFails(g) \/ CallSucceeds(g)
  <2>1. /\ mutex' = mutex /\ rpc' = [rpc EXCEPT ![g] = "timer"] /\ rpc[g] = "call"
        /\ rpcSvc' = rpcSvc /\ asked' \in [Services -> BOOLEAN]
    BY <1>0, <1>3 DEF CallFails, CallSucceeds, RPCGoto, RPCTypeOK
  <2>2. Owners' = Owners /\ \A h \in Senders : Key(h)' = Key(h)
    BY <1>0, <2>1 DEF Owners, Key
  <2>3. \A h \in Owners : rpc'[h] = "delete" <=> rpc[h] = "delete"
    BY <1>0, <2>1 DEF Owners
  <2>4. OneReporter'
    BY <2>2 DEF OneReporter, Owners
  <2>5. MutexOwned'
    BY <2>1, <2>2, <2>3 DEF MutexOwned, Owners
  <2>. QED
    BY <1>0, <2>1, <2>4, <2>5 DEF RPCTypeOK, RPCLabels
<1>4. CASE UnlockMutex(g)
  <2>1. g \in Owners /\ mutex[Key(g)] = "locked"
    BY <1>4 DEF UnlockMutex, Owners, MutexOwned
  <2>2. /\ mutex' = [mutex EXCEPT ![Key(g)] = "unlocked"]
        /\ rpc' = [rpc EXCEPT ![g] = "delete"] /\ rpcSvc' = rpcSvc /\ asked' = asked
    BY <1>4, <2>1 DEF UnlockMutex, SetMutex, RPCGoto
  <2>3. Owners' = Owners /\ \A h \in Senders : Key(h)' = Key(h)
    BY <1>0, <2>1, <2>2 DEF Owners, Key
  <2>4. \A h \in Owners : h # g => Key(h) # Key(g) /\ rpc'[h] = rpc[h]
    BY <1>0, <2>1, <2>2 DEF OneReporter, Owners
  <2>5. OneReporter'
    BY <2>3 DEF OneReporter, Owners
  <2>6. \A h \in Owners : mutex'[Key(h)] = IF rpc'[h] = "delete" THEN "unlocked" ELSE "locked"
    <3>. SUFFICES ASSUME NEW h \in Owners
                  PROVE  mutex'[Key(h)] = IF rpc'[h] = "delete" THEN "unlocked" ELSE "locked"
      OBVIOUS
    <3>1. CASE h = g
      BY <1>0, <2>2, <3>1
    <3>2. CASE h # g
      BY <1>0, <2>2, <2>4, <3>2 DEF MutexOwned, Owners
    <3>. QED
      BY <3>1, <3>2
  <2>7. \A n \in Names : mutex'[n] # "absent" => \E h \in Owners : Key(h) = n
    BY <1>0, <2>1, <2>2 DEF MutexOwned
  <2>8. MutexOwned'
    BY <2>3, <2>6, <2>7 DEF MutexOwned, Owners
  <2>. QED
    BY <1>0, <2>2, <2>5, <2>8 DEF RPCTypeOK, RPCLabels
<1>5. CASE DeleteMutex(g)
  <2>1. g \in Owners
    BY <1>5 DEF DeleteMutex, Owners
  <2>2. /\ mutex' = [mutex EXCEPT ![Key(g)] = "absent"]
        /\ rpc' = [rpc EXCEPT ![g] = "idle"] /\ rpcSvc' = rpcSvc /\ asked' = asked
    BY <1>5 DEF DeleteMutex, SetMutex, RPCGoto
  <2>3. Owners' = Owners \ {g} /\ \A h \in Senders : Key(h)' = Key(h)
    BY <1>0, <2>2 DEF Owners, Key
  <2>4. \A h \in Owners \ {g} : Key(h) # Key(g) /\ rpc'[h] = rpc[h]
    BY <1>0, <2>1, <2>2 DEF OneReporter, Owners
  <2>5. OneReporter'
    BY <2>3 DEF OneReporter, Owners
  <2>6. \A h \in Owners \ {g} : mutex'[Key(h)] = IF rpc'[h] = "delete" THEN "unlocked" ELSE "locked"
    BY <1>0, <2>2, <2>4 DEF MutexOwned, Owners
  <2>7. \A n \in Names : mutex'[n] # "absent" => \E h \in Owners \ {g} : Key(h) = n
    BY <1>0, <2>2, <2>4 DEF MutexOwned
  <2>8. MutexOwned'
    BY <2>3, <2>6, <2>7 DEF MutexOwned, Owners
  <2>. QED
    BY <1>0, <2>2, <2>5, <2>8 DEF RPCTypeOK, RPCLabels
<1>. QED
  BY <1>1, <1>2, <1>3, <1>4, <1>5 DEF RPCStep

(* The operator's own steps. *)
LEMMA OperatorActsKeeps ==
    ASSUME RPCInd, NEW s \in Services, OperatorActs(s)
    PROVE  RPCInd'
BY DEF RPCInd, OperatorActs, RPCTypeOK, OneReporter, MutexOwned, Owners, Key

(* A step that leaves the client alone. *)
LEMMA RPCIndStutter == RPCInd /\ UNCHANGED rpcVars => RPCInd'
BY DEF RPCInd, rpcVars, RPCTypeOK, OneReporter, MutexOwned, Owners, Key

(* The invariant is inductive. *)
LEMMA RPCIndNext == RPCInd /\ [RPCNext]_rpcVars => RPCInd'
BY SpawnKeeps, RPCStepKeeps, OperatorActsKeeps, RPCIndStutter DEF RPCNext

(* However many goroutines report, for however many services: at most one   *)
(* call or timer per name, and the mutex is what its owner left it in, so   *)
(* that no timer unlocks an unlocked mutex (RPCClient.go:45-113).           *)
THEOREM RPCInvariant == RPCSpec => [](RPCTypeOK /\ OneReporter /\ MutexOwned)
BY RPCIndInit, RPCIndNext, PTL DEF RPCSpec, RPCInd
=============================================================================
