-------------------------- MODULE DraSystem_proofs --------------------------
(***************************************************************************)
(* Theorems about DraSystem, for any nodes, claims, workers and faults of  *)
(* the controller.  The controller's variables, constants and steps are    *)
(* those of module Controller, so that what is proved of its steps there   *)
(* holds of them here.                                                     *)
(***************************************************************************)
EXTENDS ControllerStatus_proofs

CONSTANTS Handlers, NodeOf, SharedClaims, ProcessFaults

VARIABLES copy, prepared, main, call, kubelet, reserved

System == INSTANCE DraSystem WITH WorkerFaults <- Faults

INSTANCE ClaimsInUse

----------------------------------------------------------------------------
(***************************************************************************)
(* The utilisation is conserved although plugins store specs as well.      *)
(***************************************************************************)

\* What is assumed of the plugins: the assumptions of KubeletPlugin, one call at a
\* time on each node, and no handlers that outlive the server.
Deployed ==
    /\ NodeOf \in [Handlers -> Nodes]
    /\ Handlers \cup Nodes \subseteq Clients
    /\ \A g, h \in Handlers : NodeOf[g] = NodeOf[h] => g = h
    /\ "stop" \notin ProcessFaults

CallRecord ==
    [pc : System!P!CallPCs, op : {"none", "prepare", "unprepare"}, claim : Claims \cup {None},
     device : SUBSET Cpus, spec : SpecType, stored : BOOLEAN, tries : Nat]

PluginData ==
    /\ copy \in [Nodes -> SpecType]
    /\ prepared \in [Nodes -> SUBSET Claims]
    /\ main \in [Nodes -> System!P!MainPCs \ {"stopGet", "stopPut"}]
    /\ call \in [Handlers -> CallRecord]

\* Between the two parts of an assignment the copy belongs to no one moment.
Torn == {"assignUtil", "assignClaims"}

\* A call has a spec that was stored, or may be: the copy is assigned from it.
CallHolds(h) ==
    LET j == call[h]
        s == copy[NodeOf[h]]
    IN
    /\ j.pc # "idle" => j.claim \in Claims /\ main[NodeOf[h]] = "up"
    /\ j.pc \in Torn \cup {"assign", "updateGet", "updatePut"} => Consistent(j.spec)
    /\ j.pc = "assignUtil" => s = [j.spec EXCEPT !.util = s.util]
    /\ j.pc = "assignClaims" => s.util = j.spec.util

CopyHolds(n) ==
    Consistent(copy[n]) \/ \E h \in Handlers : NodeOf[h] = n /\ call[h].pc \in Torn

PluginInv ==
    /\ PluginData
    /\ \A h \in Handlers : CallHolds(h)
    /\ \A n \in Nodes : CopyHolds(n)

SystemInv == TypeInv /\ LedgerInv /\ PluginInv

----------------------------------------------------------------------------
\* The steps of a worker are those of Controller.
LEMMA WorkerSame ==
    ASSUME NEW w \in Workers
    PROVE  /\ System!C!Continues(w) <=> Continues(w)
           /\ \A p \in Pods : System!C!SyncPod(w, p) <=> SyncPod(w, p)
           /\ \A c \in Claims : System!C!SyncClaim(w, c) <=> SyncClaim(w, c)
<1> USE DEF System!C!Become, Become, System!C!IsNext, IsNext, System!C!ClaimsOf, ClaimsOf,
            System!C!Return, Return, System!C!Idle, Idle, System!C!EmptySpec, EmptySpec,
            System!C!NoCpus, NoCpus, System!C!NotPending, NotPending
<1>0. ASSUME NEW c \in Claims
      PROVE  /\ System!C!PlaceClaim(w, c) <=> PlaceClaim(w, c)
             /\ System!C!PlaceFails(w, c) <=> PlaceFails(w, c)
  <2> USE DEF System!C!PlannedUtil, PlannedUtil, System!C!WorstFit, WorstFit, System!C!Fitting,
              Fitting, System!C!Threshold, Threshold, System!C!Cardinality, Cardinality,
              System!C!Util, Util, System!C!Load, Load, System!C!On, On
  <2>1. System!C!PlaceClaim(w, c) <=> PlaceClaim(w, c)
      BY DEF System!C!PlaceClaim, PlaceClaim
  <2>2. System!C!PlaceFails(w, c) <=> PlaceFails(w, c)
      BY DEF System!C!PlaceFails, PlaceFails
  <2> QED BY <2>1, <2>2
<1>1. System!C!UnsuitableStep(w) <=> UnsuitableStep(w)
  <2>1. /\ \A n \in Nodes : /\ System!C!UnsuitableGet(w, n) <=> UnsuitableGet(w, n)
                            /\ System!C!UnsuitableNotReady(w, n) <=> UnsuitableNotReady(w, n)
        /\ System!C!VisitRemove(w) <=> VisitRemove(w)
        /\ System!C!VisitDone(w) <=> VisitDone(w)
        /\ System!C!UnsuitableDone(w) <=> UnsuitableDone(w)
      BY DEF System!C!UnsuitableGet, UnsuitableGet, System!C!UnsuitableNotReady, UnsuitableNotReady,
             System!C!VisitRemove, VisitRemove, System!C!VisitDone, VisitDone,
             System!C!UnsuitableDone, UnsuitableDone
  <2>2. \A c \in Claims : /\ System!C!VisitPending(w, c) <=> VisitPending(w, c)
                          /\ System!C!PendingSet(w, c) <=> PendingSet(w, c)
                          /\ System!C!Panic(w, c) <=> Panic(w, c)
      BY DEF System!C!VisitPending, VisitPending, System!C!PendingSet, PendingSet,
             System!C!Panic, Panic, System!C!Restart, Restart,
             System!C!AddClaim, AddClaim, System!C!Util, Util
  <2> QED BY <1>0, <2>1, <2>2, Zenon DEF System!C!UnsuitableStep, UnsuitableStep
<1>2. System!C!AllocateStep(w) <=> AllocateStep(w)
    BY DEF System!C!AllocateStep, AllocateStep, System!C!StartAllocate, StartAllocate,
           System!C!SyncPodDone, SyncPodDone, System!C!FinalizersAdded, FinalizersAdded,
           System!C!AddFinalizer, AddFinalizer, System!C!AddFinalizerFails, AddFinalizerFails,
           System!C!WriteClaim, WriteClaim, System!C!AllocateGet, AllocateGet,
           System!C!AllocateExists, AllocateExists, System!C!AllocateNotReady, AllocateNotReady,
           System!C!SetClaimStatus, SetClaimStatus, System!C!AllocatedOn, AllocatedOn,
           System!C!SetClaimStatusFails, SetClaimStatusFails,
           System!C!AllocatePending, AllocatePending, System!C!AllocateTake, AllocateTake,
           System!C!AllocateNotPending, AllocateNotPending, System!C!DropClaim, DropClaim,
           System!C!AllocateSuccess, AllocateSuccess, System!C!AllocateFails, AllocateFails,
           System!C!AddClaim, AddClaim, System!C!Util, Util
<1>3. System!C!UpdateStep(w) <=> UpdateStep(w)
    BY DEF System!C!UpdateStep, UpdateStep, System!C!UpdateGet, UpdateGet,
           System!C!UpdateGetFails, UpdateGetFails, System!C!UpdatePut, UpdatePut,
           System!C!UpdateConflict, UpdateConflict, System!C!UpdateError, UpdateError,
           System!C!CountTry, CountTry
<1>4. System!C!ClaimStep(w) <=> ClaimStep(w)
    BY DEF System!C!ClaimStep, ClaimStep, System!C!DeallocateGet, DeallocateGet,
           System!C!DeallocateLatest, DeallocateLatest, System!C!DeallocateFails, DeallocateFails,
           System!C!DeallocateRelease, DeallocateRelease, System!C!RemoveClaim, RemoveClaim,
           System!C!Minus, Minus, System!C!Util, Util, System!C!DeallocateDone, DeallocateDone,
           System!C!ClearStatus, ClearStatus, System!C!WriteClaim, WriteClaim,
           System!C!RemoveFinalizer, RemoveFinalizer, System!C!ClaimWriteFails, ClaimWriteFails
<1>5. System!C!Continues(w) <=> Continues(w)
    BY <1>1, <1>2, <1>3, <1>4 DEF System!C!Continues, Continues
<1>6. \A p \in Pods : System!C!SyncPod(w, p) <=> SyncPod(w, p)
    BY DEF System!C!SyncPod, SyncPod
<1>7. \A c \in Claims : System!C!SyncClaim(w, c) <=> SyncClaim(w, c)
    BY DEF System!C!SyncClaim, SyncClaim, System!C!SelectedNode, SelectedNode
<1> QED BY <1>5, <1>6, <1>7

\* So are those of users, of the scheduler and of the controller's end.
LEMMA EnvironmentSame ==
    /\ \A c \in Claims : /\ System!C!DeleteClaim(c) <=> DeleteClaim(c)
                         /\ System!C!RequestDeallocate(c) <=> RequestDeallocate(c)
    /\ System!C!Crash <=> Crash
BY DEF System!C!DeleteClaim, DeleteClaim, System!C!RequestDeallocate, RequestDeallocate,
       System!C!Crash, Crash, System!C!Restart, Restart, System!C!NotPending, NotPending,
       System!C!Idle, Idle, System!C!EmptySpec, EmptySpec, System!C!NoCpus, NoCpus

----------------------------------------------------------------------------
\* The plugins' variables are as they were.
LEMMA PluginSame ==
    ASSUME PluginInv, UNCHANGED <<copy, prepared, main, call, kubelet>>
    PROVE  PluginInv'
BY DEF PluginInv, PluginData, CallHolds, CopyHolds

\* A step of a worker: what it does to the rest was proved of Controller.
LEMMA WorkerSystem ==
    ASSUME SystemInv, NEW w \in Workers,
           System!WorkerSteps(w) \/ \E c \in Claims : System!WorkerSyncsClaim(w, c)
    PROVE  SystemInv'
<1>1. UNCHANGED <<copy, prepared, main, call, kubelet>>
    BY DEF System!WorkerSteps, System!WorkerSyncsClaim, System!pluginOwn
<1>2. Continues(w) \/ Starts(w)
    BY WorkerSame DEF System!WorkerSteps, System!WorkerSyncsClaim, Starts
<1>3. TypeInv'
    BY <1>2, StartsType, UnsuitableType, AllocateType, UpdateType, ClaimStepType
       DEF SystemInv, Continues
<1>4. LedgerInv'
    BY <1>2, StartsLedger, UnsuitableLedger, AllocateLedger, UpdateLedger, ClaimStepLedger
       DEF SystemInv, Continues
<1> QED BY <1>1, <1>3, <1>4, PluginSame DEF SystemInv

\* The end of the controller, users, and the scheduler.
LEMMA EnvironmentSystem ==
    ASSUME SystemInv,
           \/ System!ControllerCrash
           \/ \E c \in Claims : System!ClaimDeleted(c) \/ System!DeallocationRequested(c)
    PROVE  SystemInv'
<1>1. UNCHANGED <<copy, prepared, main, call, kubelet>>
    BY DEF System!ControllerCrash, System!ClaimDeleted, System!DeallocationRequested,
           System!pluginOwn
<1>2. Environment
    BY EnvironmentSame DEF System!ControllerCrash, System!ClaimDeleted,
                           System!DeallocationRequested, Environment
<1> QED BY <1>1, <1>2, PluginSame, EnvironmentType, EnvironmentLedger DEF SystemInv

\* Reservations are no part of the invariant.
LEMMA ReservationSystem ==
    ASSUME SystemInv, NEW c \in Claims, System!Reserve(c) \/ System!PodsEnd(c)
    PROVE  SystemInv'
<1>1. /\ UNCHANGED <<nas, nasFresh, claim, pending, lock, job>>
      /\ UNCHANGED <<copy, prepared, main, call, kubelet>>
      /\ claimFresh' = [claimFresh EXCEPT ![c] = {}]
    BY DEF System!Reserve, System!PodsEnd, System!pluginOwn
<1>2. TypeInv'
    BY <1>1 DEF SystemInv, TypeInv, TypeOK, ShapeOK
<1>3. LedgerInv'
    BY <1>1 DEF SystemInv, LedgerInv
<1> QED BY <1>1, <1>2, <1>3, PluginSame DEF SystemInv

----------------------------------------------------------------------------
\* What a step of a plugin has to leave behind: the controller is left alone, and
\* every spec that is stored is consistent.
StoresWell ==
    /\ nas' \in [Nodes -> [ready : BOOLEAN, spec : SpecType]]
    /\ nasFresh' \in [Nodes -> SUBSET Clients]
    /\ \A n \in Nodes : Consistent(nas'[n].spec)
    /\ UNCHANGED <<claim, claimFresh, pending, lock, job>>

LEMMA StoresSystem ==
    ASSUME SystemInv, StoresWell, PluginInv'
    PROVE  SystemInv'
<1>1. TypeInv'
    BY DEF SystemInv, StoresWell, TypeInv, TypeOK, ShapeOK
<1>2. LedgerInv'
    BY DEF SystemInv, StoresWell, LedgerInv
<1> QED BY <1>1, <1>2 DEF SystemInv

\* A step of handler h, the only one of its node.
LEMMA CallSystem ==
    ASSUME Deployed, PluginInv, NEW h \in Handlers, UNCHANGED main,
           call' \in [Handlers -> CallRecord], \A g \in Handlers \ {h} : call'[g] = call[g],
           copy' \in [Nodes -> SpecType], \A n \in Nodes \ {NodeOf[h]} : copy'[n] = copy[n],
           prepared' \in [Nodes -> SUBSET Claims],
           CallHolds(h)', CopyHolds(NodeOf[h])'
    PROVE  PluginInv'
<1>1. PluginData'
    BY DEF PluginInv, PluginData
<1>2. ASSUME NEW g \in Handlers PROVE CallHolds(g)'
  <2>1. CASE g = h
      BY <2>1
  <2>2. CASE g # h
    <3>1. NodeOf[g] \in Nodes \ {NodeOf[h]}
        BY <2>2 DEF Deployed
    <3> QED BY <2>2, <3>1 DEF PluginInv, CallHolds
  <2> QED BY <2>1, <2>2
<1>3. ASSUME NEW n \in Nodes PROVE CopyHolds(n)'
  <2>1. CASE n = NodeOf[h]
      BY <2>1
  <2>2. CASE n # NodeOf[h]
      BY <2>2 DEF PluginInv, CopyHolds
  <2> QED BY <2>1, <2>2
<1> QED BY <1>1, <1>2, <1>3 DEF PluginInv

\* A step that stores nothing, and one that stores a consistent spec.
LEMMA StoresNothing ==
    ASSUME SystemInv, UNCHANGED <<nas, claim, claimFresh, pending, lock, job>>,
           nasFresh' \in [Nodes -> SUBSET Clients]
    PROVE  StoresWell
BY DEF SystemInv, TypeInv, TypeOK, LedgerInv, StoresWell

LEMMA StoresSpec ==
    ASSUME SystemInv, NEW n \in Nodes, NEW k \in SUBSET Clients, NEW ready \in BOOLEAN,
           NEW s \in SpecType, Consistent(s),
           UNCHANGED <<claim, claimFresh, pending, lock, job>>,
           nas' = [nas EXCEPT ![n] = [ready |-> ready, spec |-> s]],
           nasFresh' = [nasFresh EXCEPT ![n] = k]
    PROVE  StoresWell
<1>1. /\ nas \in [Nodes -> [ready : BOOLEAN, spec : SpecType]]
      /\ nasFresh \in [Nodes -> SUBSET Clients]
    BY DEF SystemInv, TypeInv, TypeOK
<1>2. \A m \in Nodes : nas'[m] = IF m = n THEN [ready |-> ready, spec |-> s] ELSE nas[m]
    BY <1>1
<1>3. \A m \in Nodes : Consistent(nas'[m].spec)
    BY <1>2 DEF SystemInv, LedgerInv
<1> QED BY <1>1, <1>3 DEF StoresWell

\* The kubelet calls.
LEMMA KubeletSystem ==
    ASSUME Deployed, SystemInv, NEW h \in Handlers, NEW c \in Claims, System!KubeletCalls(h, c)
    PROVE  SystemInv'
<1> DEFINE n == NodeOf[h]
<1>0. /\ n \in Nodes /\ copy \in [Nodes -> SpecType] /\ call \in [Handlers -> CallRecord]
      /\ prepared \in [Nodes -> SUBSET Claims]
      /\ nasFresh \in [Nodes -> SUBSET Clients]
    BY DEF Deployed, SystemInv, TypeInv, TypeOK, PluginInv, PluginData
<1>1. PICK pc \in {"device", "get"}, op \in {"prepare", "unprepare"} :
         /\ call' = [call EXCEPT ![h] = [System!P!CallIdle EXCEPT !.pc = pc, !.op = op, !.claim = c]]
         /\ call[h].pc = "idle" /\ main[n] = "up"
         /\ UNCHANGED <<nas, nasFresh, copy, prepared, main>>
    BY DEF System!KubeletCalls, System!P!PrepareCall, System!P!UnprepareCall
<1>2. UNCHANGED <<claim, claimFresh, pending, lock, job>>
    BY DEF System!KubeletCalls, System!controllerOwn
<1>3. [System!P!CallIdle EXCEPT !.pc = pc, !.op = op, !.claim = c] \in CallRecord
    BY EmptySpecType DEF System!P!CallIdle, CallRecord, System!P!CallPCs, System!P!EmptySpec,
                         System!P!NoCpus, EmptySpec, NoCpus
<1>4. call'[h].pc = pc /\ call'[h].claim = c
    BY <1>0, <1>1 DEF System!P!CallIdle
<1>5. CallHolds(h)'
    BY <1>1, <1>4 DEF CallHolds, Torn
<1>6. CopyHolds(n)'
    BY <1>0, <1>1 DEF SystemInv, PluginInv, CopyHolds, Torn
<1>7. /\ call' \in [Handlers -> CallRecord] /\ \A g \in Handlers \ {h} : call'[g] = call[g]
      /\ copy' \in [Nodes -> SpecType] /\ \A m \in Nodes \ {n} : copy'[m] = copy[m]
      /\ prepared' \in [Nodes -> SUBSET Claims]
    BY <1>0, <1>1, <1>3
<1> HIDE DEF n
<1>8. PluginInv'
    BY <1>1, <1>5, <1>6, <1>7, CallSystem DEF SystemInv, n
<1> QED BY <1>0, <1>1, <1>2, <1>8, StoresNothing, StoresSystem

\* What is known of the call at hand.
LEMMA CallFacts ==
    ASSUME Deployed, SystemInv, NEW h \in Handlers
    PROVE  /\ NodeOf[h] \in Nodes /\ NodeOf[h] \in Clients /\ h \in Clients
           /\ copy \in [Nodes -> SpecType] /\ copy[NodeOf[h]] \in SpecType
           /\ prepared \in [Nodes -> SUBSET Claims]
           /\ call \in [Handlers -> CallRecord] /\ call[h] \in CallRecord
           /\ nas \in [Nodes -> [ready : BOOLEAN, spec : SpecType]]
           /\ nasFresh \in [Nodes -> SUBSET Clients]
           /\ CallHolds(h) /\ CopyHolds(NodeOf[h])
           /\ \A g \in Handlers : NodeOf[g] = NodeOf[h] => g = h
           /\ Consistent(nas[NodeOf[h]].spec)
BY DEF Deployed, SystemInv, TypeInv, TypeOK, PluginInv, PluginData, LedgerInv

\* What a handler does to its call, when it neither assigns nor reads the copy as a
\* whole.
LEMMA CallOnly ==
    ASSUME Deployed, SystemInv, NEW h \in Handlers, NEW j \in CallRecord,
           call' = [call EXCEPT ![h] = j],
           call[h].pc \notin Torn, j.pc \notin Torn,
           j.pc # "idle" => call[h].pc # "idle" /\ j.claim = call[h].claim,
           j.pc \in {"assign", "updateGet", "updatePut"} => Consistent(j.spec),
           UNCHANGED <<copy, main>>,
           prepared' \in [Nodes -> SUBSET Claims]
    PROVE  PluginInv'
<1>0. NodeOf[h] \in Nodes /\ copy \in [Nodes -> SpecType] /\ call \in [Handlers -> CallRecord]
    BY CallFacts
<1>1. call'[h] = j
    BY <1>0
<1>2. CallHolds(h)'
    BY <1>1, CallFacts DEF CallHolds, Torn
<1>3. Consistent(copy[NodeOf[h]])
    BY CallFacts DEF CopyHolds
<1>4. CopyHolds(NodeOf[h])'
    BY <1>3 DEF CopyHolds
<1> QED BY <1>0, <1>2, <1>4, CallSystem DEF SystemInv

LEMMA CallFailed == System!P!CallIdle \in CallRecord /\ System!P!CallIdle.pc = "idle"
BY EmptySpecType DEF System!P!CallIdle, CallRecord, System!P!CallPCs, System!P!EmptySpec,
                     System!P!NoCpus, EmptySpec, NoCpus

\* The steps of a handler.
LEMMA HandlesSystem ==
    ASSUME Deployed, SystemInv, NEW h \in Handlers, System!P!Handles(h),
           UNCHANGED System!controllerOwn
    PROVE  SystemInv'
<1> DEFINE n == NodeOf[h]
           j == call[h]
           s == copy[n]
<1>0. /\ n \in Nodes /\ n \in Clients /\ h \in Clients
      /\ copy \in [Nodes -> SpecType] /\ s \in SpecType
      /\ prepared \in [Nodes -> SUBSET Claims]
      /\ call \in [Handlers -> CallRecord] /\ j \in CallRecord
      /\ nas \in [Nodes -> [ready : BOOLEAN, spec : SpecType]]
      /\ nasFresh \in [Nodes -> SUBSET Clients]
      /\ \A g \in Handlers : NodeOf[g] = n => g = h
      /\ Consistent(nas[n].spec)
    BY CallFacts
<1>i. /\ j.pc # "idle" => j.claim \in Claims /\ main[n] = "up"
      /\ j.pc \in Torn \cup {"assign", "updateGet", "updatePut"} => Consistent(j.spec)
      /\ j.pc = "assignUtil" => s = [j.spec EXCEPT !.util = s.util]
      /\ j.pc = "assignClaims" => s.util = j.spec.util
      /\ j.pc \notin Torn => Consistent(s)
    BY CallFacts DEF CallHolds, CopyHolds
<1>c. UNCHANGED <<claim, claimFresh, pending, lock, job>>
    BY DEF System!controllerOwn
<1>1. ASSUME System!P!NameDevice(h) PROVE SystemInv'
  <2> DEFINE device == System!P!CpusIn(s, j.claim)
             next == [j EXCEPT !.device = device, !.pc = "get"]
  <2>1. /\ j.pc = "device" /\ UNCHANGED <<nas, nasFresh, copy, prepared, main>>
        /\ call' = [call EXCEPT ![h] = next]
      BY <1>0, <1>1 DEF System!P!NameDevice
  <2>2. device \in SUBSET Cpus
      BY <1>0, <1>i, <2>1 DEF System!P!CpusIn, SpecType
  <2>3. next \in CallRecord /\ next.pc = "get" /\ next.claim = j.claim
      BY <1>0, <2>2 DEF CallRecord, System!P!CallPCs
  <2> HIDE DEF next, device
  <2>4. PluginInv'
      BY <1>0, <2>1, <2>3, CallOnly DEF Torn
  <2> QED BY <1>0, <1>c, <2>1, <2>4, StoresNothing, StoresSystem
<1>2. ASSUME System!P!Get(h) PROVE SystemInv'
  <2> DEFINE next == [j EXCEPT !.spec = nas[n].spec, !.pc = "assign"]
  <2>1. /\ j.pc = "get" /\ UNCHANGED <<nas, copy, prepared, main>>
        /\ call' = [call EXCEPT ![h] = next]
        /\ nasFresh' = [nasFresh EXCEPT ![n] = @ \cup {h}]
      BY <1>0, <1>2 DEF System!P!Get, System!P!Read
  <2>3. next \in CallRecord /\ next.pc = "assign" /\ next.claim = j.claim /\ next.spec = nas[n].spec
      BY <1>0 DEF CallRecord, System!P!CallPCs
  <2> HIDE DEF next
  <2>4. PluginInv'
      BY <1>0, <2>1, <2>3, CallOnly DEF Torn
  <2>5. nasFresh' \in [Nodes -> SUBSET Clients]
      BY <1>0, <2>1
  <2> QED BY <1>c, <2>1, <2>4, <2>5, StoresNothing, StoresSystem
<1>3. ASSUME System!P!GetFails(h) PROVE SystemInv'
  <2> DEFINE next == IF j.pc = "get" THEN System!P!CallIdle ELSE [j EXCEPT !.pc = "updateFailed"]
  <2>1. /\ j.pc \in {"get", "updateGet"} /\ UNCHANGED <<nas, nasFresh, copy, prepared, main>>
        /\ call' = [call EXCEPT ![h] = next]
      BY <1>0, <1>3 DEF System!P!GetFails, System!P!Fail, System!P!Goto
  <2>2. [j EXCEPT !.pc = "updateFailed"] \in CallRecord
      BY <1>0 DEF CallRecord, System!P!CallPCs
  <2>3. /\ next \in CallRecord /\ next.pc \in {"idle", "updateFailed"}
        /\ next.pc # "idle" => next.claim = j.claim
      BY <1>0, <2>2, CallFailed DEF CallRecord
  <2> HIDE DEF next
  <2>4. PluginInv'
      BY <1>0, <2>1, <2>3, CallOnly DEF Torn
  <2> QED BY <1>0, <1>c, <2>1, <2>4, StoresNothing, StoresSystem
<1>4. ASSUME System!P!AssignFirst(h) PROVE SystemInv'
  <2>1. /\ j.pc = "assign" /\ UNCHANGED <<nas, prepared, main>>
        /\ nasFresh' \in [Nodes -> SUBSET Clients]
    <3>1. nasFresh' = [nasFresh EXCEPT ![n] = IF h \in @ /\ main[n] = "stopPut"
                                              THEN (@ \ {h}) \cup {n} ELSE @ \ {h, n}]
        BY <1>4 DEF System!P!AssignFirst
    <3> QED BY <1>0, <1>4, <3>1 DEF System!P!AssignFirst
  <2>2. PICK pc \in Torn, t \in SpecType :
           /\ call' = [call EXCEPT ![h] = [j EXCEPT !.pc = pc]]
           /\ copy' = [copy EXCEPT ![n] = t]
           /\ pc = "assignUtil" => t = [j.spec EXCEPT !.util = t.util]
           /\ pc = "assignClaims" => t.util = j.spec.util
    <3>0. j.spec \in SpecType
        BY <1>0 DEF CallRecord
    <3>1. CASE /\ copy' = [copy EXCEPT ![n] = [j.spec EXCEPT !.util = s.util]]
               /\ System!P!Goto(h, "assignUtil")
      <4> DEFINE t == [j.spec EXCEPT !.util = s.util]
      <4>1. t \in SpecType /\ t = [j.spec EXCEPT !.util = t.util]
          BY <1>0, <3>0 DEF SpecType
      <4>2. call' = [call EXCEPT ![h] = [j EXCEPT !.pc = "assignUtil"]]
          BY <1>0, <3>1 DEF System!P!Goto
      <4> HIDE DEF t
      <4> QED BY <3>1, <4>1, <4>2 DEF Torn, t
    <3>2. CASE /\ copy' = [copy EXCEPT ![n].util = j.spec.util]
               /\ System!P!Goto(h, "assignClaims")
      <4> DEFINE t == [s EXCEPT !.util = j.spec.util]
      <4>1. t \in SpecType /\ t.util = j.spec.util
          BY <1>0, <3>0 DEF SpecType
      <4>2. call' = [call EXCEPT ![h] = [j EXCEPT !.pc = "assignClaims"]]
          BY <1>0, <3>2 DEF System!P!Goto
      <4>3. copy' = [copy EXCEPT ![n] = t]
          BY <1>0, <3>2
      <4> HIDE DEF t
      <4> QED BY <4>1, <4>2, <4>3 DEF Torn
    <3> QED BY <1>4, <3>1, <3>2 DEF System!P!AssignFirst
  <2> DEFINE next == [j EXCEPT !.pc = pc]
  <2>3. /\ next \in CallRecord /\ next.pc = pc /\ next.claim = j.claim /\ next.spec = j.spec
      BY <1>0, <2>2 DEF CallRecord, System!P!CallPCs, Torn
  <2>a. call' = [call EXCEPT ![h] = next]
      BY <2>2
  <2> HIDE DEF next
  <2>4. /\ call'[h] = next /\ call' \in [Handlers -> CallRecord]
        /\ \A g \in Handlers \ {h} : call'[g] = call[g]
      BY <1>0, <2>3, <2>a
  <2>5. /\ copy'[n] = t /\ copy' \in [Nodes -> SpecType]
        /\ \A m \in Nodes \ {n} : copy'[m] = copy[m]
      BY <1>0, <2>2
  <2>6. CallHolds(h)'
      BY <1>i, <2>1, <2>2, <2>3, <2>4, <2>5 DEF CallHolds, Torn
  <2>7. CopyHolds(n)'
      BY <2>2, <2>3, <2>4 DEF CopyHolds
  <2>8. PluginInv'
      BY <1>0, <2>1, <2>4, <2>5, <2>6, <2>7, CallSystem DEF SystemInv
  <2> QED BY <1>c, <2>1, <2>8, StoresNothing, StoresSystem
<1>5. ASSUME System!P!AssignRest(h) PROVE SystemInv'
  <2> DEFINE pc == IF j.stored THEN "done" ELSE "state"
             next == [j EXCEPT !.pc = pc, !.spec = System!P!EmptySpec]
             t == IF j.pc = "assignUtil" THEN [s EXCEPT !.util = j.spec.util]
                  ELSE [j.spec EXCEPT !.util = s.util]
  <2>1. /\ j.pc \in Torn /\ UNCHANGED <<nas, nasFresh, prepared, main>>
        /\ call' = [call EXCEPT ![h] = next]
        /\ copy' = [copy EXCEPT ![n] = t]
      BY <1>0, <1>5 DEF System!P!AssignRest, Torn
  <2>2. j.spec \in SpecType
      BY <1>0 DEF CallRecord
  <2>3. t = j.spec
    <3>1. CASE j.pc = "assignUtil"
        BY <1>0, <1>i, <2>2, <3>1 DEF SpecType
    <3>2. CASE j.pc = "assignClaims"
        BY <1>0, <1>i, <2>2, <3>2 DEF SpecType
    <3> QED BY <2>1, <3>1, <3>2 DEF Torn
  <2>e. System!P!EmptySpec \in SpecType
      BY EmptySpecType DEF System!P!EmptySpec, System!P!NoCpus, EmptySpec, NoCpus
  <2>4. next \in CallRecord /\ next.pc \in {"done", "state"} /\ next.claim = j.claim
      BY <1>0, <2>e DEF CallRecord, System!P!CallPCs
  <2> HIDE DEF next, t
  <2>5. /\ call'[h] = next /\ call' \in [Handlers -> CallRecord]
        /\ \A g \in Handlers \ {h} : call'[g] = call[g]
      BY <1>0, <2>1, <2>4
  <2>6. /\ copy'[n] = j.spec /\ copy' \in [Nodes -> SpecType]
        /\ \A m \in Nodes \ {n} : copy'[m] = copy[m]
      BY <1>0, <2>1, <2>2, <2>3
  <2>7. CallHolds(h)'
      BY <1>i, <2>1, <2>4, <2>5 DEF CallHolds, Torn
  <2>8. CopyHolds(n)'
      BY <1>i, <2>1, <2>6 DEF CopyHolds
  <2>9. PluginInv'
      BY <1>0, <2>1, <2>5, <2>6, <2>7, <2>8, CallSystem DEF SystemInv
  <2> QED BY <1>0, <1>c, <2>1, <2>9, StoresNothing, StoresSystem
<1>6. ASSUME System!P!Prepare(h) PROVE SystemInv'
  <2> DEFINE known == j.claim \in prepared[n] \/ System!P!CpusIn(s, j.claim) # {}
             next == IF known /\ System!P!HasDevice(h) THEN [j EXCEPT !.pc = "sync"]
                     ELSE System!P!CallIdle
  <2>1. /\ j.pc = "state" /\ UNCHANGED <<nas, nasFresh, copy, main>>
        /\ call' = [call EXCEPT ![h] = next]
        /\ prepared' = [prepared EXCEPT ![n] = IF known THEN @ \cup {j.claim} ELSE @]
      BY <1>0, <1>6 DEF System!P!Prepare, System!P!Goto, System!P!Fail
  <2>2. [j EXCEPT !.pc = "sync"] \in CallRecord
      BY <1>0 DEF CallRecord, System!P!CallPCs
  <2>3. /\ next \in CallRecord /\ next.pc \in {"idle", "sync"}
        /\ next.pc # "idle" => next.claim = j.claim
      BY <1>0, <2>2, CallFailed DEF CallRecord
  <2> HIDE DEF next, known
  <2>4. prepared' \in [Nodes -> SUBSET Claims]
      BY <1>0, <1>i, <2>1
  <2>5. PluginInv'
      BY <1>0, <2>1, <2>3, <2>4, CallOnly DEF Torn
  <2> QED BY <1>0, <1>c, <2>1, <2>5, StoresNothing, StoresSystem
<1>7. ASSUME System!P!Unprepare(h) PROVE SystemInv'
  <2> DEFINE next == [j EXCEPT !.pc = "sync"]
             t == [s EXCEPT !.prepared = @ \ {j.claim}]
  <2>1. /\ j.pc = "state" /\ UNCHANGED <<nas, nasFresh, main>>
        /\ call' = [call EXCEPT ![h] = next]
        /\ copy' = [copy EXCEPT ![n] = t]
        /\ prepared' = [prepared EXCEPT ![n] = @ \ {j.claim}]
      BY <1>0, <1>7 DEF System!P!Unprepare, System!P!Goto
  <2>2. next \in CallRecord /\ next.pc = "sync" /\ next.claim = j.claim
      BY <1>0 DEF CallRecord, System!P!CallPCs
  <2>3. t \in SpecType /\ t.claims = s.claims /\ t.cpus = s.cpus /\ t.util = s.util
      BY <1>0 DEF SpecType
  <2>4. Consistent(t)
      BY <1>i, <2>1, <2>3 DEF Consistent, Conserved, Torn
  <2> HIDE DEF next, t
  <2>5. /\ call'[h] = next /\ call' \in [Handlers -> CallRecord]
        /\ \A g \in Handlers \ {h} : call'[g] = call[g]
      BY <1>0, <2>1, <2>2
  <2>6. /\ copy'[n] = t /\ copy' \in [Nodes -> SpecType]
        /\ \A m \in Nodes \ {n} : copy'[m] = copy[m]
        /\ prepared' \in [Nodes -> SUBSET Claims]
      BY <1>0, <2>1, <2>3
  <2>7. CallHolds(h)'
      BY <1>i, <2>1, <2>2, <2>5 DEF CallHolds, Torn
  <2>8. CopyHolds(n)'
      BY <2>4, <2>6 DEF CopyHolds
  <2>9. PluginInv'
      BY <1>0, <2>1, <2>5, <2>6, <2>7, <2>8, CallSystem DEF SystemInv
  <2> QED BY <1>0, <1>c, <2>1, <2>9, StoresNothing, StoresSystem
<1>8. ASSUME System!P!GetUpdatedSpec(h) PROVE SystemInv'
  <2> DEFINE t == [s EXCEPT !.prepared = prepared[n]]
             next == [j EXCEPT !.spec = t, !.pc = "updateGet"]
  <2>1. /\ j.pc = "sync" /\ UNCHANGED <<nas, nasFresh, copy, prepared, main>>
        /\ call' = [call EXCEPT ![h] = next]
      BY <1>0, <1>8 DEF System!P!GetUpdatedSpec
  <2>2. t \in SpecType /\ t.claims = s.claims /\ t.cpus = s.cpus /\ t.util = s.util
      BY <1>0 DEF SpecType
  <2>3. Consistent(t)
      BY <1>i, <2>1, <2>2 DEF Consistent, Conserved, Torn
  <2> HIDE DEF t
  <2>4. next \in CallRecord /\ next.pc = "updateGet" /\ next.claim = j.claim /\ next.spec = t
      BY <1>0, <2>2 DEF CallRecord, System!P!CallPCs
  <2> HIDE DEF next
  <2>5. PluginInv'
      BY <1>0, <2>1, <2>3, <2>4, CallOnly DEF Torn
  <2> QED BY <1>0, <1>c, <2>1, <2>5, StoresNothing, StoresSystem
<1>9. ASSUME System!P!UpdateGet(h) PROVE SystemInv'
  <2> DEFINE next == [j EXCEPT !.pc = "updatePut"]
  <2>1. /\ j.pc = "updateGet" /\ UNCHANGED <<nas, copy, prepared, main>>
        /\ call' = [call EXCEPT ![h] = next]
        /\ nasFresh' = [nasFresh EXCEPT ![n] = @ \cup {h}]
      BY <1>0, <1>9 DEF System!P!UpdateGet, System!P!Read, System!P!Goto
  <2>2. next \in CallRecord /\ next.pc = "updatePut" /\ next.claim = j.claim /\ next.spec = j.spec
      BY <1>0 DEF CallRecord, System!P!CallPCs
  <2> HIDE DEF next
  <2>3. PluginInv'
      BY <1>0, <1>i, <2>1, <2>2, CallOnly DEF Torn
  <2>4. nasFresh' \in [Nodes -> SUBSET Clients]
      BY <1>0, <2>1
  <2> QED BY <1>c, <2>1, <2>3, <2>4, StoresNothing, StoresSystem
<1>10. ASSUME System!P!UpdatePut(h) PROVE SystemInv'
  <2> DEFINE next == [j EXCEPT !.stored = TRUE, !.pc = "assign"]
  <2>1. /\ j.pc = "updatePut" /\ UNCHANGED <<copy, prepared, main>>
        /\ call' = [call EXCEPT ![h] = next]
        /\ nas' = [nas EXCEPT ![n] = [nas[n] EXCEPT !.spec = j.spec]]
        /\ nasFresh' = [nasFresh EXCEPT ![n] = {h}]
      BY <1>0, <1>10 DEF System!P!UpdatePut, System!P!Write
  <2>2. next \in CallRecord /\ next.pc = "assign" /\ next.claim = j.claim /\ next.spec = j.spec
      BY <1>0 DEF CallRecord, System!P!CallPCs
  <2>3. /\ nas[n].ready \in BOOLEAN /\ j.spec \in SpecType
        /\ [nas[n] EXCEPT !.spec = j.spec] = [ready |-> nas[n].ready, spec |-> j.spec]
      BY <1>0 DEF CallRecord
  <2> HIDE DEF next
  <2>4. PluginInv'
      BY <1>0, <1>i, <2>1, <2>2, CallOnly DEF Torn
  <2>5. StoresWell
      BY <1>0, <1>c, <1>i, <2>1, <2>3, StoresSpec
  <2> QED BY <2>4, <2>5, StoresSystem
<1>11. ASSUME System!P!UpdateError(h) PROVE SystemInv'
  <2> DEFINE pc == IF j.tries + 1 < MaxRetries THEN "updateGet" ELSE "updateFailed"
             next == [j EXCEPT !.tries = @ + 1, !.pc = pc]
  <2>1. /\ j.pc = "updatePut" /\ UNCHANGED <<copy, prepared, main>>
        /\ call' = [call EXCEPT ![h] = next]
      BY <1>0, <1>11 DEF System!P!UpdateError
  <2>2. /\ next \in CallRecord /\ next.pc \in {"updateGet", "updateFailed"}
        /\ next.claim = j.claim /\ next.spec = j.spec
    <3>1. pc \in {"updateGet", "updateFailed"} /\ j.tries + 1 \in Nat
        BY <1>0 DEF CallRecord
    <3> HIDE DEF pc
    <3> QED BY <1>0, <3>1 DEF CallRecord, System!P!CallPCs
  <2>3. /\ nas[n].ready \in BOOLEAN /\ j.spec \in SpecType
        /\ [nas[n] EXCEPT !.spec = j.spec] = [ready |-> nas[n].ready, spec |-> j.spec]
      BY <1>0 DEF CallRecord
  <2> HIDE DEF next
  <2>4. PluginInv'
      BY <1>0, <1>i, <2>1, <2>2, CallOnly DEF Torn
  <2>5. CASE UNCHANGED nas /\ nasFresh' = [nasFresh EXCEPT ![n] = @ \ {h}]
    <3>1. nasFresh' \in [Nodes -> SUBSET Clients]
        BY <1>0, <2>5
    <3> QED BY <1>c, <2>4, <2>5, <3>1, StoresNothing, StoresSystem
  <2>6. CASE System!P!Write({}, n, [nas[n] EXCEPT !.spec = j.spec])
    <3>1. StoresWell
        BY <1>0, <1>c, <1>i, <2>1, <2>3, <2>6, StoresSpec DEF System!P!Write
    <3> QED BY <2>4, <3>1, StoresSystem
  <2>7. \/ nasFresh' = [nasFresh EXCEPT ![n] = @ \ {h}] /\ UNCHANGED nas
        \/ System!P!Write({}, n, [nas[n] EXCEPT !.spec = j.spec])
      BY <1>11, Zenon DEF System!P!UpdateError
  <2> QED BY <2>5, <2>6, <2>7
<1>12. ASSUME System!P!UpdateFails(h) PROVE SystemInv'
  <2>1. /\ j.pc = "updateFailed" /\ UNCHANGED <<nas, nasFresh, copy, main>>
        /\ call' = [call EXCEPT ![h] = System!P!CallIdle]
        /\ prepared' = [prepared EXCEPT ![n] = IF j.op = "prepare" THEN @ \ {j.claim} ELSE @]
      BY <1>0, <1>12 DEF System!P!UpdateFails, System!P!Fail
  <2>2. prepared' \in [Nodes -> SUBSET Claims]
      BY <1>0, <2>1
  <2>3. PluginInv'
      BY <1>0, <2>1, <2>2, CallFailed, CallOnly DEF Torn
  <2> QED BY <1>0, <1>c, <2>1, <2>3, StoresNothing, StoresSystem
<1>13. ASSUME System!P!Done(h) PROVE SystemInv'
  <2>1. /\ j.pc = "done" /\ UNCHANGED <<nas, nasFresh, copy, prepared, main>>
        /\ call' = [call EXCEPT ![h] = System!P!CallIdle]
      BY <1>0, <1>13 DEF System!P!Done
  <2>2. PluginInv'
      BY <1>0, <2>1, CallFailed, CallOnly DEF Torn
  <2> QED BY <1>0, <1>c, <2>1, <2>2, StoresNothing, StoresSystem
<1> QED BY <1>1, <1>2, <1>3, <1>4, <1>5, <1>6, <1>7, <1>8, <1>9, <1>10, <1>11, <1>12, <1>13
       DEF System!P!Handles

\* A step of the plugin's process, while it has no calls or leaves them alone.
LEMMA ProcessSystem ==
    ASSUME Deployed, PluginInv, NEW n \in Nodes,
           main' \in [Nodes -> System!P!MainPCs \ {"stopGet", "stopPut"}],
           \A m \in Nodes \ {n} : main'[m] = main[m],
           copy' \in [Nodes -> SpecType], \A m \in Nodes \ {n} : copy'[m] = copy[m],
           prepared' \in [Nodes -> SUBSET Claims],
           Consistent(copy'[n]),
           \A h \in Handlers : NodeOf[h] = n => call[h].pc = "idle",
           UNCHANGED call
    PROVE  PluginInv'
<1>1. PluginData'
    BY DEF PluginInv, PluginData
<1>2. ASSUME NEW h \in Handlers PROVE CallHolds(h)'
  <2>1. CASE NodeOf[h] = n
      BY <2>1 DEF CallHolds, Torn
  <2>2. CASE NodeOf[h] # n
      BY <2>2 DEF Deployed, PluginInv, CallHolds
  <2> QED BY <2>1, <2>2
<1>3. ASSUME NEW m \in Nodes PROVE CopyHolds(m)'
  <2>1. CASE m = n
      BY <2>1 DEF CopyHolds
  <2>2. CASE m # n
      BY <2>2 DEF PluginInv, CopyHolds
  <2> QED BY <2>1, <2>2
<1> QED BY <1>1, <1>2, <1>3 DEF PluginInv

\* The process is gone with its calls.
LEMMA GoneSystem ==
    ASSUME Deployed, PluginInv, NEW n \in Nodes, System!P!Gone(n)
    PROVE  PluginInv'
<1>0. /\ copy \in [Nodes -> SpecType] /\ prepared \in [Nodes -> SUBSET Claims]
      /\ main \in [Nodes -> System!P!MainPCs \ {"stopGet", "stopPut"}]
      /\ call \in [Handlers -> CallRecord]
    BY DEF PluginInv, PluginData
<1>1. /\ main' = [main EXCEPT ![n] = "down"]
      /\ prepared' = [prepared EXCEPT ![n] = {}]
      /\ copy' = [copy EXCEPT ![n] = EmptySpec]
      /\ call' = [h \in Handlers |-> IF NodeOf[h] = n THEN System!P!CallIdle ELSE call[h]]
    BY DEF System!P!Gone, System!P!EmptySpec, System!P!NoCpus, EmptySpec, NoCpus
<1>2. PluginData'
    BY <1>0, <1>1, EmptySpecType, CallFailed DEF PluginData, System!P!MainPCs
<1>3. ASSUME NEW h \in Handlers PROVE CallHolds(h)'
  <2>1. CASE NodeOf[h] = n
    <3>1. call'[h].pc = "idle"
        BY <1>1, <2>1, CallFailed
    <3> QED BY <3>1 DEF CallHolds, Torn
  <2>2. CASE NodeOf[h] # n
    <3>1. /\ NodeOf[h] \in Nodes /\ call'[h] = call[h] /\ main'[NodeOf[h]] = main[NodeOf[h]]
          /\ copy'[NodeOf[h]] = copy[NodeOf[h]]
        BY <1>0, <1>1, <2>2 DEF Deployed
    <3> QED BY <3>1 DEF PluginInv, CallHolds
  <2> QED BY <2>1, <2>2
<1>4. ASSUME NEW m \in Nodes PROVE CopyHolds(m)'
  <2>1. CASE m = n
      BY <1>0, <1>1, <2>1, EmptyConsistent DEF CopyHolds
  <2>2. CASE m # n
    <3>1. copy'[m] = copy[m] /\ \A h \in Handlers : NodeOf[h] = m => call'[h] = call[h]
        BY <1>0, <1>1, <2>2
    <3> QED BY <3>1 DEF PluginInv, CopyHolds
  <2> QED BY <2>1, <2>2
<1> QED BY <1>2, <1>3, <1>4 DEF PluginInv

\* The start and the end of a plugin, and set-nas-status.
LEMMA ProcessStepSystem ==
    ASSUME Deployed, SystemInv, NEW n \in Nodes, System!P!Starts(n) \/ System!P!Ends(n),
           UNCHANGED System!controllerOwn
    PROVE  SystemInv'
<1> DEFINE s == copy[n]
<1>0. /\ n \in Clients
      /\ copy \in [Nodes -> SpecType] /\ s \in SpecType
      /\ prepared \in [Nodes -> SUBSET Claims]
      /\ main \in [Nodes -> System!P!MainPCs \ {"stopGet", "stopPut"}]
      /\ main[n] \notin {"stopGet", "stopPut"}
      /\ nas \in [Nodes -> [ready : BOOLEAN, spec : SpecType]]
      /\ nasFresh \in [Nodes -> SUBSET Clients]
      /\ nas[n].spec \in SpecType /\ Consistent(nas[n].spec)
    BY DEF Deployed, SystemInv, TypeInv, TypeOK, PluginInv, PluginData, LedgerInv
<1>c. UNCHANGED <<claim, claimFresh, pending, lock, job>>
    BY DEF System!controllerOwn
<1>q. ASSUME main[n] # "up"
      PROVE  Consistent(s) /\ \A h \in Handlers : NodeOf[h] = n => call[h].pc = "idle"
  <2>1. \A h \in Handlers : NodeOf[h] = n => call[h].pc = "idle"
      BY <1>q DEF SystemInv, PluginInv, CallHolds
  <2> QED BY <2>1 DEF SystemInv, PluginInv, CopyHolds, Torn
<1>r. ASSUME NEW pc \in System!P!MainPCs \ {"stopGet", "stopPut"}, main' = [main EXCEPT ![n] = pc]
      PROVE  /\ main' \in [Nodes -> System!P!MainPCs \ {"stopGet", "stopPut"}]
             /\ \A m \in Nodes \ {n} : main'[m] = main[m]
    BY <1>0, <1>r
<1>s. ASSUME NEW t \in SpecType, copy' = [copy EXCEPT ![n] = t]
      PROVE  /\ copy' \in [Nodes -> SpecType] /\ copy'[n] = t
             /\ \A m \in Nodes \ {n} : copy'[m] = copy[m]
    BY <1>0, <1>s
<1>1. ASSUME System!P!StartPlugin(n) PROVE SystemInv'
  <2>1. /\ main[n] = "down" /\ main' = [main EXCEPT ![n] = "create"]
        /\ UNCHANGED <<nas, nasFresh, copy, prepared, call>>
      BY <1>1 DEF System!P!StartPlugin
  <2>2. PluginInv'
      BY <1>0, <1>q, <1>r, <2>1, ProcessSystem DEF SystemInv, System!P!MainPCs
  <2> QED BY <1>0, <1>c, <2>1, <2>2, StoresNothing, StoresSystem
<1>2. ASSUME System!P!MainGet(n) PROVE SystemInv'
  <2>1. /\ main[n] = "create" /\ main' = [main EXCEPT ![n] = "notReady"]
        /\ copy' = [copy EXCEPT ![n] = nas[n].spec]
        /\ nasFresh' = [nasFresh EXCEPT ![n] = @ \cup {n}]
        /\ UNCHANGED <<nas, prepared, call>>
      BY <1>0, <1>2 DEF System!P!MainGet, System!P!Read
  <2>2. PluginInv'
      BY <1>0, <1>q, <1>r, <1>s, <2>1, ProcessSystem DEF SystemInv, System!P!MainPCs
  <2>3. nasFresh' \in [Nodes -> SUBSET Clients]
      BY <1>0, <2>1
  <2> QED BY <1>c, <2>1, <2>2, <2>3, StoresNothing, StoresSystem
<1>3. ASSUME System!P!StartNotReady(n) PROVE SystemInv'
  <2>1. /\ main[n] = "notReady" /\ main' = [main EXCEPT ![n] = "load"]
        /\ nas' = [nas EXCEPT ![n] = [ready |-> FALSE, spec |-> s]]
        /\ nasFresh' = [nasFresh EXCEPT ![n] = {n}]
        /\ UNCHANGED <<copy, prepared, call>>
      BY <1>3 DEF System!P!StartNotReady, System!P!Write
  <2>2. PluginInv'
      BY <1>0, <1>q, <1>r, <2>1, ProcessSystem DEF SystemInv, System!P!MainPCs
  <2>3. StoresWell
      BY <1>0, <1>c, <1>q, <2>1, StoresSpec
  <2> QED BY <2>2, <2>3, StoresSystem
<1>4. ASSUME System!P!LoadState(n) PROVE SystemInv'
  <2>1. /\ main[n] = "load" /\ main' = [main EXCEPT ![n] = "updateGet"]
        /\ prepared' = [prepared EXCEPT ![n] = s.prepared]
        /\ UNCHANGED <<nas, nasFresh, copy, call>>
      BY <1>4 DEF System!P!LoadState
  <2>2. prepared' \in [Nodes -> SUBSET Claims]
      BY <1>0, <2>1 DEF SpecType
  <2>3. PluginInv'
      BY <1>0, <1>q, <1>r, <2>1, <2>2, ProcessSystem DEF SystemInv, System!P!MainPCs
  <2> QED BY <1>0, <1>c, <2>1, <2>3, StoresNothing, StoresSystem
<1>5. ASSUME System!P!StartUpdateGet(n) PROVE SystemInv'
  <2>1. /\ main[n] = "updateGet" /\ main' = [main EXCEPT ![n] = "updatePut"]
        /\ nasFresh' = [nasFresh EXCEPT ![n] = @ \cup {n}]
        /\ UNCHANGED <<nas, copy, prepared, call>>
      BY <1>5 DEF System!P!StartUpdateGet, System!P!Read
  <2>2. PluginInv'
      BY <1>0, <1>q, <1>r, <2>1, ProcessSystem DEF SystemInv, System!P!MainPCs
  <2>3. nasFresh' \in [Nodes -> SUBSET Clients]
      BY <1>0, <2>1
  <2> QED BY <1>c, <2>1, <2>2, <2>3, StoresNothing, StoresSystem
<1>6. ASSUME System!P!StartUpdatePut(n) PROVE SystemInv'
  <2> DEFINE t == [s EXCEPT !.prepared = prepared[n]]
  <2>1. /\ main[n] = "updatePut" /\ main' = [main EXCEPT ![n] = "ready"]
        /\ nas' = [nas EXCEPT ![n] = [nas[n] EXCEPT !.spec = t]]
        /\ nasFresh' = [nasFresh EXCEPT ![n] = {n}]
        /\ copy' = [copy EXCEPT ![n] = t]
        /\ UNCHANGED <<prepared, call>>
      BY <1>6 DEF System!P!StartUpdatePut, System!P!Write
  <2>2. t \in SpecType /\ t.claims = s.claims /\ t.cpus = s.cpus /\ t.util = s.util
      BY <1>0 DEF SpecType
  <2>3. Consistent(t)
      BY <1>q, <2>1, <2>2 DEF Consistent, Conserved
  <2> HIDE DEF t
  <2>4. /\ nas[n].ready \in BOOLEAN
        /\ [nas[n] EXCEPT !.spec = t] = [ready |-> nas[n].ready, spec |-> t]
      BY <1>0
  <2>5. PluginInv'
      BY <1>0, <1>q, <1>r, <1>s, <2>1, <2>2, <2>3, ProcessSystem DEF SystemInv, System!P!MainPCs
  <2>6. StoresWell
      BY <1>0, <1>c, <2>1, <2>2, <2>3, <2>4, StoresSpec
  <2> QED BY <2>5, <2>6, StoresSystem
<1>7. ASSUME System!P!StartReady(n) PROVE SystemInv'
  <2>1. /\ main[n] = "ready" /\ main' = [main EXCEPT ![n] = "up"]
        /\ nas' = [nas EXCEPT ![n] = [ready |-> TRUE, spec |-> s]]
        /\ nasFresh' = [nasFresh EXCEPT ![n] = {}]
        /\ UNCHANGED <<copy, prepared, call>>
      BY <1>7 DEF System!P!StartReady, System!P!Write
  <2>2. PluginInv'
      BY <1>0, <1>q, <1>r, <2>1, ProcessSystem DEF SystemInv, System!P!MainPCs
  <2>3. StoresWell
      BY <1>0, <1>c, <1>q, <2>1, StoresSpec
  <2> QED BY <2>2, <2>3, StoresSystem
<1>8. ASSUME System!P!MainConflict(n) PROVE SystemInv'
  <2>1. main[n] \in {"notReady", "updatePut", "ready"} /\ UNCHANGED <<nas, nasFresh>>
      BY <1>0, <1>8 DEF System!P!MainConflict
  <2>2. CASE System!P!Gone(n)
    <3>1. PluginInv'
        BY <2>2, GoneSystem DEF SystemInv
    <3> QED BY <1>0, <1>c, <2>1, <3>1, StoresNothing, StoresSystem
  <2>3. CASE ~System!P!Gone(n)
    <3>1. PICK pc \in {"updateGet", "create"} :
             main' = [main EXCEPT ![n] = pc] /\ UNCHANGED <<copy, prepared, call>>
        BY <1>8, <2>1, <2>3 DEF System!P!MainConflict
    <3>2. PluginInv'
        BY <1>0, <1>q, <1>r, <2>1, <3>1, ProcessSystem DEF SystemInv, System!P!MainPCs
    <3> QED BY <1>0, <1>c, <2>1, <3>2, StoresNothing, StoresSystem
  <2> QED BY <2>2, <2>3
<1>9. ASSUME System!P!MainFails(n) \/ System!P!PluginCrash(n) \/ System!P!StopNotReady(n)
      PROVE SystemInv'
  <2>1. UNCHANGED <<nas, nasFresh>> /\ System!P!Gone(n)
      BY <1>0, <1>9 DEF System!P!MainFails, System!P!PluginCrash, System!P!StopNotReady
  <2>2. PluginInv'
      BY <2>1, GoneSystem DEF SystemInv
  <2> QED BY <1>0, <1>c, <2>1, <2>2, StoresNothing, StoresSystem
<1>10. ASSUME System!P!SetNotReady(n) PROVE SystemInv'
  <2>1. /\ nas' = [nas EXCEPT ![n] = [ready |-> FALSE, spec |-> nas[n].spec]]
        /\ nasFresh' = [nasFresh EXCEPT ![n] = {}]
        /\ UNCHANGED <<copy, prepared, main, call>>
      BY <1>10 DEF System!P!SetNotReady, System!P!Write
  <2>2. PluginInv'
      BY <2>1 DEF SystemInv, PluginInv, PluginData, CallHolds, CopyHolds
  <2>3. StoresWell
      BY <1>0, <1>c, <2>1, StoresSpec
  <2> QED BY <2>2, <2>3, StoresSystem
<1>11. ~System!P!StopPlugin(n)
    BY DEF Deployed, System!P!StopPlugin
<1> QED BY <1>1, <1>2, <1>3, <1>4, <1>5, <1>6, <1>7, <1>8, <1>9, <1>10, <1>11
       DEF System!P!Starts, System!P!Ends

LEMMA SystemInit == Deployed /\ System!Init => SystemInv
<1> SUFFICES ASSUME Deployed, System!Init PROVE SystemInv
    OBVIOUS
<1>1. /\ nas = [n \in Nodes |-> [ready |-> FALSE, spec |-> EmptySpec]]
      /\ nasFresh = [n \in Nodes |-> {}]
      /\ ControllerInit
    BY DEF System!Init, EmptySpec, NoCpus, System!EmptySpec, System!NoCpus,
           System!C!ControllerInit, ControllerInit, System!C!NotPending, NotPending,
           System!C!Idle, Idle, System!C!EmptySpec, System!C!NoCpus
<1>2. /\ copy = [n \in Nodes |-> EmptySpec] /\ prepared = [n \in Nodes |-> {}]
      /\ main = [n \in Nodes |-> "down"]
      /\ call = [h \in Handlers |-> System!P!CallIdle]
    BY DEF System!Init, System!P!PluginInit, System!P!EmptySpec, System!P!NoCpus, EmptySpec, NoCpus
<1>3. TypeInv
    BY <1>1, IdleType, EmptySpecType, NoneAssumption
       DEF ControllerInit, TypeInv, TypeOK, ShapeOK, ClaimType, NotPending
<1>4. LedgerInv
  <2>1. \A n \in Nodes : Consistent(nas[n].spec)
      BY <1>1, EmptyConsistent
  <2>2. Idle.pc = "idle"
      BY DEF Idle
  <2> QED BY <1>1, <2>1, <2>2 DEF ControllerInit, LedgerInv, Ledger, LedgerPCs
<1>5. PluginInv
  <2>1. PluginData
      BY <1>2, EmptySpecType, CallFailed DEF PluginData, System!P!MainPCs
  <2>2. \A h \in Handlers : CallHolds(h)
      BY <1>2, CallFailed DEF CallHolds, Torn
  <2>3. \A n \in Nodes : CopyHolds(n)
      BY <1>2, EmptyConsistent DEF CopyHolds
  <2> QED BY <2>1, <2>2, <2>3 DEF PluginInv
<1> QED BY <1>3, <1>4, <1>5 DEF SystemInv

LEMMA SystemNext == Deployed /\ SystemInv /\ [System!Next]_(System!systemVars) => SystemInv'
<1> SUFFICES ASSUME Deployed, SystemInv, [System!Next]_(System!systemVars) PROVE SystemInv'
    OBVIOUS
<1>1. ASSUME NEW w \in Workers,
             System!WorkerSteps(w) \/ \E c \in Claims : System!WorkerSyncsClaim(w, c)
      PROVE  SystemInv'
    BY <1>1, WorkerSystem
<1>2. ASSUME System!ControllerCrash \/ \E c \in Claims : \/ System!ClaimDeleted(c)
                                                         \/ System!DeallocationRequested(c)
      PROVE  SystemInv'
    BY <1>2, EnvironmentSystem
<1>3. ASSUME NEW c \in Claims, System!Reserve(c) \/ System!PodsEnd(c) PROVE SystemInv'
    BY <1>3, ReservationSystem
<1>4. ASSUME NEW h \in Handlers, NEW c \in Claims, System!KubeletCalls(h, c) PROVE SystemInv'
    BY <1>4, KubeletSystem
<1>5. ASSUME System!PluginSteps PROVE SystemInv'
    BY <1>5, HandlesSystem, ProcessStepSystem DEF System!PluginSteps
<1>6. CASE UNCHANGED System!systemVars
  <2>1. /\ UNCHANGED <<nas, nasFresh, claim, claimFresh, pending, lock, job>>
        /\ UNCHANGED <<copy, prepared, main, call, kubelet>>
      BY <1>6 DEF System!systemVars, System!controllerOwn, System!pluginOwn
  <2> QED BY <2>1, PluginSame DEF SystemInv, TypeInv, TypeOK, ShapeOK, LedgerInv
<1> QED BY <1>1, <1>2, <1>3, <1>4, <1>5, <1>6 DEF System!Next

\* The inductive invariant: whatever the controller or a plugin stores, or has in hand
\* to store, is a ledger that agrees with itself, if a plugin handles one call at a time.
THEOREM SystemLedgerInvariant == ASSUME Deployed PROVE System!Spec => []SystemInv
<1>1. System!Init => SystemInv
    BY SystemInit
<1>2. SystemInv /\ [System!Next]_(System!systemVars) => SystemInv'
    BY SystemNext
<1> QED BY <1>1, <1>2, PTL DEF System!Spec

\* UtilConserved of DraSystem is that of Controller, over the same NAS objects.
LEMMA UtilConservedSame == System!UtilConserved <=> UtilConserved
    BY DEF System!UtilConserved, System!C!UtilConserved, UtilConserved, System!C!Conserved,
           Conserved, System!C!Load, Load, System!C!Util, Util, System!C!On, On

\* UtilConserved of the composition: the plugins overwrite what the controller has
\* stored, and the other way round, and the utilisation in each NAS is still the sum
\* over the claims recorded there, whatever requests fail, answers are lost and
\* processes end.
THEOREM SystemUtilisationConserved ==
    ASSUME Deployed
    PROVE  System!Spec => [](System!UtilConserved /\ UtilConserved)
<1>1. SystemInv => System!UtilConserved /\ UtilConserved
    BY UtilConservedSame DEF SystemInv, LedgerInv, Consistent, UtilConserved
<1> QED BY <1>1, SystemLedgerInvariant, PTL

----------------------------------------------------------------------------
(***************************************************************************)
(* A claim that containers use stays recorded.                             *)
(***************************************************************************)

\* Where a worker has a copy of a NAS that it is on its way to store.
Carrying == {"exists", "take", "release"} \cup ToStore

\* Worker u has found claim c recorded on node n, or recorded it there, and its copy
\* of the claim is still current: it may set the claim's status.
Granted(u, n, c) ==
    /\ job[u].pod # None /\ job[u].pc \in Allocating /\ job[u].sel = n
    /\ c \in job[u].cas /\ u \in claimFresh[c]
    /\ c \notin job[u].todo \/ (job[u].pc = "updated" /\ job[u].claim = c)

\* Claim c is allocated on node n, or may yet be, and nobody is giving it up.
Settled(n, c) ==
    \/ claim[c].node = n /\ (claim[c].phase = "live" \/ c \in reserved)
    \/ \E u \in Workers : Granted(u, n, c)

\* Where a call has a spec at hand, to assign or to store.
InHand == Torn \cup {"assign", "updateGet", "updatePut"}

\* Claim c is prepared, or being prepared with a device that the copy has named.
Held(n, c) ==
    \/ kubelet[n][c].phase = "prepared"
    \/ \E h \in Handlers : /\ NodeOf[h] = n /\ call[h].op = "prepare"
                           /\ call[h].claim = c /\ call[h].device # {}

\* What a worker is about to store has its claim in it, on the node it is about.
OnSelected(w) ==
    job[w].pod # None /\ job[w].pc \in {"exists", "take"} \cup UpdatePCs =>
       /\ job[w].node = job[w].sel
       /\ job[w].pc \in ToStore => job[w].claim \in job[w].crd.claims

\* The scheduler does not give up what is in use.
UseInv ==
    /\ \A n \in Nodes, c \in Claims : System!P!InUse(n, c) => c \in reserved /\ claim[c].node = n
    /\ \A w \in Workers : Dealloc(job[w]) => job[w].claim \notin reserved

\* What a call has at hand when it stores is what the copy records, and a call to
\* prepare that goes on past the state has a device.
DeviceInv ==
    /\ kubelet \in [Nodes -> [Claims -> System!P!KubeletType]]
    /\ \A h \in Handlers :
          /\ call[h].pc \in {"updateGet", "updatePut"} => call[h].spec.claims = copy[NodeOf[h]].claims
          /\ call[h].pc \in {"device", "get"} => ~call[h].stored
          /\ /\ call[h].op = "prepare"
             /\ call[h].stored \/ call[h].pc \in {"sync", "updateGet", "updatePut", "done"}
             => call[h].device # {}

\* A claim that is settled on a node and not in its NAS is in no spec that the plugin
\* could bring it back from; one that is in the NAS is in every copy that a worker
\* could take it away with; one that is held is in the plugin's copies as well.
RecordInv ==
    \A n \in Nodes, c \in Claims :
       /\ Settled(n, c) /\ c \notin nas[n].spec.claims =>
             /\ c \notin copy[n].claims
             /\ \A h \in Handlers : NodeOf[h] = n /\ call[h].pc \in InHand => c \notin call[h].spec.claims
       /\ Settled(n, c) /\ c \in nas[n].spec.claims =>
             \A w \in Workers : job[w].pc \in Carrying /\ job[w].node = n => c \in job[w].crd.claims
       /\ Held(n, c) =>
             /\ c \in nas[n].spec.claims
             /\ main[n] \notin {"down", "create"} => c \in copy[n].claims
             /\ \A h \in Handlers : NodeOf[h] = n /\ call[h].pc \in InHand => c \in call[h].spec.claims

KeptInv ==
    /\ LockInv /\ StatusInv /\ UseInv /\ DeviceInv /\ RecordInv
    /\ \A w \in Workers : OnSelected(w)

----------------------------------------------------------------------------
\* Worker w finds claim c recorded on its node, or records it.
Grants(w, n, c) ==
    /\ job[w].sel = n
    /\ \/ AllocateExists(w, c)
       \/ UpdatePut(w) /\ job[w].pod # None /\ job[w].claim = c /\ job'[w].pc = "updated"

\* What worker w has at hand after a step is what it reads in it, or has the claims
\* it had before, but for the one that it deallocates.
Carries(w) ==
    \/ UNCHANGED nas /\ job'[w].crd = nas[job'[w].node].spec
    \/ /\ job[w].pc \in Carrying /\ job'[w].node = job[w].node
       /\ \A c \in job[w].crd.claims : \/ c \in job'[w].crd.claims
                                       \/ Dealloc(job[w]) /\ c = job[w].claim

\* The part of a step that is the worker's own.
Works(w) ==
    /\ OnSelected(w)'
    /\ \A n \in Nodes, c \in Claims : Granted(w, n, c)' => Granted(w, n, c) \/ Grants(w, n, c)
    /\ job'[w].pc \in Carrying => Carries(w)

LEMMA CarryingPCs ==
    /\ Carrying \subseteq AtNode /\ Carrying \cap Planning = {} /\ "updated" \notin Carrying
    /\ {"latest", "updated", "updateFailed"} \cap Carrying = {}
    /\ {"exists", "take"} \cup UpdatePCs \subseteq AtNode
BY DEF Carrying, ToStore, AtNode, UpdatePCs, Planning

\* A worker that goes where no claim is granted and nothing is at hand.
LEMMA LeaveWorks ==
    ASSUME NEW w \in Workers, job'[w].pc \notin Allocating, job'[w].pc # "release"
    PROVE  Works(w)
BY DEF Works, OnSelected, Granted, Allocating, Carrying, ToStore, UpdatePCs

\* A worker that is between two claims, and has granted no more of them.
LEMMA BetweenWorks ==
    ASSUME NEW w \in Workers, job'[w].pc = "allocate",
           \A n \in Nodes, c \in Claims : Granted(w, n, c)' => Granted(w, n, c) \/ Grants(w, n, c)
    PROVE  Works(w)
BY DEF Works, OnSelected, Carrying, ToStore, UpdatePCs

\* A worker that goes on with the same claims.
LEMMA GrantedStays ==
    ASSUME NEW w \in Workers, job'[w].pod = job[w].pod, job'[w].sel = job[w].sel,
           job[w].pc \in Allocating, job'[w].pc # "updated",
           job'[w].cas \ job'[w].todo \subseteq job[w].cas \ job[w].todo,
           \A c \in job'[w].cas : w \in claimFresh'[c] => w \in claimFresh[c]
    PROVE  \A n \in Nodes, c \in Claims : Granted(w, n, c)' => Granted(w, n, c)
BY DEF Granted

LEMMA StartsWorks ==
    ASSUME TypeInv, NEW w \in Workers, Starts(w)
    PROVE  Works(w)
<1>1. ASSUME NEW p \in Pods, SyncPod(w, p) PROVE Works(w)
  <2> DEFINE cas == {c \in ClaimsOf(p) : claim[c].node = None}
             first(nodes, sel) ==
                [Idle EXCEPT !.pc = "unsuitable", !.pod = p, !.sel = sel, !.nodes = nodes,
                             !.cas = cas, !.finalized = {c \in cas : claim[c].finalizer}]
  <2>1. PICK nodes, sel : Become(w, first(nodes, sel))
      BY <1>1 DEF SyncPod
  <2>2. first(nodes, sel).pc = "unsuitable"
      BY DEF Idle
  <2> HIDE DEF first
  <2> QED BY <2>1, <2>2, BecomeJob, LeaveWorks, PCsApart
<1>2. ASSUME NEW c \in Claims, SyncClaim(w, c) PROVE Works(w)
  <2> DEFINE pc == IF SelectedNode(c) = None THEN "unfinalize" ELSE "dealloc"
             j == [Idle EXCEPT !.pc = pc, !.claim = c, !.sel = SelectedNode(c)]
  <2>1. j.pc \in {"unfinalize", "dealloc"}
      BY DEF Idle
  <2>2. Become(w, j)
      BY <1>2 DEF SyncClaim
  <2> HIDE DEF j
  <2> QED BY <2>1, <2>2, BecomeJob, LeaveWorks, PCsApart
<1> QED BY <1>1, <1>2 DEF Starts

LEMMA UnsuitableWorks ==
    ASSUME TypeInv, NEW w \in Workers, UnsuitableStep(w), ~Panics(w)
    PROVE  Works(w)
<1>0. job \in [Workers -> JobType] /\ job[w] \in JobType /\ Shape(job[w])
    BY DEF TypeInv, TypeOK, ShapeOK
<1>1. job'[w].pc \in {"unsuitable"} \cup Planning
  <2>1. ASSUME PlanSteps(w) PROVE job'[w].pc \in Planning
      BY <2>1, PlanStepsPCs
  <2>2. ASSUME NEW n \in Nodes, UnsuitableNotReady(w, n) PROVE job'[w].pc = "unsuitable"
      BY <1>0, <2>2 DEF UnsuitableNotReady, Become, JobType
  <2>3. ASSUME NEW c \in Claims, PlaceFails(w, c) PROVE job'[w].pc = "unsuitable"
      BY <1>0, <2>3 DEF PlaceFails, Become, JobType
  <2>4. ASSUME UnsuitableDone(w) PROVE job'[w].pc = "unsuitable"
      BY <1>0, <2>4 DEF UnsuitableDone, Become, JobType
  <2> QED BY <2>1, <2>2, <2>3, <2>4 DEF UnsuitableStep, PlanSteps, Panics
<1> QED BY <1>1, LeaveWorks, PCsApart DEF Planning

\* allocate, the finalizers and the statuses.
LEMMA AllocateWorks ==
    ASSUME TypeInv, NEW w \in Workers, OnSelected(w), AllocateStep(w)
    PROVE  Works(w)
<1>0. job \in [Workers -> JobType] /\ job[w] \in JobType /\ Shape(job[w])
    BY DEF TypeInv, TypeOK, ShapeOK
<1>a. claim \in [Claims -> ClaimType] /\ claimFresh \in [Claims -> SUBSET Workers]
    BY DEF TypeInv, TypeOK
<1>p. job[w].pc \in PodPCs => job[w].pod # None
    BY <1>0, NoneAssumption DEF Shape
<1>1. ASSUME StartAllocate(w) PROVE Works(w)
  <2>1. job'[w].pc = "finalize"
      BY <1>0, <1>1 DEF StartAllocate, Become, JobType
  <2> QED BY <2>1, LeaveWorks, PCsApart
<1>2. ASSUME SyncPodDone(w) PROVE Works(w)
  <2>1. job'[w] = Idle /\ Idle.pc = "idle"
      BY <1>2, BecomeJob DEF SyncPodDone, Return, Idle
  <2> QED BY <2>1, LeaveWorks, PCsApart
<1>3. ASSUME FinalizersAdded(w) PROVE Works(w)
  <2>1. job'[w].pc = "allocate" /\ job'[w].todo = job'[w].cas
      BY <1>0, <1>3 DEF FinalizersAdded, Become, JobType
  <2> QED BY <2>1, BetweenWorks DEF Granted
<1>4. ASSUME NEW c \in Claims, AddFinalizer(w, c) \/ AddFinalizerFails(w, c) PROVE Works(w)
  <2>1. job'[w].pc = "finalize"
      BY <1>0, <1>4 DEF AddFinalizer, AddFinalizerFails, Become, JobType
  <2> QED BY <2>1, LeaveWorks, PCsApart
<1>5. ASSUME NEW c \in Claims, AllocateGet(w, c) PROVE Works(w)
  <2>1. /\ job[w].pc = "allocate" /\ job'[w].pc = "exists" /\ job'[w].pod = job[w].pod
        /\ job'[w].sel = job[w].sel /\ job'[w].node = job[w].sel /\ job'[w].cas = job[w].cas
        /\ job'[w].todo = job[w].todo /\ job'[w].crd = nas[job[w].sel].spec
      BY <1>0, <1>5 DEF AllocateGet, Become, JobType
  <2>2. UNCHANGED <<nas, claimFresh>>
      BY <1>5 DEF AllocateGet
  <2>3. \A n \in Nodes, d \in Claims : Granted(w, n, d)' => Granted(w, n, d)
      BY <2>1, <2>2, GrantedStays DEF Allocating
  <2> QED BY <2>1, <2>2, <2>3 DEF Works, OnSelected, Carries, ToStore
<1>6. ASSUME NEW c \in Claims, AllocateExists(w, c) PROVE Works(w)
  <2>1. /\ job[w].pc = "allocate" /\ job'[w].pc = "allocate" /\ job'[w].pod = job[w].pod
        /\ job'[w].sel = job[w].sel /\ job'[w].cas = job[w].cas
        /\ job'[w].todo = job[w].todo \ {c} /\ claimFresh' = claimFresh
      BY <1>0, <1>6 DEF AllocateExists, Become, JobType
  <2>2. \A n \in Nodes, d \in Claims : Granted(w, n, d)' => Granted(w, n, d) \/ Grants(w, n, d)
      BY <1>6, <2>1 DEF Granted, Grants
  <2> QED BY <2>1, <2>2, BetweenWorks
<1>7. ASSUME NEW c \in Claims, AllocateNotReady(w, c) PROVE Works(w)
  <2>1. /\ job[w].pc = "allocate" /\ job'[w].pc = "allocate" /\ job'[w].pod = job[w].pod
        /\ job'[w].sel = job[w].sel /\ job'[w].cas = job[w].cas \ {c}
        /\ job'[w].todo = job[w].todo \ {c} /\ claimFresh' = claimFresh
      BY <1>0, <1>7 DEF AllocateNotReady, Become, JobType
  <2>2. \A n \in Nodes, d \in Claims : Granted(w, n, d)' => Granted(w, n, d)
      BY <2>1, GrantedStays DEF Allocating
  <2> QED BY <2>1, <2>2, BetweenWorks
<1>8. ASSUME NEW c \in Claims, SetClaimStatus(w, c) \/ SetClaimStatusFails(w, c) PROVE Works(w)
  <2>1. /\ job[w].pc = "allocate" /\ job'[w].pc = "allocate" /\ job'[w].pod = job[w].pod
        /\ job'[w].sel = job[w].sel /\ job'[w].cas = job[w].cas \ {c}
        /\ job'[w].todo = job[w].todo
      BY <1>0, <1>8 DEF SetClaimStatus, SetClaimStatusFails, Become, JobType
  <2>2. \A d \in Claims \ {c} : claimFresh'[d] = claimFresh[d]
      BY <1>a, <1>8 DEF SetClaimStatus, SetClaimStatusFails, WriteClaim
  <2>3. job[w].cas \subseteq Claims
      BY <1>0 DEF JobType
  <2>4. \A n \in Nodes, d \in Claims : Granted(w, n, d)' => Granted(w, n, d)
      BY <2>1, <2>2, <2>3, GrantedStays DEF Allocating
  <2> QED BY <2>1, <2>4, BetweenWorks
<1>9. ASSUME AllocatePending(w) PROVE Works(w)
  <2>1. /\ job[w].pc = "exists" /\ job'[w].pc = "take" /\ job'[w].pod = job[w].pod
        /\ job'[w].sel = job[w].sel /\ job'[w].cas = job[w].cas /\ job'[w].node = job[w].node
        /\ job'[w].todo = job[w].todo /\ job'[w].crd = job[w].crd /\ claimFresh' = claimFresh
      BY <1>0, <1>9 DEF AllocatePending, Become, JobType
  <2>2. \A n \in Nodes, d \in Claims : Granted(w, n, d)' => Granted(w, n, d)
      BY <2>1, GrantedStays DEF Allocating
  <2> QED BY <2>1, <2>2 DEF Works, OnSelected, Carries, Carrying, ToStore
<1>10. ASSUME AllocateTake(w) PROVE Works(w)
  <2> DEFINE crd == AddClaim(job[w].crd, job[w].claim, pending[job[w].claim][job[w].node])
  <2>0. crd.claims = job[w].crd.claims \cup {job[w].claim}
      BY DEF AddClaim
  <2>1. /\ job[w].pc = "take" /\ job'[w].pc = "updateGet" /\ job'[w].pod = job[w].pod
        /\ job'[w].sel = job[w].sel /\ job'[w].cas = job[w].cas /\ job'[w].node = job[w].node
        /\ job'[w].todo = job[w].todo /\ job'[w].crd = crd
        /\ job'[w].claim = job[w].claim /\ claimFresh' = claimFresh
      BY <1>0, <1>10 DEF AllocateTake, Become, JobType
  <2> HIDE DEF crd
  <2>2. \A n \in Nodes, d \in Claims : Granted(w, n, d)' => Granted(w, n, d)
      BY <2>1, GrantedStays DEF Allocating
  <2> QED BY <2>0, <2>1, <2>2 DEF Works, OnSelected, Carries, Carrying, ToStore
<1>11. ASSUME AllocateSuccess(w) PROVE Works(w)
  <2>1. /\ job[w].pc = "updated" /\ job[w].pod # None
        /\ job'[w].pc = "allocate" /\ job'[w].pod = job[w].pod
        /\ job'[w].sel = job[w].sel /\ job'[w].cas = job[w].cas
        /\ job'[w].todo = job[w].todo \ {job[w].claim} /\ claimFresh' = claimFresh
      BY <1>0, <1>11 DEF AllocateSuccess, Become, JobType
  <2>2. \A n \in Nodes, d \in Claims : Granted(w, n, d)' => Granted(w, n, d)
      BY <2>1 DEF Granted, Allocating, UpdatePCs
  <2> QED BY <2>1, <2>2, BetweenWorks
<1>12. ASSUME AllocateNotPending(w) \/ AllocateFails(w) PROVE Works(w)
  <2>1. job[w].pc \in Allocating /\ DropClaim(w) /\ claimFresh' = claimFresh
      BY <1>12 DEF AllocateNotPending, AllocateFails, Allocating, UpdatePCs
  <2>2. /\ job'[w].pc = "allocate" /\ job'[w].pod = job[w].pod
        /\ job'[w].sel = job[w].sel /\ job'[w].cas = job[w].cas \ {job[w].claim}
        /\ job'[w].todo = job[w].todo \ {job[w].claim}
      BY <1>0, <2>1 DEF DropClaim, Become, JobType
  <2>3. \A n \in Nodes, d \in Claims : Granted(w, n, d)' => Granted(w, n, d)
      BY <2>1, <2>2, GrantedStays
  <2> QED BY <2>2, <2>3, BetweenWorks
<1> QED BY <1>1, <1>2, <1>3, <1>4, <1>5, <1>6, <1>7, <1>8, <1>9, <1>10, <1>11, <1>12
        DEF AllocateStep

\* Client.Update.
LEMMA UpdateWorks ==
    ASSUME TypeInv, NEW w \in Workers, OnSelected(w), UpdateStep(w)
    PROVE  Works(w)
<1>0. job \in [Workers -> JobType] /\ job[w] \in JobType
    BY DEF TypeInv, TypeOK
<1>1. /\ job'[w].pod = job[w].pod /\ job'[w].sel = job[w].sel /\ job'[w].node = job[w].node
      /\ job'[w].cas = job[w].cas /\ job'[w].todo = job[w].todo /\ job'[w].crd = job[w].crd
      /\ job'[w].claim = job[w].claim /\ job[w].pc \in ToStore /\ job'[w].pc \in UpdatePCs
      /\ job'[w].pc = "updated" => UpdatePut(w)
      /\ claimFresh' = claimFresh
  <2>1. CASE UpdateGet(w)
      BY <1>0, <2>1 DEF UpdateGet, Become, JobType, ToStore, UpdatePCs
  <2>2. CASE UpdateGetFails(w)
      BY <1>0, <2>2 DEF UpdateGetFails, Become, JobType, ToStore, UpdatePCs
  <2>3. CASE UpdatePut(w)
      BY <1>0, <2>3 DEF UpdatePut, Become, JobType, ToStore, UpdatePCs
  <2>4. CASE UpdateConflict(w) \/ UpdateError(w)
    <3>1. CountTry(w) /\ job[w].pc = "updatePut" /\ claimFresh' = claimFresh
        BY <2>4 DEF UpdateConflict, UpdateError
    <3> QED BY <1>0, <3>1 DEF CountTry, Become, JobType, ToStore, UpdatePCs
  <2> QED BY <2>1, <2>2, <2>3, <2>4 DEF UpdateStep
<1>2. job[w].pc \in Allocating /\ job[w].pc \in UpdatePCs /\ job[w].pc \in Carrying
    BY <1>1 DEF ToStore, Allocating, UpdatePCs, Carrying
<1>3. \A n \in Nodes, c \in Claims : Granted(w, n, c)' => Granted(w, n, c) \/ Grants(w, n, c)
    BY <1>1, <1>2 DEF Granted, Grants
<1> QED BY <1>1, <1>2, <1>3 DEF Works, OnSelected, Carries

\* Deallocate, the status and the finalizer.
LEMMA ReleaseWorks ==
    ASSUME TypeInv, NEW w \in Workers, ClaimStep(w)
    PROVE  Works(w)
<1>0. job \in [Workers -> JobType] /\ job[w] \in JobType /\ Shape(job[w])
    BY DEF TypeInv, TypeOK, ShapeOK
<1>1. ASSUME DeallocateGet(w) PROVE Works(w)
  <2>1. job'[w].pc \in {"latest", "clear"}
    <3>1. CASE Become(w, [job[w] EXCEPT !.pc = "latest", !.node = job[w].sel])
        BY <1>0, <3>1 DEF Become, JobType
    <3>2. CASE Become(w, [job[w] EXCEPT !.pc = "clear"])
        BY <1>0, <3>2 DEF Become, JobType
    <3> QED BY <1>1, <3>1, <3>2 DEF DeallocateGet
  <2> QED BY <2>1, LeaveWorks, PCsApart
<1>2. ASSUME DeallocateLatest(w) PROVE Works(w)
  <2>1. /\ job[w].pc = "latest" /\ job'[w].pc = "release" /\ job'[w].node = job[w].node
        /\ job'[w].crd = nas[job[w].node].spec /\ UNCHANGED nas
      BY <1>0, <1>2 DEF DeallocateLatest, Become, JobType
  <2> QED BY <2>1, PCsApart DEF Works, OnSelected, Granted, Carries, UpdatePCs
<1>3. ASSUME DeallocateRelease(w) PROVE Works(w)
  <2>0. RemoveClaim(job[w].crd, job[w].claim).claims = job[w].crd.claims \ {job[w].claim}
      BY DEF RemoveClaim
  <2>1. /\ job[w].pc = "release" /\ job'[w].pc = "updateGet" /\ job'[w].pod = job[w].pod
        /\ job'[w].node = job[w].node
        /\ job'[w].crd = RemoveClaim(job[w].crd, job[w].claim)
      BY <1>0, <1>3 DEF DeallocateRelease, Become, JobType
  <2>2. job[w].pod = None /\ Dealloc(job[w])
      BY <1>0, <2>1 DEF Shape, ClaimPCs, Dealloc
  <2> QED BY <2>0, <2>1, <2>2 DEF Works, OnSelected, Granted, Carries, Carrying
<1>4. ASSUME DeallocateDone(w) PROVE Works(w)
  <2>1. job'[w].pc = "clear"
      BY <1>0, <1>4 DEF DeallocateDone, Become, JobType
  <2> QED BY <2>1, LeaveWorks, PCsApart
<1>5. ASSUME ClearStatus(w) PROVE Works(w)
  <2>1. job'[w].pc = "unfinalize"
      BY <1>0, <1>5 DEF ClearStatus, Become, JobType
  <2> QED BY <2>1, LeaveWorks, PCsApart
<1>6. ASSUME DeallocateFails(w) \/ RemoveFinalizer(w) \/ ClaimWriteFails(w) PROVE Works(w)
  <2>1. job'[w] = Idle /\ Idle.pc = "idle"
      BY <1>6, BecomeJob DEF DeallocateFails, RemoveFinalizer, ClaimWriteFails, Return, Idle
  <2> QED BY <2>1, LeaveWorks, PCsApart
<1> QED BY <1>1, <1>2, <1>3, <1>4, <1>5, <1>6 DEF ClaimStep

LEMMA StepsWork ==
    ASSUME TypeInv, NEW w \in Workers, OnSelected(w), Starts(w) \/ Continues(w), ~Panics(w)
    PROVE  Works(w)
BY StartsWorks, UnsuitableWorks, AllocateWorks, UpdateWorks, ReleaseWorks DEF Continues

----------------------------------------------------------------------------
\* A worker's step in the composition, but for the end of the process.
WorkerTurn(w) ==
    /\ \/ Continues(w) /\ ~Panics(w)
       \/ \E p \in Pods : SyncPod(w, p)
       \/ \E c \in Claims \ reserved : SyncClaim(w, c)
    /\ reserved' = reserved \cup {c \in Claims : claim'[c].node # None /\ claim[c].node = None}
    /\ UNCHANGED <<copy, prepared, main, call, kubelet>>

LEMMA TurnSteps ==
    ASSUME TypeInv, NEW w \in Workers, WorkerTurn(w)
    PROVE  (Starts(w) \/ Continues(w)) /\ ~Panics(w)
<1>1. Starts(w) => ~Panics(w)
    BY DEF Starts, SyncPod, SyncClaim, Panics, Panic
<1> QED BY <1>1 DEF WorkerTurn, Starts

\* Only SetClaimStatus and ClearStatus change where a claim is allocated.
LEMMA NodeTurn ==
    ASSUME TypeInv, NEW w \in Workers, Starts(w) \/ Continues(w), ~Panics(w), NEW c \in Claims
    PROVE  \/ claim'[c].node = claim[c].node
           \/ SetClaimStatus(w, c)
           \/ Dealloc(job[w]) /\ c = job[w].claim /\ claim'[c].node = None
<1>0. job \in [Workers -> JobType] /\ job[w] \in JobType /\ Shape(job[w])
    BY DEF TypeInv, TypeOK, ShapeOK
<1>b. claim \in [Claims -> ClaimType]
    BY DEF TypeInv, TypeOK
<1>1. ASSUME Starts(w) PROVE claim' = claim
    BY <1>1 DEF Starts, SyncPod, SyncClaim
<1>2. ASSUME Steady(w) PROVE claim' = claim
    BY <1>2 DEF Steady
<1>3. ASSUME SyncPodDone(w) \/ DeallocateFails(w) \/ ClaimWriteFails(w) PROVE claim' = claim
    BY <1>3 DEF SyncPodDone, DeallocateFails, ClaimWriteFails
<1>4. ASSUME NEW d \in Claims, AddFinalizer(w, d) PROVE claim'[c].node = claim[c].node
  <2>1. CASE UNCHANGED claim
      BY <2>1
  <2>2. CASE WriteClaim(w, d, [claim[d] EXCEPT !.finalizer = TRUE])
      BY <1>b, <2>2 DEF WriteClaim, ClaimType
  <2> QED BY <1>4, <2>1, <2>2 DEF AddFinalizer
<1>5. ASSUME NEW d \in Claims, SetClaimStatus(w, d), d # c PROVE claim'[c] = claim[c]
    BY <1>b, <1>5 DEF SetClaimStatus, WriteClaim
<1>6. ASSUME ClearStatus(w)
      PROVE  \/ claim'[c].node = claim[c].node
             \/ Dealloc(job[w]) /\ c = job[w].claim /\ claim'[c].node = None
  <2> DEFINE d == job[w].claim
             r == [claim[d] EXCEPT !.node = None, !.phase = IF @ = "deallocate" THEN "live" ELSE @]
  <2>1. d \in Claims /\ Dealloc(job[w])
      BY <1>0, <1>6 DEF ClearStatus, Shape, ClaimPCs, Dealloc
  <2>2. r.node = None
      BY <1>b, <2>1 DEF ClaimType
  <2>3. WriteClaim(w, d, r)
      BY <1>6 DEF ClearStatus
  <2> HIDE DEF r, d
  <2>4. claim'[c] = IF c = d THEN r ELSE claim[c]
      BY <1>b, <2>1, <2>3 DEF WriteClaim
  <2> QED BY <2>1, <2>2, <2>4 DEF d
<1>7. ASSUME RemoveFinalizer(w) PROVE claim'[c].node = claim[c].node
  <2> DEFINE d == job[w].claim
             r == [claim[d] EXCEPT !.finalizer = FALSE, !.phase = IF @ = "delete" THEN "gone" ELSE @]
  <2>1. d \in Claims
      BY <1>0, <1>7 DEF RemoveFinalizer, Shape, ClaimPCs
  <2>2. r.node = claim[d].node
      BY <1>b, <2>1 DEF ClaimType
  <2>3. claim' = [claim EXCEPT ![d] = r]
      BY <1>7 DEF RemoveFinalizer
  <2> HIDE DEF d, r
  <2>4. claim'[c] = IF c = d THEN r ELSE claim[c]
      BY <1>b, <2>1, <2>3
  <2> QED BY <2>2, <2>4
<1> QED BY <1>1, <1>2, <1>3, <1>4, <1>5, <1>6, <1>7, PodStepsSteady, ClaimStepsSteady
        DEF Continues, UnsuitableStep, AllocateStep, ClaimStep, Panics

\* A worker that goes on takes up no deallocation.
LEMMA DeallocStays ==
    ASSUME TypeInv, NEW w \in Workers, Continues(w), ~Panics(w), Dealloc(job'[w])
    PROVE  Dealloc(job[w]) /\ job'[w].claim = job[w].claim
<1>0. job \in [Workers -> JobType] /\ job[w] \in JobType /\ Shape(job[w])
    BY DEF TypeInv, TypeOK, ShapeOK
<1>1. ASSUME Steady(w) PROVE Dealloc(job[w]) /\ job'[w].claim = job[w].claim
    BY <1>1 DEF Steady, Dealloc
<1>2. ASSUME \/ SyncPodDone(w) \/ DeallocateFails(w) \/ ClaimWriteFails(w) \/ RemoveFinalizer(w)
      PROVE  FALSE
  <2>1. job'[w] = Idle /\ ~Dealloc(Idle)
      BY <1>2, BecomeJob DEF SyncPodDone, DeallocateFails, ClaimWriteFails, RemoveFinalizer, Return,
                             Idle, Dealloc, UpdatePCs
  <2> QED BY <2>1
<1>3. ASSUME NEW c \in Claims, AddFinalizer(w, c) \/ SetClaimStatus(w, c) PROVE FALSE
  <2>1. job'[w].pod = job[w].pod /\ job[w].pc \in PodPCs
      BY <1>0, <1>3 DEF AddFinalizer, SetClaimStatus, Become, JobType, PodPCs
  <2> QED BY <1>0, <2>1, NoneAssumption DEF Shape, Dealloc
<1>4. ASSUME ClearStatus(w) PROVE FALSE
  <2>1. job'[w].pc = "unfinalize"
      BY <1>0, <1>4 DEF ClearStatus, Become, JobType
  <2> QED BY <2>1 DEF Dealloc, UpdatePCs
<1> QED BY <1>1, <1>2, <1>3, <1>4, PodStepsSteady, ClaimStepsSteady
        DEF Continues, UnsuitableStep, AllocateStep, ClaimStep, Panics

\* A claim that is deallocated is settled nowhere.
LEMMA NotSettled ==
    ASSUME TypeInv, StatusInv, UseInv, NEW w \in Workers, Dealloc(job[w]), NEW n \in Nodes
    PROVE  ~Settled(n, job[w].claim)
<1> DEFINE c == job[w].claim
<1>1. /\ job[w].sel # None /\ claim[c].phase # "live" /\ claim[c].node = job[w].sel
      /\ c \notin reserved
    BY DEF StatusInv, DeallocInv, GivenUp, UseInv
<1>2. ASSUME NEW u \in Workers, Granted(u, n, c) PROVE FALSE
    BY <1>1, <1>2 DEF Granted, StatusInv, FreshInv
<1> QED BY <1>1, <1>2 DEF Settled

\* Claims that are settled after a step of worker w were so before, or it has just
\* found or recorded them.
LEMMA SettledTurn ==
    ASSUME TypeInv, LockInv, NEW w \in Workers, WorkerTurn(w), Works(w),
           NEW n \in Nodes, NEW c \in Claims, Settled(n, c)'
    PROVE  Settled(n, c) \/ Grants(w, n, c)
<1>1. ClaimTurn(w)
    BY TurnSteps, StepsClaimTurn
<1>2. n # None
    BY NoneAssumption
<1>3. ASSUME SetClaimStatus(w, c), claim'[c].node = n PROVE Settled(n, c)
  <2>1. /\ job[w].pc = "allocate" /\ job[w].todo = {} /\ c \in job[w].cas /\ w \in claimFresh[c]
      BY <1>3 DEF SetClaimStatus, IsNext
  <2>2. job[w].sel = n
      BY <1>3 DEF SetClaimStatus, WriteClaim, AllocatedOn, TypeInv, TypeOK, ClaimType
  <2>3. job[w].pod # None
      BY <2>1, NoneAssumption DEF TypeInv, ShapeOK, Shape, PodPCs
  <2> QED BY <2>1, <2>2, <2>3 DEF Settled, Granted, Allocating
<1>4. CASE claim'[c].node = n /\ claim'[c].phase = "live"
    BY <1>1, <1>2, <1>3, <1>4 DEF ClaimTurn, Settled
<1>5. CASE claim'[c].node = n /\ c \in reserved'
    BY <1>1, <1>2, <1>3, <1>5 DEF ClaimTurn, Settled, WorkerTurn
<1>6. ASSUME NEW u \in Workers \ {w}, Granted(u, n, c)' PROVE Granted(u, n, c)
  <2>1. job'[u] = job[u]
      BY TurnSteps, StepsTurn DEF Turn
  <2>2. u \in claimFresh'[c] => u \in claimFresh[c]
      BY <1>1 DEF ClaimTurn
  <2> QED BY <1>6, <2>1, <2>2 DEF Granted
<1>7. ASSUME Granted(w, n, c)' PROVE Granted(w, n, c) \/ Grants(w, n, c)
    BY <1>7 DEF Works
<1> QED BY <1>4, <1>5, <1>6, <1>7 DEF Settled

LEMMA WorkerUse ==
    ASSUME TypeInv, LockInv, StatusInv, UseInv, NEW w \in Workers, WorkerTurn(w)
    PROVE  UseInv'
<1>0. \A v \in Workers : Shape(job[v])
    BY DEF TypeInv, ShapeOK
<1>1. ASSUME NEW n \in Nodes, NEW c \in Claims, System!P!InUse(n, c)'
      PROVE  c \in reserved' /\ claim'[c].node = n
  <2>1. System!P!InUse(n, c)
      BY <1>1 DEF WorkerTurn, System!P!InUse
  <2>2. c \in reserved /\ claim[c].node = n
      BY <2>1 DEF UseInv
  <2>3. ~SetClaimStatus(w, c)
    <3>1. SetClaimStatus(w, c) => claim[c].node = None
        BY DEF SetClaimStatus, IsNext, StatusInv, FreshInv
    <3> QED BY <2>2, <3>1, NoneAssumption
  <2>4. ~(Dealloc(job[w]) /\ c = job[w].claim)
      BY <2>2 DEF UseInv
  <2> QED BY <2>2, <2>3, <2>4, TurnSteps, NodeTurn DEF WorkerTurn
<1>2. ASSUME NEW v \in Workers, Dealloc(job[v]) PROVE job[v].claim \notin reserved'
  <2> DEFINE d == job[v].claim
  <2>1. d \notin reserved /\ claim[d].node # None
      BY <1>2 DEF UseInv, StatusInv, DeallocInv, GivenUp
  <2> QED BY <2>1 DEF WorkerTurn
<1>3. ASSUME NEW v \in Workers \ {w}, Dealloc(job'[v]) PROVE job'[v].claim \notin reserved'
  <2>1. job'[v] = job[v]
      BY TurnSteps, StepsTurn DEF Turn
  <2> QED BY <1>2, <1>3, <2>1
<1>4. ASSUME Dealloc(job'[w]) PROVE job'[w].claim \notin reserved'
  <2>1. CASE Continues(w) /\ ~Panics(w)
      BY <1>2, <1>4, <2>1, DeallocStays
  <2>2. ASSUME NEW p \in Pods, SyncPod(w, p) PROVE FALSE
    <3> DEFINE cas == {c \in ClaimsOf(p) : claim[c].node = None}
               first(nodes, sel) ==
                  [Idle EXCEPT !.pc = "unsuitable", !.pod = p, !.sel = sel, !.nodes = nodes,
                               !.cas = cas, !.finalized = {c \in cas : claim[c].finalizer}]
    <3>1. PICK nodes, sel : Become(w, first(nodes, sel))
        BY <2>2 DEF SyncPod
    <3>2. first(nodes, sel).pc = "unsuitable"
        BY DEF Idle
    <3> HIDE DEF first
    <3> QED BY <1>4, <3>1, <3>2, BecomeJob DEF Dealloc, UpdatePCs
  <2>3. ASSUME NEW c \in Claims \ reserved, SyncClaim(w, c) PROVE job'[w].claim \notin reserved'
    <3> DEFINE pc == IF SelectedNode(c) = None THEN "unfinalize" ELSE "dealloc"
               j == [Idle EXCEPT !.pc = pc, !.claim = c, !.sel = SelectedNode(c)]
    <3>1. j.claim = c
        BY DEF Idle
    <3>2. Become(w, j) /\ claim' = claim
        BY <2>3 DEF SyncClaim
    <3> HIDE DEF j
    <3> QED BY <2>3, <3>1, <3>2, BecomeJob DEF WorkerTurn
  <2> QED BY <2>1, <2>2, <2>3 DEF WorkerTurn
<1> QED BY <1>1, <1>3, <1>4 DEF UseInv

\* What is held is in use, and so it is settled.
LEMMA HeldSettled ==
    ASSUME UseInv, NEW n \in Nodes, NEW c \in Claims, Held(n, c)
    PROVE  System!P!InUse(n, c) /\ Settled(n, c)
<1>1. System!P!InUse(n, c)
    BY DEF Held, System!P!InUse
<1> QED BY <1>1 DEF UseInv, Settled

LEMMA WorkerRecord ==
    ASSUME TypeInv, KeptInv, NEW w \in Workers, WorkerTurn(w), Works(w)
    PROVE  RecordInv'
<1>0. LockInv /\ StatusInv /\ UseInv /\ RecordInv /\ OnSelected(w)
    BY DEF KeptInv
<1>t. Turn(w)
    BY <1>0, TurnSteps, StepsTurn
<1>p. UNCHANGED <<copy, main, call, kubelet>>
    BY DEF WorkerTurn
<1>s. UNCHANGED nas \/ Stores(w)
  <2>1. ASSUME job[w].pc = "updatePut", nas' = [nas EXCEPT ![job[w].node].spec = job[w].crd]
        PROVE  Stores(w)
    <3>1. job[w].node \in Nodes
        BY <2>1 DEF TypeInv, ShapeOK, Shape, AtNode, UpdatePCs
    <3> QED BY <2>1, <3>1 DEF Stores, TypeInv, TypeOK
  <2>2. ASSUME UpdateStep(w) PROVE UNCHANGED nas \/ Stores(w)
      BY <2>1, <2>2
         DEF UpdateStep, UpdateGet, UpdateGetFails, UpdatePut, UpdateConflict, UpdateError
  <2> QED BY <2>2, TurnSteps, NasKept
<1>1. ASSUME NEW n \in Nodes, NEW c \in Claims, Grants(w, n, c)
      PROVE  /\ c \in nas'[n].spec.claims
             /\ job'[w].pc \notin Carrying
             /\ lock[n] \in {None, w}
  <2>1. CASE AllocateExists(w, c)
    <3>1. c \in nas'[n].spec.claims /\ lock[n] = None
        BY <1>1, <2>1 DEF Grants, AllocateExists
    <3>2. job'[w].pc = "allocate"
        BY <2>1 DEF AllocateExists, Become, TypeInv, TypeOK, JobType
    <3> QED BY <3>1, <3>2 DEF Carrying, ToStore
  <2>2. CASE UpdatePut(w) /\ job[w].pod # None /\ job[w].claim = c /\ job'[w].pc = "updated"
    <3>1. job[w].pc = "updatePut" /\ job[w].pc \in ToStore
        BY <2>2 DEF UpdatePut, ToStore
    <3>2. job[w].node = n /\ c \in job[w].crd.claims
        BY <1>0, <1>1, <2>2, <3>1 DEF OnSelected, Grants, UpdatePCs
    <3>3. nas'[n].spec = job[w].crd
        BY <2>2, <3>2 DEF UpdatePut, TypeInv, TypeOK
    <3>4. lock[n] = w
        BY <1>0, <3>1, <3>2 DEF LockInv, AtNode, UpdatePCs
    <3> QED BY <2>2, <3>2, <3>3, <3>4, CarryingPCs
  <2> QED BY <1>1, <2>1, <2>2 DEF Grants
<1>2. ASSUME NEW n \in Nodes, NEW c \in Claims, Settled(n, c), c \in nas[n].spec.claims
      PROVE  c \in nas'[n].spec.claims
  <2>1. CASE nas'[n].spec = nas[n].spec
      BY <1>2, <2>1
  <2>2. CASE Stores(w) /\ n = job[w].node
    <3>1. c \in job[w].crd.claims
        BY <1>0, <1>2, <2>2 DEF RecordInv, Stores, Carrying, ToStore
    <3> QED BY <2>2, <3>1 DEF Stores
  <2> QED BY <1>s, <2>1, <2>2 DEF Stores
<1>3. ASSUME NEW n \in Nodes, NEW c \in Claims, Settled(n, c)', c \notin nas'[n].spec.claims
      PROVE  /\ c \notin copy'[n].claims
             /\ \A h \in Handlers : NodeOf[h] = n /\ call'[h].pc \in InHand
                                       => c \notin call'[h].spec.claims
  <2>1. Settled(n, c) /\ c \notin nas[n].spec.claims
      BY <1>0, <1>1, <1>2, <1>3, SettledTurn
  <2> QED BY <1>0, <1>p, <2>1 DEF RecordInv
<1>4. ASSUME NEW n \in Nodes, NEW c \in Claims, Settled(n, c)', c \in nas'[n].spec.claims,
             NEW v \in Workers, job'[v].pc \in Carrying, job'[v].node = n
      PROVE  c \in job'[v].crd.claims
  <2>1. CASE v # w
    <3>1. job'[v] = job[v]
        BY <1>t, <2>1 DEF Turn
    <3>2. job[v].pc \in Carrying /\ job[v].pc \in AtNode
        BY <1>4, <3>1, CarryingPCs
    <3>3. nas'[n].spec = nas[n].spec /\ lock[n] = v
        BY <1>0, <1>4, <1>t, <2>1, <3>1, <3>2, Undisturbed DEF LockInv
    <3>4. Settled(n, c)
        BY <1>0, <1>1, <1>4, <2>1, <3>3, SettledTurn, NoneAssumption
    <3> QED BY <1>0, <1>4, <3>1, <3>3, <3>4 DEF RecordInv
  <2>2. CASE v = w
    <3>1. Settled(n, c)
        BY <1>0, <1>1, <1>4, <2>2, SettledTurn
    <3>2. Carries(w)
        BY <1>4, <2>2 DEF Works
    <3>3. CASE UNCHANGED nas /\ job'[w].crd = nas[job'[w].node].spec
        BY <1>4, <2>2, <3>3
    <3>4. ASSUME job[w].pc \in Carrying, job[w].node = n,
                 \A d \in job[w].crd.claims : \/ d \in job'[w].crd.claims
                                              \/ Dealloc(job[w]) /\ d = job[w].claim
          PROVE  c \in job'[w].crd.claims
      <4>1. c \in job[w].crd.claims
        <5>1. CASE c \in nas[n].spec.claims
            BY <1>0, <3>1, <3>4, <5>1 DEF RecordInv
        <5>2. CASE c \notin nas[n].spec.claims
            BY <1>4, <1>s, <3>4, <5>2 DEF Stores
        <5> QED BY <5>1, <5>2
      <4>2. ~(Dealloc(job[w]) /\ c = job[w].claim)
          BY <1>0, <3>1, NotSettled
      <4> QED BY <3>4, <4>1, <4>2
    <3> QED BY <1>4, <2>2, <3>2, <3>3, <3>4 DEF Carries
  <2> QED BY <2>1, <2>2
<1>5. ASSUME NEW n \in Nodes, NEW c \in Claims, Held(n, c)'
      PROVE  /\ c \in nas'[n].spec.claims
             /\ main'[n] \notin {"down", "create"} => c \in copy'[n].claims
             /\ \A h \in Handlers : NodeOf[h] = n /\ call'[h].pc \in InHand
                                       => c \in call'[h].spec.claims
  <2>1. Held(n, c)
      BY <1>5, <1>p DEF Held
  <2>2. Settled(n, c)
      BY <1>0, <2>1, HeldSettled
  <2> QED BY <1>0, <1>2, <1>p, <2>1, <2>2 DEF RecordInv
<1> QED BY <1>3, <1>4, <1>5 DEF RecordInv

\* A worker keeps the invariant.
LEMMA WorkerKeeps ==
    ASSUME TypeInv, KeptInv, NEW w \in Workers, WorkerTurn(w)
    PROVE  KeptInv'
<1>0. LockInv /\ StatusInv /\ UseInv /\ DeviceInv /\ \A v \in Workers : OnSelected(v)
    BY DEF KeptInv
<1>1. Starts(w) \/ Continues(w)
    BY TurnSteps
<1>2. LockInv' /\ StatusInv'
    BY <1>0, <1>1, NextLock, NextStatus DEF Next
<1>3. UseInv'
    BY <1>0, WorkerUse
<1>4. DeviceInv'
    BY <1>0 DEF DeviceInv, WorkerTurn
<1>5. Works(w)
    BY <1>0, TurnSteps, StepsWork
<1>6. ASSUME NEW v \in Workers PROVE OnSelected(v)'
  <2>1. CASE v = w
      BY <1>5, <2>1 DEF Works
  <2>2. CASE v # w
    <3>1. job'[v] = job[v]
        BY <1>0, <2>2, TurnSteps, StepsTurn DEF Turn
    <3> QED BY <1>0, <3>1 DEF OnSelected
  <2> QED BY <2>1, <2>2
<1> QED BY <1>2, <1>3, <1>4, <1>5, <1>6, WorkerRecord DEF KeptInv

----------------------------------------------------------------------------
\* What neither the plugins nor the kubelet touch.
LEMMA ControllerSame ==
    ASSUME KeptInv, UNCHANGED <<claim, claimFresh, pending, lock, job, reserved>>
    PROVE  /\ LockInv' /\ StatusInv' /\ \A w \in Workers : OnSelected(w)'
           /\ \A w \in Workers : Dealloc(job'[w]) => job'[w].claim \notin reserved'
           /\ \A n \in Nodes, c \in Claims : Settled(n, c)' <=> Settled(n, c)
<1>1. LockInv' /\ \A w \in Workers : OnSelected(w)'
    BY DEF KeptInv, LockInv, OnSelected
<1>2. StatusInv'
    BY DEF KeptInv, StatusInv, FreshInv, DeallocInv, GivenUp
<1>3. \A w \in Workers : Dealloc(job'[w]) => job'[w].claim \notin reserved'
    BY DEF KeptInv, UseInv
<1>4. \A n \in Nodes, c \in Claims : Settled(n, c)' <=> Settled(n, c)
    BY DEF Settled, Granted
<1> QED BY <1>1, <1>2, <1>3, <1>4

LEMMA IdleCall ==
    /\ System!P!CallIdle.pc = "idle" /\ System!P!CallIdle.op = "none"
    /\ System!P!CallIdle.claim = None /\ System!P!CallIdle.device = {}
    /\ System!P!CallIdle.stored = FALSE
    /\ "idle" \notin InHand /\ InHand \cap {"device", "get", "state", "sync", "done", "updateFailed"} = {}
BY DEF System!P!CallIdle, InHand, Torn

\* The process ends with all that it had in memory.
LEMMA RestartKeeps ==
    ASSUME TypeInv, KeptInv, Restart, UNCHANGED <<copy, main, call, kubelet, reserved>>
    PROVE  KeptInv'
<1>1. Idle.pc = "idle" /\ Idle.pod = None /\ ~Dealloc(Idle)
    BY DEF Idle, Dealloc, UpdatePCs
<1>2. (\A w \in Workers : job'[w] = Idle) /\ UNCHANGED <<nas, claim>>
    BY DEF Restart
<1>3. \A n \in Nodes, c \in Claims : Settled(n, c)' => Settled(n, c)
    BY <1>1, <1>2 DEF Settled, Granted
<1>4. \A w \in Workers : OnSelected(w)' /\ job'[w].pc \notin Carrying
    BY <1>1, <1>2 DEF OnSelected, Carrying, ToStore
<1>5. LockInv' /\ StatusInv'
    BY RestartLock, RestartStatus
<1>6. UseInv'
    BY <1>1, <1>2 DEF KeptInv, UseInv, System!P!InUse
<1>7. DeviceInv'
    BY DEF KeptInv, DeviceInv
<1>8. RecordInv'
    BY <1>2, <1>3, <1>4 DEF KeptInv, RecordInv, Held
<1> QED BY <1>4, <1>5, <1>6, <1>7, <1>8 DEF KeptInv

\* Users and the scheduler.
LEMMA ClaimsKeep ==
    ASSUME TypeInv, KeptInv, NEW c \in Claims,
           System!ClaimDeleted(c) \/ System!DeallocationRequested(c)
    PROVE  KeptInv'
<1>1. /\ DeleteClaim(c) \/ RequestDeallocate(c)
      /\ UNCHANGED <<copy, main, call, kubelet, reserved>>
    BY EnvironmentSame DEF System!ClaimDeleted, System!DeallocationRequested, System!pluginOwn
<1>2. /\ UNCHANGED <<nas, job>>
      /\ \A d \in Claims : /\ claim'[d].node = claim[d].node
                           /\ claim'[d].phase = "live" => claim[d].phase = "live"
                           /\ claimFresh'[d] \subseteq claimFresh[d]
  <2>0. claim \in [Claims -> ClaimType] /\ claimFresh \in [Claims -> SUBSET Workers]
      BY DEF TypeInv, TypeOK
  <2>1. PICK phase \in {"delete", "gone", "deallocate"} : claim' = [claim EXCEPT ![c].phase = phase]
      BY <1>1 DEF DeleteClaim, RequestDeallocate
  <2>2. UNCHANGED <<nas, job>> /\ claimFresh' = [claimFresh EXCEPT ![c] = {}]
      BY <1>1 DEF DeleteClaim, RequestDeallocate
  <2>3. claim'[c].node = claim[c].node /\ claim'[c].phase = phase
      BY <2>0, <2>1 DEF ClaimType
  <2>4. \A d \in Claims \ {c} : claim'[d] = claim[d]
      BY <2>0, <2>1
  <2> QED BY <2>0, <2>2, <2>3, <2>4
<1>3. \A n \in Nodes, d \in Claims : Settled(n, d)' => Settled(n, d)
    BY <1>2, <1>1 DEF Settled, Granted
<1>4. LockInv' /\ StatusInv'
    BY <1>1, NextLock, NextStatus DEF Next, Environment, KeptInv
<1>5. UseInv'
    BY <1>1, <1>2 DEF KeptInv, UseInv, System!P!InUse
<1>6. DeviceInv'
    BY <1>1 DEF KeptInv, DeviceInv
<1>7. RecordInv'
    BY <1>1, <1>2, <1>3 DEF KeptInv, RecordInv, Held
<1> QED BY <1>2, <1>4, <1>5, <1>6, <1>7 DEF KeptInv, OnSelected

LEMMA ReservationsKeep ==
    ASSUME TypeInv, KeptInv, NEW c \in Claims, System!Reserve(c) \/ System!PodsEnd(c)
    PROVE  KeptInv'
<1>1. /\ UNCHANGED <<nas, claim, lock, job, copy, main, call, kubelet>>
      /\ claimFresh' = [claimFresh EXCEPT ![c] = {}]
    BY DEF System!Reserve, System!PodsEnd, System!pluginOwn
<1>2. \A d \in Claims : claimFresh'[d] \subseteq claimFresh[d]
    BY <1>1 DEF TypeInv, TypeOK
<1>3. \/ reserved' = reserved \cup {c} /\ claim[c].phase = "live"
      \/ reserved' = reserved \ {c} /\ \A n \in Nodes : ~System!P!InUse(n, c)
    BY DEF System!Reserve, System!PodsEnd
<1>4. \A n \in Nodes, d \in Claims : Settled(n, d)' => Settled(n, d)
    BY <1>1, <1>2, <1>3 DEF Settled, Granted
<1>5. LockInv' /\ \A w \in Workers : OnSelected(w)'
    BY <1>1 DEF KeptInv, LockInv, OnSelected
<1>6. StatusInv'
  <2>1. \A w \in Workers : job[w].cas \subseteq Claims
      BY DEF TypeInv, TypeOK, JobType
  <2> QED BY <1>1, <1>2, <2>1 DEF KeptInv, StatusInv, FreshInv, DeallocInv, GivenUp
<1>7. UseInv'
  <2>1. ASSUME NEW w \in Workers, Dealloc(job[w]) PROVE job[w].claim \notin reserved'
      BY <1>3, <2>1 DEF KeptInv, UseInv, StatusInv, DeallocInv, GivenUp
  <2>2. ASSUME NEW n \in Nodes, NEW d \in Claims, System!P!InUse(n, d)
        PROVE  d \in reserved' /\ claim[d].node = n
      BY <1>3, <2>2 DEF KeptInv, UseInv
  <2> QED BY <1>1, <2>1, <2>2 DEF UseInv, System!P!InUse
<1>8. DeviceInv'
    BY <1>1 DEF KeptInv, DeviceInv
<1>9. RecordInv'
    BY <1>1, <1>4 DEF KeptInv, RecordInv, Held
<1> QED BY <1>5, <1>6, <1>7, <1>8, <1>9 DEF KeptInv

\* The kubelet calls.
LEMMA KubeletKeeps ==
    ASSUME Deployed, SystemInv, KeptInv, NEW h \in Handlers, NEW c \in Claims,
           System!KubeletCalls(h, c)
    PROVE  KeptInv'
<1> DEFINE n == NodeOf[h]
<1>0. /\ n \in Nodes /\ call \in [Handlers -> CallRecord]
      /\ kubelet \in [Nodes -> [Claims -> System!P!KubeletType]]
    BY CallFacts DEF KeptInv, DeviceInv
<1>c. UNCHANGED <<claim, claimFresh, pending, lock, job, reserved>>
    BY DEF System!KubeletCalls, System!controllerOwn
<1>1. PICK pc \in {"device", "get"}, op \in {"prepare", "unprepare"} :
         /\ call' = [call EXCEPT ![h] = [System!P!CallIdle EXCEPT !.pc = pc, !.op = op, !.claim = c]]
         /\ UNCHANGED <<nas, copy, main>>
         /\ op = "prepare" => kubelet' = kubelet /\ c \in reserved /\ claim[c].node = n
         /\ op = "unprepare" =>
               /\ kubelet[n][c].phase \in {"prepared", "ending"}
               /\ kubelet' = [kubelet EXCEPT ![n][c] = [@ EXCEPT !.phase = "ending"]]
    BY DEF System!KubeletCalls, System!P!PrepareCall, System!P!UnprepareCall
<1>2. /\ call'[h].pc = pc /\ call'[h].op = op /\ call'[h].claim = c /\ call'[h].device = {}
      /\ call'[h].stored = FALSE /\ \A g \in Handlers \ {h} : call'[g] = call[g]
    BY <1>0, <1>1 DEF System!P!CallIdle
<1>3. /\ kubelet' \in [Nodes -> [Claims -> System!P!KubeletType]]
      /\ \A m \in Nodes, d \in Claims :
            /\ kubelet'[m][d].phase = "prepared" => kubelet[m][d].phase = "prepared"
            /\ kubelet'[m][d].phase # "none" => kubelet[m][d].phase # "none"
  <2>1. CASE op = "prepare"
      BY <1>0, <1>1, <2>1
  <2>2. CASE op = "unprepare"
    <3> DEFINE r == [kubelet[n][c] EXCEPT !.phase = "ending"]
    <3>1. r \in System!P!KubeletType /\ r.phase = "ending"
        BY <1>0 DEF System!P!KubeletType
    <3>2. kubelet' = [kubelet EXCEPT ![n] = [kubelet[n] EXCEPT ![c] = r]]
        BY <1>0, <1>1, <2>2
    <3> HIDE DEF r, n
    <3>3. /\ kubelet' \in [Nodes -> [Claims -> System!P!KubeletType]]
          /\ \A m \in Nodes, d \in Claims : kubelet'[m][d] = IF m = n /\ d = c THEN r ELSE kubelet[m][d]
        BY <1>0, <3>1, <3>2
    <3> QED BY <1>1, <2>2, <3>1, <3>3 DEF n
  <2> QED BY <2>1, <2>2
<1> HIDE DEF n
<1>4. UseInv'
  <2>1. ASSUME NEW m \in Nodes, NEW d \in Claims, System!P!InUse(m, d)'
        PROVE  d \in reserved /\ claim[d].node = m
    <3>1. System!P!InUse(m, d) \/ (m = n /\ d = c /\ op = "prepare")
        BY <1>0, <1>1, <1>2, <1>3, <2>1 DEF System!P!InUse, n
    <3> QED BY <1>1, <3>1 DEF KeptInv, UseInv, n
  <2> QED BY <1>c, <2>1, ControllerSame DEF UseInv
<1>5. DeviceInv'
    BY <1>1, <1>2, <1>3 DEF KeptInv, DeviceInv
<1>6. RecordInv'
  <2>1. \A m \in Nodes, d \in Claims : Held(m, d)' => Held(m, d)
      BY <1>2, <1>3 DEF Held
  <2>2. \A g \in Handlers : call'[g].pc \in InHand => call'[g] = call[g]
      BY <1>1, <1>2, IdleCall
  <2>3. \A m \in Nodes, d \in Claims : Settled(m, d)' <=> Settled(m, d)
      BY <1>c, ControllerSame
  <2>4. RecordInv /\ UNCHANGED <<nas, copy, main, job>>
      BY <1>1, <1>c DEF KeptInv
  <2> HIDE DEF KeptInv
  <2>5. ASSUME NEW m \in Nodes, NEW d \in Claims, Held(m, d)'
        PROVE  /\ d \in nas[m].spec.claims
               /\ main[m] \notin {"down", "create"} => d \in copy[m].claims
               /\ \A g \in Handlers : NodeOf[g] = m /\ call'[g].pc \in InHand
                                         => d \in call'[g].spec.claims
      BY <2>1, <2>2, <2>4, <2>5 DEF RecordInv
  <2>6. ASSUME NEW m \in Nodes, NEW d \in Claims, Settled(m, d)'
        PROVE  /\ d \notin nas[m].spec.claims =>
                     /\ d \notin copy[m].claims
                     /\ \A g \in Handlers : NodeOf[g] = m /\ call'[g].pc \in InHand
                                               => d \notin call'[g].spec.claims
               /\ d \in nas[m].spec.claims =>
                     \A w \in Workers : job[w].pc \in Carrying /\ job[w].node = m
                                           => d \in job[w].crd.claims
      BY <2>2, <2>3, <2>4, <2>6 DEF RecordInv
  <2> QED BY <2>4, <2>5, <2>6 DEF RecordInv
<1> QED BY <1>4, <1>5, <1>6, <1>c, ControllerSame DEF KeptInv

----------------------------------------------------------------------------
\* Where a plugin's copy has been read.
Read(n) == main[n] \notin {"down", "create"}

\* What a step of a plugin's process or of a handler does to its node n: the claims of
\* the NAS become those of the copy, which then stays; what is at hand comes from the
\* NAS, the copy or another thing at hand; and nothing comes into use.
Moves(n) ==
    /\ \A m \in Nodes \ {n} : /\ nas'[m].spec = nas[m].spec /\ copy'[m] = copy[m]
                              /\ main'[m] = main[m] /\ kubelet'[m] = kubelet[m]
    /\ \A h \in Handlers : NodeOf[h] # n => call'[h] = call[h]
    /\ \/ nas'[n].spec.claims = nas[n].spec.claims
       \/ /\ Read(n) /\ nas'[n].spec.claims = copy[n].claims /\ copy'[n].claims = copy[n].claims
          /\ \A h \in Handlers : NodeOf[h] = n /\ call'[h].pc \in InHand
                                    => call'[h].spec.claims = copy[n].claims
    /\ \/ copy'[n].claims \in {copy[n].claims, nas[n].spec.claims}
       \/ main'[n] = "down" /\ copy'[n].claims = {}
       \/ \E h \in Handlers : /\ NodeOf[h] = n /\ call[h].pc \in InHand
                              /\ copy'[n].claims = call[h].spec.claims
    /\ ~Read(n) /\ main'[n] \notin {"down", "create"} => copy'[n].claims = nas[n].spec.claims
    /\ \A h \in Handlers : NodeOf[h] = n /\ call'[h].pc \in InHand =>
          \/ call'[h].spec.claims = nas[n].spec.claims
          \/ Read(n) /\ call'[h].spec.claims = copy[n].claims
          \/ call[h].pc \in InHand /\ call'[h].spec.claims = call[h].spec.claims
    /\ \A c \in Claims : System!P!InUse(n, c)' => System!P!InUse(n, c)
    /\ \A c \in Claims : Held(n, c)' =>
          \/ Held(n, c)
          \/ /\ System!P!InUse(n, c) /\ c \in copy[n].claims
             /\ UNCHANGED <<nas, copy>>
             /\ \A h \in Handlers : NodeOf[h] = n => call'[h].pc \notin InHand

LEMMA MovesKeep ==
    ASSUME TypeInv, KeptInv, NEW n \in Nodes, Moves(n), DeviceInv',
           UNCHANGED <<claim, claimFresh, pending, lock, job, reserved>>
    PROVE  KeptInv'
<1>0. UseInv /\ RecordInv
    BY DEF KeptInv
<1>s. \A m \in Nodes, c \in Claims : Settled(m, c)' <=> Settled(m, c)
    BY ControllerSame
<1>o. ASSUME NEW m \in Nodes \ {n}
      PROVE  /\ \A c \in Claims : /\ System!P!InUse(m, c)' <=> System!P!InUse(m, c)
                                  /\ Held(m, c)' <=> Held(m, c)
             /\ nas'[m].spec = nas[m].spec /\ copy'[m] = copy[m] /\ main'[m] = main[m]
             /\ \A h \in Handlers : NodeOf[h] = m => call'[h] = call[h]
  <2>1. /\ nas'[m].spec = nas[m].spec /\ copy'[m] = copy[m] /\ main'[m] = main[m]
        /\ kubelet'[m] = kubelet[m] /\ \A h \in Handlers : NodeOf[h] = m => call'[h] = call[h]
      BY DEF Moves
  <2> QED BY <2>1 DEF System!P!InUse, Held
<1>1. UseInv'
  <2>1. \A m \in Nodes, c \in Claims : System!P!InUse(m, c)' => System!P!InUse(m, c)
      BY <1>o DEF Moves
  <2> QED BY <1>0, <2>1, ControllerSame DEF UseInv
<1>2. ASSUME NEW c \in Claims, Settled(n, c), c \notin nas'[n].spec.claims
      PROVE  /\ c \notin copy'[n].claims
             /\ \A h \in Handlers : NodeOf[h] = n /\ call'[h].pc \in InHand
                                       => c \notin call'[h].spec.claims
  <2>1. CASE nas'[n].spec.claims = nas[n].spec.claims
    <3>1. /\ c \notin nas[n].spec.claims /\ c \notin copy[n].claims
          /\ \A h \in Handlers : NodeOf[h] = n /\ call[h].pc \in InHand => c \notin call[h].spec.claims
        BY <1>0, <1>2, <2>1 DEF RecordInv
    <3>2. c \notin copy'[n].claims
        BY <3>1 DEF Moves
    <3>3. \A h \in Handlers : NodeOf[h] = n /\ call'[h].pc \in InHand => c \notin call'[h].spec.claims
        BY <3>1 DEF Moves
    <3> QED BY <3>2, <3>3
  <2>2. CASE /\ nas'[n].spec.claims = copy[n].claims /\ copy'[n].claims = copy[n].claims
             /\ \A h \in Handlers : NodeOf[h] = n /\ call'[h].pc \in InHand
                                       => call'[h].spec.claims = copy[n].claims
      BY <1>2, <2>2
  <2> QED BY <2>1, <2>2 DEF Moves
<1>3. ASSUME NEW c \in Claims, Settled(n, c), c \in nas'[n].spec.claims,
             NEW w \in Workers, job[w].pc \in Carrying, job[w].node = n
      PROVE  c \in job[w].crd.claims
  <2>1. c \in nas[n].spec.claims
      BY <1>0, <1>3 DEF RecordInv, Moves
  <2> QED BY <1>0, <1>3, <2>1 DEF RecordInv
<1>4. ASSUME NEW c \in Claims, Held(n, c)'
      PROVE  /\ c \in nas'[n].spec.claims
             /\ main'[n] \notin {"down", "create"} => c \in copy'[n].claims
             /\ \A h \in Handlers : NodeOf[h] = n /\ call'[h].pc \in InHand
                                       => c \in call'[h].spec.claims
  <2>1. CASE Held(n, c)
    <3>1. /\ c \in nas[n].spec.claims /\ (Read(n) => c \in copy[n].claims)
          /\ \A h \in Handlers : NodeOf[h] = n /\ call[h].pc \in InHand => c \in call[h].spec.claims
        BY <1>0, <2>1 DEF RecordInv, Read
    <3>2. c \in nas'[n].spec.claims
        BY <3>1 DEF Moves
    <3>3. main'[n] \notin {"down", "create"} => c \in copy'[n].claims
        BY <3>1 DEF Moves
    <3>4. \A h \in Handlers : NodeOf[h] = n /\ call'[h].pc \in InHand => c \in call'[h].spec.claims
        BY <3>1 DEF Moves
    <3> QED BY <3>2, <3>3, <3>4
  <2>2. CASE /\ System!P!InUse(n, c) /\ c \in copy[n].claims /\ UNCHANGED <<nas, copy>>
             /\ \A h \in Handlers : NodeOf[h] = n => call'[h].pc \notin InHand
    <3>1. Settled(n, c)
        BY <1>0, <2>2 DEF UseInv, Settled
    <3> QED BY <1>0, <2>2, <3>1 DEF RecordInv
  <2> QED BY <1>4, <2>1, <2>2 DEF Moves
<1>5. ASSUME NEW m \in Nodes, NEW c \in Claims
      PROVE  /\ (Settled(m, c) /\ c \notin nas[m].spec.claims =>
                   /\ c \notin copy[m].claims
                   /\ \A h \in Handlers : NodeOf[h] = m /\ call[h].pc \in InHand
                                             => c \notin call[h].spec.claims)'
             /\ (Settled(m, c) /\ c \in nas[m].spec.claims =>
                   \A w \in Workers : job[w].pc \in Carrying /\ job[w].node = m
                                         => c \in job[w].crd.claims)'
             /\ (Held(m, c) =>
                   /\ c \in nas[m].spec.claims
                   /\ main[m] \notin {"down", "create"} => c \in copy[m].claims
                   /\ \A h \in Handlers : NodeOf[h] = m /\ call[h].pc \in InHand
                                             => c \in call[h].spec.claims)'
  <2>1. CASE m = n
      BY <1>2, <1>3, <1>4, <1>s, <2>1
  <2>2. CASE m # n
    <3>1. /\ Held(m, c)' <=> Held(m, c)
          /\ nas'[m].spec = nas[m].spec /\ copy'[m] = copy[m] /\ main'[m] = main[m]
          /\ \A h \in Handlers : NodeOf[h] = m => call'[h] = call[h]
        BY <1>o, <2>2
    <3> QED BY <1>0, <1>s, <3>1 DEF RecordInv
  <2> QED BY <2>1, <2>2
<1>6. RecordInv'
    BY <1>5 DEF RecordInv
<1> QED BY <1>1, <1>6, ControllerSame DEF KeptInv

----------------------------------------------------------------------------
\* A step of handler h, the only one of its node, whose call becomes j.
HandlerTurn(h, j) ==
    LET n == NodeOf[h]
        i == call[h]
    IN
    /\ call' = [call EXCEPT ![h] = j]
    /\ i.pc # "idle" /\ UNCHANGED main
    /\ \A m \in Nodes \ {n} : nas'[m].spec = nas[m].spec /\ copy'[m] = copy[m]
    /\ \/ nas'[n].spec = nas[n].spec
       \/ /\ nas'[n].spec.claims = copy[n].claims /\ copy'[n].claims = copy[n].claims
          /\ j.pc \in InHand => j.spec.claims = copy[n].claims
    /\ \/ copy'[n].claims = copy[n].claims
       \/ i.pc \in InHand /\ copy'[n].claims = i.spec.claims
    /\ j.pc \in InHand => \/ j.spec.claims \in {nas[n].spec.claims, copy[n].claims}
                          \/ i.pc \in InHand /\ j.spec.claims = i.spec.claims
    /\ j.pc \in {"updateGet", "updatePut"} => j.spec.claims = copy'[n].claims
    /\ j.claim \in {i.claim, None}

\* What is known of its device afterwards, and what the kubelet learns.
DeviceTurn(h, j) ==
    LET n == NodeOf[h]
        i == call[h]
    IN
    /\ j.op = "prepare" /\ j.device # {} =>
          \/ i.op = "prepare" /\ i.device # {} /\ j.claim = i.claim
          \/ /\ i.claim \in copy[n].claims /\ j.claim = i.claim
             /\ UNCHANGED <<nas, copy>> /\ j.pc \notin InHand
    /\ j.op = "prepare" /\ (j.stored \/ j.pc \in {"sync", "updateGet", "updatePut", "done"})
          => j.device # {}
    /\ j.pc \in {"device", "get"} => ~j.stored
    /\ \/ UNCHANGED kubelet
       \/ \E k \in System!P!KubeletType :
             /\ kubelet' = [kubelet EXCEPT ![n] = [kubelet[n] EXCEPT ![i.claim] = k]]
             /\ k.phase = "none" \/ (i.op = "prepare" /\ i.device # {})

LEMMA HandlerKeeps ==
    ASSUME Deployed, SystemInv, KeptInv, NEW h \in Handlers, NEW j,
           HandlerTurn(h, j), DeviceTurn(h, j), UNCHANGED System!controllerOwn, UNCHANGED reserved
    PROVE  KeptInv'
<1> DEFINE n == NodeOf[h]
           i == call[h]
<1>0. /\ n \in Nodes /\ call \in [Handlers -> CallRecord]
      /\ kubelet \in [Nodes -> [Claims -> System!P!KubeletType]]
      /\ \A g \in Handlers : NodeOf[g] \in Nodes /\ (NodeOf[g] = n => g = h)
    BY CallFacts DEF KeptInv, DeviceInv, Deployed
<1>1. i.claim \in Claims /\ main[n] = "up" /\ UNCHANGED main
    BY CallFacts DEF CallHolds, HandlerTurn
<1>2. call'[h] = j /\ \A g \in Handlers \ {h} : call'[g] = call[g]
    BY <1>0 DEF HandlerTurn
<1>3. /\ kubelet' \in [Nodes -> [Claims -> System!P!KubeletType]]
      /\ \A m \in Nodes \ {n} : kubelet'[m] = kubelet[m]
      /\ \A c \in Claims :
            \/ kubelet'[n][c] = kubelet[n][c]
            \/ kubelet'[n][c].phase = "none"
            \/ c = i.claim /\ i.op = "prepare" /\ i.device # {}
  <2>1. CASE UNCHANGED kubelet
      BY <1>0, <2>1
  <2>2. ASSUME NEW k \in System!P!KubeletType, k.phase = "none" \/ (i.op = "prepare" /\ i.device # {}),
               kubelet' = [kubelet EXCEPT ![n] = [kubelet[n] EXCEPT ![i.claim] = k]]
        PROVE  <1>3!:
    <3> DEFINE r == [kubelet[n] EXCEPT ![i.claim] = k]
    <3>1. /\ r \in [Claims -> System!P!KubeletType]
          /\ \A c \in Claims : r[c] = IF c = i.claim THEN k ELSE kubelet[n][c]
        BY <1>0, <1>1
    <3> HIDE DEF r
    <3>2. /\ kubelet' \in [Nodes -> [Claims -> System!P!KubeletType]]
          /\ kubelet'[n] = r /\ \A m \in Nodes \ {n} : kubelet'[m] = kubelet[m]
        BY <1>0, <2>2, <3>1 DEF r
    <3> QED BY <2>2, <3>1, <3>2
  <2> QED BY <2>1, <2>2 DEF DeviceTurn
<1> HIDE DEF n, i
<1>4. ASSUME NEW c \in Claims, System!P!InUse(n, c)' PROVE System!P!InUse(n, c)
    BY <1>0, <1>1, <1>2, <1>3, <1>4, NoneAssumption DEF System!P!InUse, HandlerTurn, n, i
<1>5. ASSUME NEW c \in Claims, Held(n, c)', ~Held(n, c)
      PROVE  /\ System!P!InUse(n, c) /\ c \in copy[n].claims /\ UNCHANGED <<nas, copy>>
             /\ \A g \in Handlers : NodeOf[g] = n => call'[g].pc \notin InHand
  <2>1. kubelet'[n][c].phase # "prepared"
      BY <1>0, <1>3, <1>5 DEF Held, n, i
  <2>2. j.op = "prepare" /\ j.claim = c /\ j.device # {}
      BY <1>0, <1>2, <1>5, <2>1 DEF Held
  <2>3. /\ i.claim \in copy[n].claims /\ j.claim = i.claim
        /\ UNCHANGED <<nas, copy>> /\ j.pc \notin InHand
      BY <1>5, <2>2 DEF DeviceTurn, Held, n, i
  <2> QED BY <1>0, <1>2, <2>2, <2>3 DEF System!P!InUse, n, i
<1>6. Moves(n)
  <2>1. Read(n) /\ main'[n] = main[n]
      BY <1>1 DEF Read
  <2>2. \A m \in Nodes \ {n} : /\ nas'[m].spec = nas[m].spec /\ copy'[m] = copy[m]
                               /\ main'[m] = main[m] /\ kubelet'[m] = kubelet[m]
      BY <1>1, <1>3 DEF HandlerTurn, n
  <2>3. \A g \in Handlers : NodeOf[g] # n => call'[g] = call[g]
      BY <1>2 DEF n
  <2>4. \A g \in Handlers : NodeOf[g] = n /\ call'[g].pc \in InHand
           => g = h /\ call'[g] = j /\ j.pc \in InHand
      BY <1>0, <1>2
  <2>5. \/ nas'[n].spec.claims = nas[n].spec.claims
        \/ /\ nas'[n].spec.claims = copy[n].claims /\ copy'[n].claims = copy[n].claims
           /\ \A g \in Handlers : NodeOf[g] = n /\ call'[g].pc \in InHand
                                     => call'[g].spec.claims = copy[n].claims
      BY <2>4 DEF HandlerTurn, n
  <2>6. \/ copy'[n].claims = copy[n].claims
        \/ \E g \in Handlers : /\ NodeOf[g] = n /\ call[g].pc \in InHand
                               /\ copy'[n].claims = call[g].spec.claims
      BY DEF HandlerTurn, n
  <2>7. \A g \in Handlers : NodeOf[g] = n /\ call'[g].pc \in InHand =>
           \/ call'[g].spec.claims = nas[n].spec.claims
           \/ call'[g].spec.claims = copy[n].claims
           \/ call[g].pc \in InHand /\ call'[g].spec.claims = call[g].spec.claims
      BY <2>4 DEF HandlerTurn, n
  <2> QED BY <1>4, <1>5, <2>1, <2>2, <2>3, <2>5, <2>6, <2>7 DEF Moves
<1>7. DeviceInv'
  <2>1. ASSUME NEW g \in Handlers, g # h PROVE call'[g] = call[g] /\ copy'[NodeOf[g]] = copy[NodeOf[g]]
      BY <1>0, <1>2, <2>1 DEF HandlerTurn, n
  <2>2. j.pc \in {"updateGet", "updatePut"} => j.spec.claims = copy'[n].claims
      BY DEF HandlerTurn, n
  <2>3. j.op = "prepare" /\ (j.stored \/ j.pc \in {"sync", "updateGet", "updatePut", "done"})
           => j.device # {}
      BY DEF DeviceTurn
  <2>4. j.pc \in {"device", "get"} => ~j.stored
      BY DEF DeviceTurn
  <2> QED BY <1>2, <1>3, <2>1, <2>2, <2>3, <2>4 DEF KeptInv, DeviceInv, n
<1> QED BY <1>0, <1>6, <1>7, MovesKeep DEF SystemInv, System!controllerOwn

\* The steps of a handler.
LEMMA HandlesKeep ==
    ASSUME Deployed, SystemInv, KeptInv, NEW h \in Handlers, System!P!Handles(h),
           UNCHANGED System!controllerOwn, UNCHANGED reserved
    PROVE  KeptInv'
<1> DEFINE n == NodeOf[h]
           i == call[h]
           s == copy[n]
<1>0. /\ n \in Nodes /\ s \in SpecType /\ copy \in [Nodes -> SpecType]
      /\ call \in [Handlers -> CallRecord] /\ i \in CallRecord /\ i.spec \in SpecType
      /\ nas \in [Nodes -> [ready : BOOLEAN, spec : SpecType]]
      /\ kubelet \in [Nodes -> [Claims -> System!P!KubeletType]]
      /\ i.pc # "idle" => main[n] = "up"
    BY CallFacts DEF KeptInv, DeviceInv, CallRecord, CallHolds
<1>d. /\ i.pc \in {"updateGet", "updatePut"} => i.spec.claims = s.claims
      /\ i.op = "prepare" /\ (i.stored \/ i.pc \in {"sync", "updateGet", "updatePut", "done"})
            => i.device # {}
      /\ i.pc \in {"device", "get"} => ~i.stored
    BY DEF KeptInv, DeviceInv
<1>f. /\ CallRecord = [pc : System!P!CallPCs, op : {"none", "prepare", "unprepare"},
                       claim : Claims \cup {None}, device : SUBSET Cpus, spec : SpecType,
                       stored : BOOLEAN, tries : Nat]
    BY DEF CallRecord
<1>k. ASSUME NEW j, HandlerTurn(h, j), DeviceTurn(h, j) PROVE KeptInv'
    BY <1>k, HandlerKeeps
<1> HIDE DEF n, i, s
<1>q. ASSUME NEW j, call' = [call EXCEPT ![h] = j], i.pc # "idle",
             UNCHANGED <<nas, copy, main, kubelet>>,
             j.pc \in InHand => \/ i.pc \in InHand /\ j.spec = i.spec
                                \/ j.spec.claims \in {nas[n].spec.claims, s.claims},
             j.pc \in {"updateGet", "updatePut"} => j.spec.claims = s.claims,
             \/ j.op = i.op /\ j.device = i.device /\ j.stored = i.stored /\ j.claim = i.claim
             \/ j = System!P!CallIdle,
             j.pc \notin {"device", "get"},
             j.op = "prepare" /\ j.pc \in {"sync", "updateGet", "updatePut", "done"}
                => j.device # {}
      PROVE  KeptInv'
  <2>1. HandlerTurn(h, j)
      BY <1>q, IdleCall DEF HandlerTurn, n, i, s
  <2>2. DeviceTurn(h, j)
      BY <1>d, <1>q, IdleCall DEF DeviceTurn, n, i, s
  <2> QED BY <1>k, <2>1, <2>2
<1>1. ASSUME System!P!NameDevice(h) PROVE KeptInv'
  <2> DEFINE device == System!P!CpusIn(s, i.claim)
             next == [i EXCEPT !.device = device, !.pc = "get"]
  <2>1. /\ i.pc = "device" /\ UNCHANGED <<nas, copy, main, kubelet>>
        /\ call' = [call EXCEPT ![h] = next]
      BY <1>0, <1>1 DEF System!P!NameDevice, n, i, s
  <2>a. device # {} => i.claim \in s.claims
      BY DEF System!P!CpusIn
  <2> HIDE DEF device
  <2>2. /\ next.pc = "get" /\ next.claim = i.claim /\ next.op = i.op /\ next.stored = i.stored
        /\ next.device = device
      BY <1>0, <1>f
  <2> HIDE DEF next
  <2>3. HandlerTurn(h, next)
      BY <2>1, <2>2, IdleCall DEF HandlerTurn, n, i, s
  <2>4. DeviceTurn(h, next)
      BY <1>d, <2>a, <2>1, <2>2, IdleCall DEF DeviceTurn, n, i, s
  <2> QED BY <1>k, <2>3, <2>4
<1>2. ASSUME System!P!Get(h) PROVE KeptInv'
  <2> DEFINE next == [i EXCEPT !.spec = nas[n].spec, !.pc = "assign"]
  <2>1. /\ i.pc = "get" /\ UNCHANGED <<nas, copy, main, kubelet>>
        /\ call' = [call EXCEPT ![h] = next]
      BY <1>0, <1>2 DEF System!P!Get, n, i
  <2>2. /\ next.pc = "assign" /\ next.spec = nas[n].spec
        /\ next.op = i.op /\ next.device = i.device /\ next.stored = i.stored /\ next.claim = i.claim
      BY <1>0, <1>f
  <2> HIDE DEF next
  <2> QED BY <1>q, <2>1, <2>2
<1>3. ASSUME System!P!GetFails(h) PROVE KeptInv'
  <2> DEFINE next == IF i.pc = "get" THEN System!P!CallIdle ELSE [i EXCEPT !.pc = "updateFailed"]
  <2>1. /\ i.pc \in {"get", "updateGet"} /\ UNCHANGED <<nas, copy, main, kubelet>>
        /\ call' = [call EXCEPT ![h] = next]
      BY <1>0, <1>3 DEF System!P!GetFails, System!P!Fail, System!P!Goto, i
  <2>2. \/ next = System!P!CallIdle
        \/ /\ next.pc = "updateFailed" /\ next.op = i.op /\ next.device = i.device
           /\ next.stored = i.stored /\ next.claim = i.claim
      BY <1>0, <1>f
  <2> HIDE DEF next
  <2> QED BY <1>q, <2>1, <2>2, IdleCall
<1>4. ASSUME System!P!AssignFirst(h) PROVE KeptInv'
  <2>1. i.pc = "assign" /\ UNCHANGED <<nas, main, kubelet>>
      BY <1>4 DEF System!P!AssignFirst, i
  <2>2. PICK pc \in Torn, t \in SpecType :
           /\ call' = [call EXCEPT ![h] = [i EXCEPT !.pc = pc]]
           /\ copy' = [copy EXCEPT ![n] = t]
           /\ t.claims \in {s.claims, i.spec.claims}
    <3>1. CASE /\ copy' = [copy EXCEPT ![n] = [i.spec EXCEPT !.util = s.util]]
               /\ System!P!Goto(h, "assignUtil")
      <4> DEFINE t == [i.spec EXCEPT !.util = s.util]
      <4>1. t \in SpecType /\ t.claims = i.spec.claims
          BY <1>0 DEF SpecType
      <4>2. call' = [call EXCEPT ![h] = [i EXCEPT !.pc = "assignUtil"]]
          BY <1>0, <3>1 DEF System!P!Goto, i
      <4> HIDE DEF t
      <4> QED BY <3>1, <4>1, <4>2 DEF Torn, t
    <3>2. CASE /\ copy' = [copy EXCEPT ![n].util = i.spec.util]
               /\ System!P!Goto(h, "assignClaims")
      <4> DEFINE t == [s EXCEPT !.util = i.spec.util]
      <4>1. t \in SpecType /\ t.claims = s.claims
          BY <1>0 DEF SpecType
      <4>2. call' = [call EXCEPT ![h] = [i EXCEPT !.pc = "assignClaims"]]
          BY <1>0, <3>2 DEF System!P!Goto, i
      <4>3. copy' = [copy EXCEPT ![n] = t]
          BY <1>0, <3>2 DEF s
      <4> HIDE DEF t
      <4> QED BY <4>1, <4>2, <4>3 DEF Torn
    <3> QED BY <1>4, <3>1, <3>2 DEF System!P!AssignFirst, n, i, s
  <2> DEFINE next == [i EXCEPT !.pc = pc]
  <2>3. /\ next.pc = pc /\ next.spec = i.spec /\ next.op = i.op /\ next.device = i.device
        /\ next.stored = i.stored /\ next.claim = i.claim
      BY <1>0, <1>f
  <2>a. call' = [call EXCEPT ![h] = next]
      BY <2>2
  <2> HIDE DEF next
  <2>4. copy'[n] = t /\ \A m \in Nodes \ {n} : copy'[m] = copy[m]
      BY <1>0, <2>2
  <2>5. HandlerTurn(h, next)
      BY <2>1, <2>2, <2>3, <2>a, <2>4 DEF HandlerTurn, InHand, Torn, n, i, s
  <2>6. DeviceTurn(h, next)
      BY <1>d, <2>1, <2>2, <2>3 DEF DeviceTurn, Torn, n, i, s
  <2> QED BY <1>k, <2>5, <2>6
<1>5. ASSUME System!P!AssignRest(h) PROVE KeptInv'
  <2> DEFINE pc == IF i.stored THEN "done" ELSE "state"
             next == [i EXCEPT !.pc = pc, !.spec = System!P!EmptySpec]
             t == IF i.pc = "assignUtil" THEN [s EXCEPT !.util = i.spec.util]
                  ELSE [i.spec EXCEPT !.util = s.util]
  <2>1. /\ i.pc \in Torn /\ UNCHANGED <<nas, main, kubelet>>
        /\ call' = [call EXCEPT ![h] = next]
        /\ copy' = [copy EXCEPT ![n] = t]
      BY <1>0, <1>5 DEF System!P!AssignRest, Torn, n, i, s
  <2>2. t.claims \in {s.claims, i.spec.claims}
      BY <1>0 DEF SpecType
  <2>3. /\ next.pc = pc /\ next.op = i.op /\ next.device = i.device
        /\ next.stored = i.stored /\ next.claim = i.claim
      BY <1>0, <1>f
  <2>b. pc \in {"done", "state"} /\ (pc = "done" => i.stored)
      OBVIOUS
  <2> HIDE DEF next, t, pc
  <2>4. copy'[n] = t /\ \A m \in Nodes \ {n} : copy'[m] = copy[m]
      BY <1>0, <2>1
  <2>5. HandlerTurn(h, next)
      BY <2>1, <2>2, <2>3, <2>b, <2>4 DEF HandlerTurn, InHand, Torn, n, i, s
  <2>6. DeviceTurn(h, next)
      BY <1>d, <2>1, <2>b, <2>3 DEF DeviceTurn, n, i, s
  <2> QED BY <1>k, <2>5, <2>6
<1>6. ASSUME System!P!Prepare(h) PROVE KeptInv'
  <2> DEFINE known == i.claim \in prepared[n] \/ System!P!CpusIn(s, i.claim) # {}
             next == IF known /\ System!P!HasDevice(h) THEN [i EXCEPT !.pc = "sync"]
                     ELSE System!P!CallIdle
  <2>1. /\ i.pc = "state" /\ UNCHANGED <<nas, copy, main, kubelet>>
        /\ call' = [call EXCEPT ![h] = next]
      BY <1>0, <1>6 DEF System!P!Prepare, System!P!Goto, System!P!Fail, n, i, s
  <2>2. \/ next = System!P!CallIdle
        \/ /\ next.pc = "sync" /\ next.op = i.op /\ next.device = i.device /\ i.device # {}
           /\ next.stored = i.stored /\ next.claim = i.claim
      BY <1>0, <1>f DEF System!P!HasDevice, i
  <2> HIDE DEF next, known
  <2> QED BY <1>q, <2>1, <2>2, IdleCall
<1>7. ASSUME System!P!Unprepare(h) PROVE KeptInv'
  <2> DEFINE next == [i EXCEPT !.pc = "sync"]
             t == [s EXCEPT !.prepared = @ \ {i.claim}]
  <2>1. /\ i.pc = "state" /\ i.op = "unprepare" /\ UNCHANGED <<nas, main, kubelet>>
        /\ call' = [call EXCEPT ![h] = next]
        /\ copy' = [copy EXCEPT ![n] = t]
      BY <1>0, <1>7 DEF System!P!Unprepare, System!P!Goto, n, i, s
  <2>2. /\ next.pc = "sync" /\ next.op = "unprepare" /\ next.claim = i.claim
        /\ t.claims = s.claims
      BY <1>0, <1>f, <2>1 DEF SpecType
  <2> HIDE DEF next, t
  <2>4. copy'[n] = t /\ \A m \in Nodes \ {n} : copy'[m] = copy[m]
      BY <1>0, <2>1
  <2>5. HandlerTurn(h, next)
      BY <2>1, <2>2, <2>4, IdleCall DEF HandlerTurn, n, i, s
  <2>6. DeviceTurn(h, next)
      BY <2>1, <2>2 DEF DeviceTurn
  <2> QED BY <1>k, <2>5, <2>6
<1>8. ASSUME System!P!GetUpdatedSpec(h) PROVE KeptInv'
  <2> DEFINE t == [s EXCEPT !.prepared = prepared[n]]
             next == [i EXCEPT !.spec = t, !.pc = "updateGet"]
  <2>1. /\ i.pc = "sync" /\ UNCHANGED <<nas, copy, main, kubelet>>
        /\ call' = [call EXCEPT ![h] = next]
      BY <1>0, <1>8 DEF System!P!GetUpdatedSpec, n, i, s
  <2>2. t.claims = s.claims
      BY <1>0 DEF SpecType
  <2> HIDE DEF t
  <2>3. /\ next.pc = "updateGet" /\ next.spec = t
        /\ next.op = i.op /\ next.device = i.device /\ next.stored = i.stored /\ next.claim = i.claim
      BY <1>0, <1>f
  <2> HIDE DEF next
  <2> QED BY <1>d, <1>q, <2>1, <2>2, <2>3
<1>9. ASSUME System!P!UpdateGet(h) PROVE KeptInv'
  <2> DEFINE next == [i EXCEPT !.pc = "updatePut"]
  <2>1. /\ i.pc = "updateGet" /\ UNCHANGED <<nas, copy, main, kubelet>>
        /\ call' = [call EXCEPT ![h] = next]
      BY <1>0, <1>9 DEF System!P!UpdateGet, System!P!Goto, i
  <2>2. /\ next.pc = "updatePut" /\ next.spec = i.spec
        /\ next.op = i.op /\ next.device = i.device /\ next.stored = i.stored /\ next.claim = i.claim
      BY <1>0, <1>f
  <2> HIDE DEF next
  <2> QED BY <1>d, <1>q, <2>1, <2>2
<1>10. ASSUME System!P!UpdatePut(h) PROVE KeptInv'
  <2> DEFINE next == [i EXCEPT !.stored = TRUE, !.pc = "assign"]
  <2>1. /\ i.pc = "updatePut" /\ UNCHANGED <<copy, main, kubelet>>
        /\ call' = [call EXCEPT ![h] = next]
        /\ nas' = [nas EXCEPT ![n] = [nas[n] EXCEPT !.spec = i.spec]]
      BY <1>0, <1>10 DEF System!P!UpdatePut, System!P!Write, n, i
  <2>2. /\ next.pc = "assign" /\ next.spec = i.spec
        /\ next.op = i.op /\ next.device = i.device /\ next.claim = i.claim
      BY <1>0, <1>f
  <2>3. nas'[n].spec = i.spec /\ \A m \in Nodes \ {n} : nas'[m] = nas[m]
      BY <1>0, <2>1
  <2> HIDE DEF next
  <2>4. HandlerTurn(h, next)
      BY <1>d, <2>1, <2>2, <2>3 DEF HandlerTurn, n, i, s
  <2>5. DeviceTurn(h, next)
      BY <1>d, <2>1, <2>2 DEF DeviceTurn, n, i, s
  <2> QED BY <1>k, <2>4, <2>5
<1>11. ASSUME System!P!UpdateError(h) PROVE KeptInv'
  <2> DEFINE pc == IF i.tries + 1 < MaxRetries THEN "updateGet" ELSE "updateFailed"
             next == [i EXCEPT !.tries = @ + 1, !.pc = pc]
  <2>1. /\ i.pc = "updatePut" /\ UNCHANGED <<copy, main, kubelet>>
        /\ call' = [call EXCEPT ![h] = next]
      BY <1>0, <1>11 DEF System!P!UpdateError, n, i
  <2>2. /\ next.pc \in {"updateGet", "updateFailed"} /\ next.spec = i.spec /\ next.op = i.op
        /\ next.device = i.device /\ next.stored = i.stored /\ next.claim = i.claim
      BY <1>0, <1>f
  <2> HIDE DEF next
  <2>3. CASE UNCHANGED nas
      BY <1>d, <1>q, <2>1, <2>2, <2>3
  <2>4. CASE System!P!Write({}, n, [nas[n] EXCEPT !.spec = i.spec])
    <3>1. nas'[n].spec = i.spec /\ \A m \in Nodes \ {n} : nas'[m] = nas[m]
        BY <1>0, <2>4 DEF System!P!Write
    <3>2. HandlerTurn(h, next)
        BY <1>d, <2>1, <2>2, <3>1 DEF HandlerTurn, n, i, s
    <3>3. DeviceTurn(h, next)
        BY <1>d, <2>1, <2>2 DEF DeviceTurn, n, i, s
    <3> QED BY <1>k, <3>2, <3>3
  <2>5. UNCHANGED nas \/ System!P!Write({}, n, [nas[n] EXCEPT !.spec = i.spec])
      BY <1>11, Zenon DEF System!P!UpdateError, n, i
  <2> QED BY <2>3, <2>4, <2>5
<1>12. ASSUME System!P!UpdateFails(h) PROVE KeptInv'
  <2>1. /\ i.pc = "updateFailed" /\ UNCHANGED <<nas, copy, main, kubelet>>
        /\ call' = [call EXCEPT ![h] = System!P!CallIdle]
      BY <1>0, <1>12 DEF System!P!UpdateFails, System!P!Fail, i
  <2> QED BY <1>q, <2>1, IdleCall
<1>13. ASSUME System!P!Done(h) PROVE KeptInv'
  <2>1. /\ i.pc = "done" /\ UNCHANGED <<nas, copy, main>>
        /\ call' = [call EXCEPT ![h] = System!P!CallIdle]
      BY <1>0, <1>13 DEF System!P!Done, i
  <2>2. \E k \in System!P!KubeletType :
           /\ kubelet' = [kubelet EXCEPT ![n] = [kubelet[n] EXCEPT ![i.claim] = k]]
           /\ k.phase = "none" \/ (i.op = "prepare" /\ i.device # {})
    <3> DEFINE k == IF i.op = "prepare" THEN [phase |-> "prepared", device |-> i.device]
                    ELSE System!P!Unknown
    <3>1. kubelet' = [kubelet EXCEPT ![n] = [kubelet[n] EXCEPT ![i.claim] = k]]
        BY <1>0, <1>13, <2>1 DEF System!P!Done, n, i
    <3>2. k \in System!P!KubeletType /\ (k.phase = "none" \/ i.op = "prepare")
        BY <1>0, <1>f DEF System!P!KubeletType, System!P!Unknown
    <3> HIDE DEF k
    <3> QED BY <1>d, <2>1, <3>1, <3>2
  <2>3. HandlerTurn(h, System!P!CallIdle)
      BY <2>1, IdleCall DEF HandlerTurn, n, i, s
  <2>4. DeviceTurn(h, System!P!CallIdle)
      BY <2>2, IdleCall DEF DeviceTurn, n, i, s
  <2> QED BY <1>k, <2>3, <2>4
<1> QED BY <1>1, <1>2, <1>3, <1>4, <1>5, <1>6, <1>7, <1>8, <1>9, <1>10, <1>11, <1>12, <1>13
       DEF System!P!Handles

\* A step of node n's plugin that has no calls and keeps what the kubelet knows.
LEMMA StartKeeps ==
    ASSUME Deployed, SystemInv, KeptInv, NEW n \in Nodes, main[n] # "up",
           UNCHANGED System!controllerOwn, UNCHANGED <<call, kubelet, reserved>>,
           \A m \in Nodes \ {n} : /\ nas'[m].spec = nas[m].spec /\ copy'[m] = copy[m]
                                  /\ main'[m] = main[m],
           \/ nas'[n].spec.claims = nas[n].spec.claims
           \/ /\ main[n] \notin {"down", "create"}
              /\ nas'[n].spec.claims = copy[n].claims /\ copy'[n].claims = copy[n].claims,
           copy'[n].claims \in {copy[n].claims, nas[n].spec.claims},
           main[n] \in {"down", "create"} =>
              main'[n] \in {"down", "create"} \/ copy'[n].claims = nas[n].spec.claims
    PROVE  KeptInv'
<1>1. /\ \A h \in Handlers : NodeOf[h] \in Nodes
      /\ \A h \in Handlers : NodeOf[h] = n => call[h].pc = "idle"
    BY DEF Deployed, SystemInv, PluginInv, CallHolds
<1>2. \A h \in Handlers : NodeOf[h] = n => call'[h].pc \notin InHand
    BY <1>1, IdleCall
<1>3. \A m \in Nodes, c \in Claims : /\ System!P!InUse(m, c)' <=> System!P!InUse(m, c)
                                     /\ Held(m, c)' <=> Held(m, c)
    BY DEF System!P!InUse, Held
<1>4. Moves(n)
    BY <1>2, <1>3 DEF Moves, Read
<1>5. DeviceInv'
    BY <1>1, <1>2 DEF KeptInv, DeviceInv, InHand
<1> QED BY <1>4, <1>5, MovesKeep DEF SystemInv, System!controllerOwn

\* The process is gone with its calls: whom the kubelet waited for has not answered.
LEMMA GoneKeeps ==
    ASSUME Deployed, SystemInv, KeptInv, NEW n \in Nodes, System!P!Gone(n),
           UNCHANGED System!controllerOwn, UNCHANGED <<nas, kubelet, reserved>>
    PROVE  KeptInv'
<1>0. /\ copy \in [Nodes -> SpecType] /\ call \in [Handlers -> CallRecord]
      /\ main \in [Nodes -> System!P!MainPCs \ {"stopGet", "stopPut"}]
      /\ \A h \in Handlers : NodeOf[h] \in Nodes
    BY DEF Deployed, SystemInv, PluginInv, PluginData
<1>1. /\ main'[n] = "down" /\ copy'[n].claims = {}
      /\ \A m \in Nodes \ {n} : copy'[m] = copy[m] /\ main'[m] = main[m]
      /\ \A h \in Handlers : call'[h] = IF NodeOf[h] = n THEN System!P!CallIdle ELSE call[h]
    BY <1>0 DEF System!P!Gone, System!P!EmptySpec
<1>2. \A c \in Claims : /\ System!P!InUse(n, c)' => System!P!InUse(n, c)
                        /\ Held(n, c)' => Held(n, c)
    BY <1>1, IdleCall, NoneAssumption DEF System!P!InUse, Held
<1>3. Moves(n)
    BY <1>1, <1>2, IdleCall DEF Moves
<1>4. DeviceInv'
  <2>1. ASSUME NEW h \in Handlers
        PROVE  /\ call'[h].pc \in {"updateGet", "updatePut"} =>
                     call'[h].spec.claims = copy'[NodeOf[h]].claims
               /\ call'[h].pc \in {"device", "get"} => ~call'[h].stored
               /\ /\ call'[h].op = "prepare"
                  /\ call'[h].stored \/ call'[h].pc \in {"sync", "updateGet", "updatePut", "done"}
                  => call'[h].device # {}
    <3>1. CASE NodeOf[h] = n
        BY <1>1, <3>1, IdleCall
    <3>2. CASE NodeOf[h] # n
        BY <1>0, <1>1, <3>2 DEF KeptInv, DeviceInv
    <3> QED BY <3>1, <3>2
  <2> QED BY <2>1 DEF KeptInv, DeviceInv
<1> QED BY <1>3, <1>4, MovesKeep DEF SystemInv, System!controllerOwn

\* The start and the end of a plugin, and set-nas-status.
LEMMA ProcessKeeps ==
    ASSUME Deployed, SystemInv, KeptInv, NEW n \in Nodes, System!P!Starts(n) \/ System!P!Ends(n),
           UNCHANGED System!controllerOwn, UNCHANGED reserved
    PROVE  KeptInv'
<1>0. /\ copy \in [Nodes -> SpecType] /\ copy[n] \in SpecType
      /\ main \in [Nodes -> System!P!MainPCs \ {"stopGet", "stopPut"}]
      /\ nas \in [Nodes -> [ready : BOOLEAN, spec : SpecType]]
    BY DEF SystemInv, TypeInv, TypeOK, PluginInv, PluginData
<1>1. ASSUME System!P!StartPlugin(n) PROVE KeptInv'
  <2>1. /\ main[n] = "down" /\ main' = [main EXCEPT ![n] = "create"]
        /\ UNCHANGED <<nas, copy, call, kubelet>>
      BY <1>1 DEF System!P!StartPlugin
  <2> QED BY <1>0, <2>1, StartKeeps
<1>2. ASSUME System!P!MainGet(n) PROVE KeptInv'
  <2>1. /\ main[n] = "create" /\ main' = [main EXCEPT ![n] = "notReady"]
        /\ copy' = [copy EXCEPT ![n] = nas[n].spec]
        /\ UNCHANGED <<nas, call, kubelet>>
      BY <1>0, <1>2 DEF System!P!MainGet
  <2> QED BY <1>0, <2>1, StartKeeps
<1>3. ASSUME System!P!StartNotReady(n) PROVE KeptInv'
  <2>1. /\ main[n] = "notReady" /\ main' = [main EXCEPT ![n] = "load"]
        /\ nas' = [nas EXCEPT ![n] = [ready |-> FALSE, spec |-> copy[n]]]
        /\ UNCHANGED <<copy, call, kubelet>>
      BY <1>3 DEF System!P!StartNotReady, System!P!Write
  <2> QED BY <1>0, <2>1, StartKeeps
<1>4. ASSUME System!P!LoadState(n) PROVE KeptInv'
  <2>1. /\ main[n] = "load" /\ main' = [main EXCEPT ![n] = "updateGet"]
        /\ UNCHANGED <<nas, copy, call, kubelet>>
      BY <1>4 DEF System!P!LoadState
  <2> QED BY <1>0, <2>1, StartKeeps
<1>5. ASSUME System!P!StartUpdateGet(n) PROVE KeptInv'
  <2>1. /\ main[n] = "updateGet" /\ main' = [main EXCEPT ![n] = "updatePut"]
        /\ UNCHANGED <<nas, copy, call, kubelet>>
      BY <1>5 DEF System!P!StartUpdateGet
  <2> QED BY <1>0, <2>1, StartKeeps
<1>6. ASSUME System!P!StartUpdatePut(n) PROVE KeptInv'
  <2> DEFINE t == [copy[n] EXCEPT !.prepared = prepared[n]]
  <2>1. /\ main[n] = "updatePut" /\ main' = [main EXCEPT ![n] = "ready"]
        /\ nas' = [nas EXCEPT ![n] = [nas[n] EXCEPT !.spec = t]]
        /\ copy' = [copy EXCEPT ![n] = t]
        /\ UNCHANGED <<call, kubelet>>
      BY <1>6 DEF System!P!StartUpdatePut, System!P!Write
  <2>2. t.claims = copy[n].claims
      BY <1>0 DEF SpecType
  <2> HIDE DEF t
  <2>3. /\ nas'[n].spec = t /\ copy'[n] = t
        /\ \A m \in Nodes \ {n} : nas'[m] = nas[m] /\ copy'[m] = copy[m] /\ main'[m] = main[m]
      BY <1>0, <2>1
  <2> QED BY <2>1, <2>2, <2>3, StartKeeps
<1>7. ASSUME System!P!StartReady(n) PROVE KeptInv'
  <2>1. /\ main[n] = "ready" /\ main' = [main EXCEPT ![n] = "up"]
        /\ nas' = [nas EXCEPT ![n] = [ready |-> TRUE, spec |-> copy[n]]]
        /\ UNCHANGED <<copy, call, kubelet>>
      BY <1>7 DEF System!P!StartReady, System!P!Write
  <2> QED BY <1>0, <2>1, StartKeeps
<1>8. ASSUME System!P!MainConflict(n) PROVE KeptInv'
  <2>1. main[n] \in {"notReady", "updatePut", "ready"} /\ UNCHANGED <<nas, kubelet>>
      BY <1>0, <1>8 DEF System!P!MainConflict
  <2>2. CASE System!P!Gone(n)
      BY <2>1, <2>2, GoneKeeps
  <2>3. CASE ~System!P!Gone(n)
    <3>1. PICK pc \in {"updateGet", "create"} :
             main' = [main EXCEPT ![n] = pc] /\ UNCHANGED <<copy, call>>
        BY <1>8, <2>1, <2>3 DEF System!P!MainConflict
    <3> QED BY <1>0, <2>1, <3>1, StartKeeps
  <2> QED BY <2>2, <2>3
<1>9. ASSUME System!P!MainFails(n) \/ System!P!PluginCrash(n) \/ System!P!StopNotReady(n)
      PROVE KeptInv'
  <2>1. UNCHANGED <<nas, kubelet>> /\ System!P!Gone(n)
      BY <1>0, <1>9 DEF System!P!MainFails, System!P!PluginCrash, System!P!StopNotReady
  <2> QED BY <2>1, GoneKeeps
<1>10. ASSUME System!P!SetNotReady(n) PROVE KeptInv'
  <2>1. /\ main[n] = "down" /\ UNCHANGED <<copy, main, call, kubelet>>
        /\ nas' = [nas EXCEPT ![n] = [ready |-> FALSE, spec |-> nas[n].spec]]
      BY <1>10 DEF Deployed, System!P!SetNotReady, System!P!Write
  <2> QED BY <1>0, <2>1, StartKeeps
<1>11. ~System!P!StopPlugin(n)
    BY DEF Deployed, System!P!StopPlugin
<1> QED BY <1>1, <1>2, <1>3, <1>4, <1>5, <1>6, <1>7, <1>8, <1>9, <1>10, <1>11
       DEF System!P!Starts, System!P!Ends

LEMMA KeptInit == Deployed /\ System!Init => KeptInv
<1> SUFFICES ASSUME Deployed, System!Init PROVE KeptInv
    OBVIOUS
<1>1. ControllerInit /\ reserved = {}
    BY DEF System!Init, System!C!ControllerInit, ControllerInit, System!C!NotPending, NotPending,
           System!C!Idle, Idle, System!C!EmptySpec, System!C!NoCpus, EmptySpec, NoCpus
<1>2. /\ \A h \in Handlers : call[h] = System!P!CallIdle
      /\ kubelet = [n \in Nodes |-> [c \in Claims |-> System!P!Unknown]]
    BY DEF System!Init, System!P!PluginInit
<1>3. Idle.pc = "idle" /\ Idle.pod = None /\ Idle.cas = {} /\ Idle.claim = None /\ ~Dealloc(Idle)
    BY DEF Idle, Dealloc, UpdatePCs
<1>4. /\ \A w \in Workers : job[w] = Idle
      /\ \A c \in Claims : claim[c].node = None
    BY <1>1 DEF ControllerInit
<1>5. LockInv
    BY <1>3, <1>4, AwayPCs DEF LockInv
<1>6. StatusInv
    BY <1>3, <1>4 DEF StatusInv, FreshInv, DeallocInv, GivenUp, SameClaim
<1>7. \A n \in Nodes, c \in Claims : ~Settled(n, c)
    BY <1>3, <1>4, NoneAssumption DEF Settled, Granted
<1>8. \A n \in Nodes, c \in Claims : ~Held(n, c) /\ ~System!P!InUse(n, c)
    BY <1>2, IdleCall, NoneAssumption DEF Held, System!P!InUse, System!P!Unknown
<1>9. UseInv
    BY <1>3, <1>4, <1>8 DEF UseInv
<1>10. DeviceInv
  <2>1. System!P!Unknown \in System!P!KubeletType
      BY DEF System!P!Unknown, System!P!KubeletType
  <2> QED BY <1>2, <2>1, IdleCall DEF DeviceInv
<1>11. RecordInv
    BY <1>7, <1>8 DEF RecordInv
<1>12. \A w \in Workers : OnSelected(w)
    BY <1>3, <1>4 DEF OnSelected
<1> QED BY <1>5, <1>6, <1>9, <1>10, <1>11, <1>12 DEF KeptInv

LEMMA KeptNext == Deployed /\ SystemInv /\ KeptInv /\ [System!Next]_(System!systemVars) => KeptInv'
<1> SUFFICES ASSUME Deployed, SystemInv, KeptInv, [System!Next]_(System!systemVars) PROVE KeptInv'
    OBVIOUS
<1>0. TypeInv
    BY DEF SystemInv
<1>1. ASSUME NEW w \in Workers, System!WorkerSteps(w) PROVE KeptInv'
  <2>1. /\ Continues(w) \/ \E p \in Pods : SyncPod(w, p)
        /\ reserved' = reserved \cup {c \in Claims : claim'[c].node # None /\ claim[c].node = None}
        /\ UNCHANGED <<copy, prepared, main, call, kubelet>>
      BY <1>1, WorkerSame DEF System!WorkerSteps, System!pluginOwn
  <2>2. CASE Panics(w)
    <3>1. Restart
        BY <2>2 DEF Panics, Panic
    <3>2. claim' = claim
        BY <3>1 DEF Restart
    <3>3. reserved' = reserved
        BY <2>1, <3>2
    <3> QED BY <1>0, <2>1, <3>1, <3>3, RestartKeeps
  <2>3. CASE ~Panics(w)
      BY <1>0, <2>1, <2>3, WorkerKeeps DEF WorkerTurn
  <2> QED BY <2>2, <2>3
<1>2. ASSUME NEW w \in Workers, NEW c \in Claims, System!WorkerSyncsClaim(w, c) PROVE KeptInv'
  <2>1. /\ c \notin reserved /\ SyncClaim(w, c) /\ reserved' = reserved
        /\ UNCHANGED <<copy, prepared, main, call, kubelet>>
      BY <1>2, WorkerSame DEF System!WorkerSyncsClaim, System!pluginOwn
  <2>2. claim' = claim
      BY <2>1 DEF SyncClaim
  <2>3. WorkerTurn(w)
      BY <2>1, <2>2 DEF WorkerTurn
  <2> QED BY <1>0, <2>3, WorkerKeeps
<1>3. ASSUME System!ControllerCrash PROVE KeptInv'
  <2>1. Restart /\ UNCHANGED <<copy, main, call, kubelet, reserved>>
      BY <1>3, EnvironmentSame DEF System!ControllerCrash, System!pluginOwn, Crash
  <2> QED BY <1>0, <2>1, RestartKeeps
<1>4. ASSUME NEW c \in Claims, \/ System!ClaimDeleted(c) \/ System!DeallocationRequested(c)
                               \/ System!Reserve(c) \/ System!PodsEnd(c)
      PROVE  KeptInv'
    BY <1>0, <1>4, ClaimsKeep, ReservationsKeep
<1>5. ASSUME NEW c \in Claims, NEW h \in Handlers, System!KubeletCalls(h, c) PROVE KeptInv'
    BY <1>5, KubeletKeeps
<1>6. ASSUME System!PluginSteps PROVE KeptInv'
    BY <1>6, HandlesKeep, ProcessKeeps DEF System!PluginSteps
<1>7. CASE UNCHANGED System!systemVars
  <2>1. /\ UNCHANGED <<nas, nasFresh, claim, claimFresh, pending, lock, job>>
        /\ UNCHANGED <<copy, prepared, main, call, kubelet, reserved>>
      BY <1>7 DEF System!systemVars, System!controllerOwn, System!pluginOwn
  <2>2. LockInv' /\ StatusInv' /\ \A w \in Workers : OnSelected(w)'
      BY <2>1, ControllerSame
  <2>3. \A n \in Nodes, c \in Claims : /\ Settled(n, c)' <=> Settled(n, c)
                                       /\ Held(n, c)' <=> Held(n, c)
                                       /\ System!P!InUse(n, c)' <=> System!P!InUse(n, c)
      BY <2>1, ControllerSame DEF Held, System!P!InUse
  <2>4. UseInv' /\ DeviceInv'
      BY <2>1, <2>3 DEF KeptInv, UseInv, DeviceInv
  <2>5. RecordInv'
      BY <2>1, <2>3 DEF KeptInv, RecordInv
  <2> QED BY <2>2, <2>4, <2>5 DEF KeptInv
<1> QED BY <1>1, <1>2, <1>3, <1>4, <1>5, <1>6, <1>7 DEF System!Next

\* The inductive invariant: a claim that is allocated on a node, or may still be, is in
\* the node's NAS or in nothing a plugin has at hand, and in every copy a worker has
\* of that NAS; one that is prepared is also in everything the plugin has at hand.
\* It needs the mutexes of the nodes (two workers with copies of one NAS would drop
\* each other's claims) and the scheduler, which does not give up what is in use.
THEOREM SystemRecordInvariant == ASSUME Deployed PROVE System!Spec => [](SystemInv /\ KeptInv)
<1>1. System!Init => SystemInv /\ KeptInv
    BY SystemInit, KeptInit
<1>2. SystemInv /\ KeptInv /\ [System!Next]_(System!systemVars) => (SystemInv /\ KeptInv)'
    BY SystemNext, KeptNext
<1> QED BY <1>1, <1>2, PTL DEF System!Spec

\* PreparedAllocated of the composition: a claim whose device containers use is in the
\* NAS of their node, so that its CPUs are counted when the next claim is placed.
\* Neither a stale copy that a worker or the plugin stores (Update overwrites the spec
\* of the object it has just read) nor the release of the claim removes it before it
\* is unprepared, whatever requests fail and processes end.
THEOREM PreparedStaysAllocated ==
    ASSUME Deployed
    PROVE  System!Spec => [](System!PreparedAllocated /\ PreparedAllocated)
<1>1. KeptInv => System!PreparedAllocated /\ PreparedAllocated
    BY DEF KeptInv, RecordInv, Held, System!PreparedAllocated, PreparedAllocated
<1> QED BY <1>1, SystemRecordInvariant, PTL

----------------------------------------------------------------------------
(***************************************************************************)
(* A recorded claim has its CPUs.                                          *)
(***************************************************************************)

\* The same of what the plugins have a copy of, and are to store.
PluginWhole ==
    /\ \A n \in Nodes : Whole(copy[n])
    /\ \A h \in Handlers : Whole(call[h].spec)

\* A spec is whole by its claims and their CPUs alone.
LEMMA WholeSame ==
    ASSUME NEW s, NEW t, Whole(s), t.claims = s.claims, t.cpus = s.cpus
    PROVE  Whole(t)
BY DEF Whole

\* What a plugin stores, copies or takes into a call is one of the specs there are,
\* with other prepared claims or another utilisation.
WholeStep ==
    /\ UNCHANGED <<pending, job>>
    /\ \A n \in Nodes : Whole(nas'[n].spec) /\ Whole(copy'[n])
    /\ \A h \in Handlers : Whole(call'[h].spec)

LEMMA WholeSteps ==
    ASSUME WholeInv, WholeStep
    PROVE  WholeInv' /\ PluginWhole'
BY DEF WholeInv, WholeJob, WholeStep, PluginWhole

\* What the specs at hand are.
LEMMA WholeBasis ==
    ASSUME SystemInv, WholeInv, PluginWhole
    PROVE  /\ copy \in [Nodes -> SpecType] /\ call \in [Handlers -> CallRecord]
           /\ nas \in [Nodes -> [ready : BOOLEAN, spec : SpecType]]
           /\ \A h \in Handlers : call[h].spec \in SpecType
           /\ \A n \in Nodes : Whole(nas[n].spec) /\ Whole(copy[n])
           /\ \A h \in Handlers : Whole(call[h].spec)
           /\ Whole(System!P!EmptySpec)
           /\ Whole(System!P!CallIdle.spec)
<1>1. System!P!EmptySpec = EmptySpec
    BY DEF System!P!EmptySpec, System!P!NoCpus, EmptySpec, NoCpus
<1>2. System!P!CallIdle.spec = System!P!EmptySpec
    BY DEF System!P!CallIdle
<1> QED BY <1>1, <1>2, WholeParts
        DEF SystemInv, TypeInv, TypeOK, PluginInv, PluginData, CallRecord, WholeInv, PluginWhole

\* The kubelet calls.
LEMMA KubeletWhole ==
    ASSUME SystemInv, WholeInv, PluginWhole, NEW h \in Handlers, NEW c \in Claims,
           System!KubeletCalls(h, c)
    PROVE  WholeStep
<1> DEFINE first(pc, op) == [System!P!CallIdle EXCEPT !.pc = pc, !.op = op, !.claim = c]
<1>1. PICK pc \in {"device", "get"}, op \in {"prepare", "unprepare"} :
         /\ call' = [call EXCEPT ![h] = first(pc, op)]
         /\ UNCHANGED <<nas, copy, pending, job>>
    BY DEF System!KubeletCalls, System!controllerOwn, System!P!PrepareCall, System!P!UnprepareCall
<1>2. first(pc, op).spec = System!P!CallIdle.spec
    BY DEF System!P!CallIdle
<1> HIDE DEF first
<1> QED BY <1>1, <1>2, WholeBasis DEF WholeStep

\* The steps of a handler.
LEMMA HandlesWhole ==
    ASSUME Deployed, SystemInv, WholeInv, PluginWhole, NEW h \in Handlers, System!P!Handles(h),
           UNCHANGED System!controllerOwn
    PROVE  WholeStep
<1> DEFINE n == NodeOf[h]
           j == call[h]
           s == copy[n]
<1>0. /\ n \in Nodes /\ copy \in [Nodes -> SpecType] /\ s \in SpecType
      /\ call \in [Handlers -> CallRecord] /\ j \in CallRecord /\ j.spec \in SpecType
      /\ nas \in [Nodes -> [ready : BOOLEAN, spec : SpecType]] /\ nas[n].spec \in SpecType
    BY WholeBasis DEF Deployed
<1>i. /\ \A m \in Nodes : Whole(nas[m].spec) /\ Whole(copy[m])
      /\ \A g \in Handlers : Whole(call[g].spec)
      /\ Whole(System!P!EmptySpec) /\ Whole(System!P!CallIdle.spec)
    BY WholeBasis
<1>c. UNCHANGED <<pending, job>>
    BY DEF System!controllerOwn
<1>a. ASSUME NEW i, call' = [call EXCEPT ![h] = i], Whole(i.spec), UNCHANGED <<nas, copy>>
      PROVE  WholeStep
  <2>1. call'[h] = i /\ \A g \in Handlers \ {h} : call'[g] = call[g]
      BY <1>0, <1>a
  <2> QED BY <1>a, <1>c, <1>i, <2>1 DEF WholeStep
<1>b. ASSUME NEW i, call' = [call EXCEPT ![h] = i], Whole(i.spec),
             NEW t, copy' = [copy EXCEPT ![n] = t], Whole(t), UNCHANGED nas
      PROVE  WholeStep
  <2>1. call'[h] = i /\ \A g \in Handlers \ {h} : call'[g] = call[g]
      BY <1>0, <1>b
  <2>2. copy'[n] = t /\ \A m \in Nodes \ {n} : copy'[m] = copy[m]
      BY <1>0, <1>b
  <2> QED BY <1>b, <1>c, <1>i, <2>1, <2>2 DEF WholeStep
<1>s. ASSUME NEW i, call' = [call EXCEPT ![h] = i], Whole(i.spec), UNCHANGED copy,
             nas' = [nas EXCEPT ![n] = [nas[n] EXCEPT !.spec = j.spec]]
      PROVE  WholeStep
  <2>1. call'[h] = i /\ \A g \in Handlers \ {h} : call'[g] = call[g]
      BY <1>0, <1>s
  <2>2. nas'[n].spec = j.spec /\ \A m \in Nodes \ {n} : nas'[m] = nas[m]
      BY <1>0, <1>s
  <2> QED BY <1>s, <1>c, <1>i, <2>1, <2>2 DEF WholeStep
<1>1. ASSUME System!P!NameDevice(h) PROVE WholeStep
  <2> DEFINE i == [j EXCEPT !.device = System!P!CpusIn(s, j.claim), !.pc = "get"]
  <2>1. call' = [call EXCEPT ![h] = i] /\ UNCHANGED <<nas, copy>>
      BY <1>0, <1>1 DEF System!P!NameDevice
  <2>2. i.spec = j.spec
      BY <1>0 DEF CallRecord
  <2> HIDE DEF i
  <2> QED BY <1>a, <1>i, <2>1, <2>2
<1>2. ASSUME System!P!Get(h) PROVE WholeStep
  <2> DEFINE i == [j EXCEPT !.spec = nas[n].spec, !.pc = "assign"]
  <2>1. call' = [call EXCEPT ![h] = i] /\ UNCHANGED <<nas, copy>>
      BY <1>0, <1>2 DEF System!P!Get
  <2>2. i.spec = nas[n].spec
      BY <1>0 DEF CallRecord
  <2> HIDE DEF i
  <2> QED BY <1>0, <1>a, <1>i, <2>1, <2>2
<1>3. ASSUME System!P!GetFails(h) PROVE WholeStep
  <2> DEFINE i == IF j.pc = "get" THEN System!P!CallIdle ELSE [j EXCEPT !.pc = "updateFailed"]
  <2>1. call' = [call EXCEPT ![h] = i] /\ UNCHANGED <<nas, copy>>
      BY <1>0, <1>3 DEF System!P!GetFails, System!P!Fail, System!P!Goto
  <2>2. i.spec \in {j.spec, System!P!CallIdle.spec}
      BY <1>0 DEF CallRecord
  <2> HIDE DEF i
  <2> QED BY <1>a, <1>i, <2>1, <2>2
<1>4. ASSUME System!P!AssignFirst(h) PROVE WholeStep
  <2> DEFINE whole == [j.spec EXCEPT !.util = s.util]
             half == [s EXCEPT !.util = j.spec.util]
             i(pc) == [j EXCEPT !.pc = pc]
  <2>1. PICK pc : call' = [call EXCEPT ![h] = i(pc)]
      BY <1>0, <1>4 DEF System!P!AssignFirst, System!P!Goto
  <2>2. UNCHANGED nas /\ \E t \in {whole, half} : copy' = [copy EXCEPT ![n] = t]
      BY <1>0, <1>4 DEF System!P!AssignFirst
  <2>3. /\ i(pc).spec = j.spec
        /\ whole.claims = j.spec.claims /\ whole.cpus = j.spec.cpus
        /\ half.claims = s.claims /\ half.cpus = s.cpus
      BY <1>0 DEF CallRecord, SpecType
  <2> HIDE DEF i, whole, half
  <2>4. Whole(whole) /\ Whole(half)
      BY <1>0, <1>i, <2>3, WholeSame
  <2> QED BY <1>b, <1>i, <2>1, <2>2, <2>3, <2>4
<1>5. ASSUME System!P!AssignRest(h) PROVE WholeStep
  <2> DEFINE pc == IF j.stored THEN "done" ELSE "state"
             i == [j EXCEPT !.pc = pc, !.spec = System!P!EmptySpec]
             whole == [j.spec EXCEPT !.util = s.util]
             half == [s EXCEPT !.util = j.spec.util]
  <2>1. call' = [call EXCEPT ![h] = i]
      BY <1>0, <1>5 DEF System!P!AssignRest
  <2>2. UNCHANGED nas /\ \E t \in {whole, half} : copy' = [copy EXCEPT ![n] = t]
      BY <1>0, <1>5 DEF System!P!AssignRest
  <2>3. /\ i.spec = System!P!EmptySpec
        /\ whole.claims = j.spec.claims /\ whole.cpus = j.spec.cpus
        /\ half.claims = s.claims /\ half.cpus = s.cpus
      BY <1>0 DEF CallRecord, SpecType
  <2> HIDE DEF i, whole, half
  <2>4. Whole(whole) /\ Whole(half)
      BY <1>0, <1>i, <2>3, WholeSame
  <2> QED BY <1>b, <1>i, <2>1, <2>2, <2>3, <2>4
<1>6. ASSUME System!P!Prepare(h) PROVE WholeStep
  <2> DEFINE known == j.claim \in prepared[n] \/ System!P!CpusIn(s, j.claim) # {}
             i == IF known /\ System!P!HasDevice(h) THEN [j EXCEPT !.pc = "sync"]
                  ELSE System!P!CallIdle
  <2>1. call' = [call EXCEPT ![h] = i] /\ UNCHANGED <<nas, copy>>
      BY <1>0, <1>6 DEF System!P!Prepare, System!P!Fail, System!P!Goto
  <2>2. i.spec \in {j.spec, System!P!CallIdle.spec}
      BY <1>0 DEF CallRecord
  <2> HIDE DEF i
  <2> QED BY <1>a, <1>i, <2>1, <2>2
<1>7. ASSUME System!P!Unprepare(h) PROVE WholeStep
  <2> DEFINE i == [j EXCEPT !.pc = "sync"]
             t == [s EXCEPT !.prepared = @ \ {j.claim}]
  <2>1. /\ call' = [call EXCEPT ![h] = i] /\ copy' = [copy EXCEPT ![n] = t]
        /\ UNCHANGED nas
      BY <1>0, <1>7 DEF System!P!Unprepare, System!P!Goto
  <2>2. i.spec = j.spec /\ t.claims = s.claims /\ t.cpus = s.cpus
      BY <1>0 DEF CallRecord, SpecType
  <2> HIDE DEF i, t
  <2>3. Whole(t)
      BY <1>0, <1>i, <2>2, WholeSame
  <2> QED BY <1>b, <1>i, <2>1, <2>2, <2>3
<1>8. ASSUME System!P!GetUpdatedSpec(h) PROVE WholeStep
  <2> DEFINE t == [s EXCEPT !.prepared = prepared[n]]
             i == [j EXCEPT !.spec = t, !.pc = "updateGet"]
  <2>1. call' = [call EXCEPT ![h] = i] /\ UNCHANGED <<nas, copy>>
      BY <1>0, <1>8 DEF System!P!GetUpdatedSpec
  <2>2. i.spec = t /\ t.claims = s.claims /\ t.cpus = s.cpus
      BY <1>0 DEF CallRecord, SpecType
  <2> HIDE DEF i, t
  <2>3. Whole(t)
      BY <1>0, <1>i, <2>2, WholeSame
  <2> QED BY <1>a, <2>1, <2>2, <2>3
<1>9. ASSUME System!P!UpdateGet(h) PROVE WholeStep
  <2> DEFINE i == [j EXCEPT !.pc = "updatePut"]
  <2>1. call' = [call EXCEPT ![h] = i] /\ UNCHANGED <<nas, copy>>
      BY <1>0, <1>9 DEF System!P!UpdateGet, System!P!Goto
  <2>2. i.spec = j.spec
      BY <1>0 DEF CallRecord
  <2> HIDE DEF i
  <2> QED BY <1>a, <1>i, <2>1, <2>2
<1>10. ASSUME System!P!UpdatePut(h) PROVE WholeStep
  <2> DEFINE i == [j EXCEPT !.stored = TRUE, !.pc = "assign"]
  <2>1. /\ call' = [call EXCEPT ![h] = i] /\ UNCHANGED copy
        /\ nas' = [nas EXCEPT ![n] = [nas[n] EXCEPT !.spec = j.spec]]
      BY <1>0, <1>10 DEF System!P!UpdatePut, System!P!Write
  <2>2. i.spec = j.spec
      BY <1>0 DEF CallRecord
  <2> HIDE DEF i
  <2> QED BY <1>i, <1>s, <2>1, <2>2
<1>11. ASSUME System!P!UpdateError(h) PROVE WholeStep
  <2> DEFINE pc == IF j.tries + 1 < MaxRetries THEN "updateGet" ELSE "updateFailed"
             i == [j EXCEPT !.tries = @ + 1, !.pc = pc]
  <2>1. call' = [call EXCEPT ![h] = i] /\ UNCHANGED copy
      BY <1>0, <1>11 DEF System!P!UpdateError
  <2>2. \/ UNCHANGED nas
        \/ nas' = [nas EXCEPT ![n] = [nas[n] EXCEPT !.spec = j.spec]]
      BY <1>11 DEF System!P!UpdateError, System!P!Write
  <2>3. i.spec = j.spec
      BY <1>0 DEF CallRecord
  <2> HIDE DEF i
  <2> QED BY <1>a, <1>i, <1>s, <2>1, <2>2, <2>3
<1>12. ASSUME System!P!UpdateFails(h) \/ System!P!Done(h) PROVE WholeStep
  <2>1. call' = [call EXCEPT ![h] = System!P!CallIdle] /\ UNCHANGED <<nas, copy>>
      BY <1>12 DEF System!P!UpdateFails, System!P!Fail, System!P!Done
  <2> QED BY <1>a, <1>i, <2>1
<1> QED BY <1>1, <1>2, <1>3, <1>4, <1>5, <1>6, <1>7, <1>8, <1>9, <1>10, <1>11, <1>12
       DEF System!P!Handles

\* The start and the end of a plugin, and set-nas-status.
LEMMA ProcessWhole ==
    ASSUME SystemInv, WholeInv, PluginWhole, NEW n \in Nodes,
           System!P!Starts(n) \/ System!P!Ends(n), UNCHANGED System!controllerOwn
    PROVE  WholeStep
<1> DEFINE s == copy[n]
           t == [s EXCEPT !.prepared = prepared[n]]
           Stays == \A m \in Nodes : nas'[m].spec = nas[m].spec
           Put(u) == nas'[n].spec = u /\ \A m \in Nodes \ {n} : nas'[m] = nas[m]
           Copied(u) == copy'[n] = u /\ \A m \in Nodes \ {n} : copy'[m] = copy[m]
<1>0. /\ copy \in [Nodes -> SpecType] /\ s \in SpecType
      /\ nas \in [Nodes -> [ready : BOOLEAN, spec : SpecType]]
    BY WholeBasis
<1>i. /\ \A m \in Nodes : Whole(nas[m].spec) /\ Whole(copy[m])
      /\ \A g \in Handlers : Whole(call[g].spec)
      /\ Whole(System!P!EmptySpec) /\ Whole(System!P!CallIdle.spec)
    BY WholeBasis
<1>c. UNCHANGED <<pending, job>>
    BY DEF System!controllerOwn
<1>t. Whole(t)
  <2>1. t.claims = s.claims /\ t.cpus = s.cpus
      BY <1>0 DEF SpecType
  <2> HIDE DEF t
  <2> QED BY <1>i, <2>1, WholeSame
<1>g. ASSUME System!P!Gone(n)
      PROVE  Copied(System!P!EmptySpec) /\ \A h \in Handlers : call'[h] \in {call[h], System!P!CallIdle}
    BY <1>0, <1>g DEF System!P!Gone
<1>1. \/ Stays
      \/ Put(s)
      \/ Put(t)
  <2>1. CASE UNCHANGED nas
      BY <2>1
  <2>2. ASSUME NEW r, NEW u, nas' = [nas EXCEPT ![n] = [ready |-> r, spec |-> u]] PROVE Put(u)
      BY <1>0, <2>2
  <2>3. ASSUME nas' = [nas EXCEPT ![n] = [nas[n] EXCEPT !.spec = t]] PROVE Put(t)
      BY <1>0, <2>3
  <2>4. CASE System!P!StartNotReady(n) \/ System!P!StartReady(n) \/ System!P!StopNotReady(n)
      BY <2>2, <2>4 DEF System!P!StartNotReady, System!P!StartReady, System!P!StopNotReady, System!P!Write
  <2>5. CASE System!P!StartUpdatePut(n)
      BY <2>3, <2>5 DEF System!P!StartUpdatePut, System!P!Write
  <2>6. CASE System!P!SetNotReady(n)
    <3>1. Put(nas[n].spec)
        BY <2>2, <2>6 DEF System!P!SetNotReady, System!P!Write
    <3> QED BY <3>1
  <2>7. UNCHANGED nas \/ System!P!StartNotReady(n) \/ System!P!StartReady(n)
        \/ System!P!StopNotReady(n) \/ System!P!StartUpdatePut(n) \/ System!P!SetNotReady(n)
      BY DEF System!P!Starts, System!P!Ends, System!P!StartPlugin, System!P!MainGet,
             System!P!LoadState, System!P!StartUpdateGet, System!P!StopPlugin,
             System!P!MainConflict, System!P!MainFails, System!P!PluginCrash
  <2> QED BY <2>1, <2>4, <2>5, <2>6, <2>7
<1>2. \/ UNCHANGED <<copy, call>>
      \/ Copied(nas[n].spec) /\ UNCHANGED call
      \/ Copied(t) /\ UNCHANGED call
      \/ System!P!Gone(n)
    BY <1>0 DEF System!P!Starts, System!P!Ends, System!P!StartPlugin, System!P!MainGet,
             System!P!LoadState, System!P!StartUpdateGet, System!P!StopPlugin,
             System!P!MainConflict, System!P!MainFails, System!P!PluginCrash,
             System!P!StartNotReady, System!P!StartReady, System!P!StopNotReady,
             System!P!StartUpdatePut, System!P!SetNotReady
<1>3. \A m \in Nodes : Whole(nas'[m].spec)
  <2>1. CASE Stays
      BY <1>i, <2>1
  <2>2. CASE Put(s) \/ Put(t)
    <3> HIDE DEF t
    <3> QED BY <1>i, <1>t, <2>2
  <2> QED BY <1>1, <2>1, <2>2
<1> HIDE DEF t
<1>4. \A m \in Nodes : Whole(copy'[m])
    BY <1>2, <1>g, <1>i, <1>t
<1>5. \A h \in Handlers : Whole(call'[h].spec)
    BY <1>2, <1>g, <1>i
<1> QED BY <1>3, <1>4, <1>5, <1>c DEF WholeStep

LEMMA WholeInit == System!Init => WholeInv /\ PluginWhole
<1> SUFFICES ASSUME System!Init PROVE WholeInv /\ PluginWhole
    OBVIOUS
<1>1. /\ nas = [n \in Nodes |-> [ready |-> FALSE, spec |-> EmptySpec]]
      /\ ControllerInit
    BY DEF System!Init, EmptySpec, NoCpus, System!EmptySpec, System!NoCpus,
           System!C!ControllerInit, ControllerInit, System!C!NotPending, NotPending,
           System!C!Idle, Idle, System!C!EmptySpec, System!C!NoCpus
<1>2. /\ copy = [n \in Nodes |-> EmptySpec]
      /\ call = [h \in Handlers |-> System!P!CallIdle]
    BY DEF System!Init, System!P!PluginInit, System!P!EmptySpec, System!P!NoCpus, EmptySpec, NoCpus
<1>3. System!P!CallIdle.spec = EmptySpec
    BY DEF System!P!CallIdle, System!P!EmptySpec, System!P!NoCpus, EmptySpec, NoCpus
<1>4. Idle.pc = "idle" /\ Idle.crd = EmptySpec /\ Idle.plan = NoCpus
    BY DEF Idle
<1>5. \A w \in Workers : WholeJob(job[w])
    BY <1>1, <1>4, WholeParts DEF ControllerInit, WholeJob
<1>6. \A n \in Nodes : Whole(nas[n].spec) /\ Sized([c \in Claims |-> pending[c][n]])
    BY <1>1, WholeParts DEF ControllerInit, NotPending, Sized
<1> QED BY <1>2, <1>3, <1>5, <1>6, WholeParts DEF WholeInv, PluginWhole

\* Every step of the composition.
LEMMA WholeNext ==
    ASSUME Deployed, SystemInv, LockInv, WholeInv, PluginWhole, [System!Next]_(System!systemVars)
    PROVE  WholeInv' /\ PluginWhole'
<1>t. TypeInv
    BY DEF SystemInv
<1>1. ASSUME NEW w \in Workers,
             System!WorkerSteps(w) \/ \E c \in Claims : System!WorkerSyncsClaim(w, c)
      PROVE  WholeInv' /\ PluginWhole'
  <2>1. UNCHANGED <<copy, call>>
      BY <1>1 DEF System!WorkerSteps, System!WorkerSyncsClaim, System!pluginOwn
  <2>2. Continues(w) \/ Starts(w)
      BY <1>1, WorkerSame DEF System!WorkerSteps, System!WorkerSyncsClaim, Starts
  <2> QED BY <1>t, <2>1, <2>2, WorkerWhole DEF PluginWhole
<1>2. ASSUME System!ControllerCrash \/ \E c \in Claims : \/ System!ClaimDeleted(c)
                                                         \/ System!DeallocationRequested(c)
      PROVE  WholeInv' /\ PluginWhole'
  <2>1. UNCHANGED <<copy, call>>
      BY <1>2 DEF System!ControllerCrash, System!ClaimDeleted, System!DeallocationRequested,
                  System!pluginOwn
  <2>2. Environment
      BY <1>2, EnvironmentSame DEF System!ControllerCrash, System!ClaimDeleted,
                                   System!DeallocationRequested, Environment
  <2> QED BY <1>t, <2>1, <2>2, EnvironmentWhole DEF PluginWhole
<1>3. CASE UNCHANGED <<nas, pending, job, copy, call>>
    BY <1>3 DEF WholeInv, WholeJob, PluginWhole
<1>4. ASSUME NEW c \in Claims, System!Reserve(c) \/ System!PodsEnd(c) PROVE WholeInv' /\ PluginWhole'
    BY <1>3, <1>4 DEF System!Reserve, System!PodsEnd, System!pluginOwn
<1>5. ASSUME NEW h \in Handlers, NEW c \in Claims, System!KubeletCalls(h, c)
      PROVE  WholeInv' /\ PluginWhole'
    BY <1>5, KubeletWhole, WholeSteps
<1>6. ASSUME System!PluginSteps PROVE WholeInv' /\ PluginWhole'
    BY <1>6, HandlesWhole, ProcessWhole, WholeSteps DEF System!PluginSteps
<1>7. CASE UNCHANGED System!systemVars
    BY <1>3, <1>7 DEF System!systemVars, System!controllerOwn, System!pluginOwn
<1> QED BY <1>1, <1>2, <1>4, <1>5, <1>6, <1>7 DEF System!Next

\* Every spec in the composition, stored, copied or about to be stored, has its claims
\* with all their CPUs; or, with several nodes and workers, with all or none.
THEOREM SystemWholeInvariant ==
    ASSUME Deployed
    PROVE  System!Spec => [](WholeInv /\ PluginWhole)
<1> DEFINE Inv == WholeInv /\ PluginWhole
           Given == SystemInv /\ LockInv
<1>1. System!Init => Inv
    BY WholeInit
<1>2. Given /\ Inv /\ [System!Next]_(System!systemVars) => Inv'
    BY WholeNext
<1>3. System!Spec => []Given
  <2>1. SystemInv /\ KeptInv => Given
      BY DEF KeptInv
  <2> HIDE DEF Given
  <2> QED BY <2>1, SystemRecordInvariant, PTL
<1> HIDE DEF Inv, Given
<1>4. System!Spec => []Inv
    BY <1>1, <1>2, <1>3, PTL DEF System!Spec
<1> QED BY <1>4 DEF Inv

\* A claim that a NAS records has as many CPUs as it asked for, or none: no spec that
\* a plugin brings back leaves it with some of them.
AllOrNone ==
    \A n \in Nodes : \A c \in nas[n].spec.claims :
       nas[n].spec.cpus[c] = {} \/ Cardinality(nas[n].spec.cpus[c]) = Request[c].count

\* Whatever is shared, lost or overwritten, no recorded claim has only some of its CPUs.
THEOREM AllocatedWholly == ASSUME Deployed PROVE System!Spec => []AllOrNone
<1>1. WholeInv => AllOrNone
    BY DEF WholeInv, Whole, Exact, AllOrNone
<1> QED BY <1>1, SystemWholeInvariant, PTL

\* FullyAllocated of DraSystem is that of Controller, over the same NAS objects.
LEMMA FullyAllocatedSame == System!FullyAllocated <=> FullyAllocated
BY DEF System!FullyAllocated, System!C!FullyAllocated, FullyAllocated,
       System!C!Cardinality, Cardinality

\* FullyAllocated of the composition, on one node or with one worker: the plugins
\* bring claims back and take them away, but never the CPUs of a recorded claim.
THEOREM SystemFullyAllocated ==
    ASSUME Deployed, Alone
    PROVE  System!Spec => [](System!FullyAllocated /\ FullyAllocated)
<1>1. WholeInv => System!FullyAllocated /\ FullyAllocated
    BY FullyAllocatedSame DEF WholeInv, Whole, Exact, FullyAllocated
<1> QED BY <1>1, SystemWholeInvariant, PTL
=============================================================================
