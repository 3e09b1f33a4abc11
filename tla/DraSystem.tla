----------------------------- MODULE DraSystem -----------------------------
(***************************************************************************)
(* The driver as deployed: the controller and the plugins of all nodes     *)
(* over the same NodeAllocationState objects, which each of them writes as *)
(* a whole.  The claims' status ties them together: the scheduler has a    *)
(* claim allocated for a pod and reserves it for that pod, the kubelet     *)
(* prepares reserved claims only, and a claim is deallocated once it is    *)
(* reserved for nobody.                                                    *)
(***************************************************************************)
EXTENDS NodeAllocationState, Sequences

CONSTANTS Nodes, Pods, PodClaims, Workers, Handlers, NodeOf, Clients, None,
          SharedClaims, MaxRetries,
          WorkerFaults,     \* see FaultKinds of Controller
          ProcessFaults     \* see PluginFaults of KubeletPlugin

VARIABLES nas, nasFresh,                                \* shared
          claim, claimFresh, pending, lock, job,        \* of Controller
          copy, prepared, main, call, kubelet,          \* of KubeletPlugin
          reserved      \* the claims whose Status.ReservedFor is not empty

C == INSTANCE Controller WITH Faults <- WorkerFaults
P == INSTANCE KubeletPlugin WITH Faults <- ProcessFaults

INSTANCE ClaimsInUse     \* PreparedAllocated

controllerOwn == <<claim, claimFresh, pending, lock, job>>
pluginOwn == <<copy, prepared, main, call, kubelet>>
systemVars == <<nas, nasFresh, controllerOwn, pluginOwn, reserved>>

----------------------------------------------------------------------------
\* The status that says where a claim is allocated reserves it for the pod.
WorkerSteps(w) ==
    /\ C!Continues(w) \/ \E p \in Pods : C!SyncPod(w, p)
    /\ reserved' = reserved \cup {c \in Claims : claim'[c].node # None /\ claim[c].node = None}
    /\ UNCHANGED pluginOwn

\* syncClaim returns at once while the claim is in use.
WorkerSyncsClaim(w, c) ==
    /\ c \notin reserved
    /\ C!SyncClaim(w, c)
    /\ UNCHANGED <<pluginOwn, reserved>>

ControllerCrash ==
    /\ C!Crash
    /\ UNCHANGED <<pluginOwn, reserved>>

\* The scheduler and users: a claim in use is not deallocated, but it may be
\* deleted, and finalizers keep it.
ClaimDeleted(c) ==
    /\ C!DeleteClaim(c)
    /\ UNCHANGED <<pluginOwn, reserved>>

DeallocationRequested(c) ==
    /\ c \notin reserved
    /\ C!RequestDeallocate(c)
    /\ UNCHANGED <<pluginOwn, reserved>>

\* Another pod that uses an allocated claim is scheduled to the same node.
Reserve(c) ==
    /\ c \notin reserved
    /\ claim[c].phase = "live" /\ claim[c].node # None
    /\ reserved' = reserved \cup {c}
    /\ claimFresh' = [claimFresh EXCEPT ![c] = {}]
    /\ UNCHANGED <<nas, nasFresh, claim, pending, lock, job, pluginOwn>>

\* The last pod that uses the claim is gone, and the kubelet has cleaned up.
PodsEnd(c) ==
    /\ c \in reserved
    /\ \A n \in Nodes : ~P!InUse(n, c)
    /\ reserved' = reserved \ {c}
    /\ claimFresh' = [claimFresh EXCEPT ![c] = {}]
    /\ UNCHANGED <<nas, nasFresh, claim, pending, lock, job, pluginOwn>>

\* The kubelet prepares what is reserved for a pod of its node.
KubeletCalls(h, c) ==
    /\ \/ c \in reserved /\ claim[c].node = NodeOf[h] /\ P!PrepareCall(h, c)
       \/ P!UnprepareCall(h, c)
    /\ UNCHANGED <<controllerOwn, reserved>>

PluginSteps ==
    /\ \/ \E h \in Handlers : P!Handles(h)
       \/ \E n \in Nodes : P!Starts(n) \/ P!Ends(n)
    /\ UNCHANGED <<controllerOwn, reserved>>

Init ==
    /\ nas = [n \in Nodes |-> [ready |-> FALSE, spec |-> EmptySpec]]
    /\ nasFresh = [n \in Nodes |-> {}]
    /\ C!ControllerInit
    /\ P!PluginInit
    /\ reserved = {}

Next ==
    \/ \E w \in Workers : WorkerSteps(w) \/ \E c \in Claims : WorkerSyncsClaim(w, c)
    \/ ControllerCrash
    \/ \E c \in Claims : \/ ClaimDeleted(c) \/ DeallocationRequested(c)
                         \/ Reserve(c) \/ PodsEnd(c)
                         \/ \E h \in Handlers : KubeletCalls(h, c)
    \/ PluginSteps

Spec == Init /\ [][Next]_systemVars

----------------------------------------------------------------------------
(***************************************************************************)
(* Properties.                                                             *)
(***************************************************************************)

\* Controller and plugin overwrite each other's specs with older ones, and yet
\* the utilisation the controller builds on is the sum over the recorded claims.
UtilConserved == C!UtilConserved

\* A claim whose status says that it is allocated on a node is recorded in that
\* node's NAS until its release is asked for, whoever writes the NAS.
StatusBacked == C!StatusBacked

\* A claim in the NAS has as many CPUs as it asked for, although a spec the
\* plugin stores may bring a claim back or take one away between its placement
\* and its allocation.  It holds with one node or one worker (SystemFullyAllocated
\* in DraSystem_proofs): of several, one can meet a claim that was brought back and
\* drop the reservation another has found (Exists) and is about to take (Get).
FullyAllocated == C!FullyAllocated
=============================================================================
