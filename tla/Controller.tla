----------------------------- MODULE Controller -----------------------------
(***************************************************************************)
(* The controller of the DRA driver (cmd/dra-rt-controller): workers of    *)
(* the Kubernetes controller framework that sync pods (UnsuitableNodes,    *)
(* then Allocate) and claims (Deallocate), over                            *)
(*   - the NodeAllocationState (NAS) objects in the API server,            *)
(*   - the ResourceClaims in the API server,                               *)
(*   - the pending allocations in the controller's memory,                 *)
(*   - one mutex per node.                                                 *)
(*                                                                         *)
(* One action is the code between two accesses to what workers share; what *)
(* only touches a worker's own variables is part of the action before it.  *)
(***************************************************************************)
EXTENDS NodeAllocationState, CpuPartitioning, Sequences

CONSTANTS
    Nodes,
    Pods,
    PodClaims,      \* the claims of each pod, in the order of its spec
    Workers,        \* the framework's workers (--workers, 10 by default)
    Clients,        \* all writers of NAS objects: the workers and, when composed, others
    None,
    MaxRetries,     \* maxRetries of Client.Update: 4 in the code
    Faults          \* what may go wrong: a subset of FaultKinds

FaultKinds == {"crash", "api", "status"}

ASSUME PodClaimsAssumption ==
    /\ PodClaims \in [Pods -> Seq(Claims)]
    /\ \A p \in Pods : \A i, j \in DOMAIN PodClaims[p] :
           PodClaims[p][i] = PodClaims[p][j] => i = j
ASSUME NoneAssumption ==
    None \notin Nodes /\ None \notin Pods /\ None \notin Workers /\ None \notin Claims
ASSUME ClientsAssumption == Workers \subseteq Clients
ASSUME MaxRetriesAssumption == MaxRetries \in Nat \ {0}
ASSUME FaultsAssumption == Faults \subseteq FaultKinds

VARIABLES
    nas,        \* the NAS object of each node: its status and its spec
    nasFresh,   \* the clients whose last read of a NAS is its current resourceVersion
    claim,      \* the ResourceClaims
    claimFresh, \* the workers whose copy of a claim is its current resourceVersion
    pending,    \* PendingAllocatedClaims.allocations, {} for no entry
    lock,       \* driver.lock: the worker that holds the mutex of each node
    job         \* what each worker is doing

vars == <<nas, nasFresh, claim, claimFresh, pending, lock, job>>

----------------------------------------------------------------------------
(***************************************************************************)
(* A worker's job: its position in the code and its local variables.       *)
(***************************************************************************)
Idle ==
    [pc |-> "idle",
     pod |-> None,          \* the pod of a PodSchedulingContext being synced
     claim |-> None,        \* the claim at hand
     sel |-> None,          \* selectedNode
     nodes |-> {},          \* potentialNodes still to visit
     node |-> None,         \* the node whose NAS is at hand
     unsuitable |-> {},     \* UnsuitableNodes, as far as the controller reads it again:
                            \* the verdict on sel (the others go to the scheduler)
     cas |-> {},            \* the ClaimAllocations still without an error
     todo |-> {},           \* those of the current loop still to come
     finalized |-> {},      \* those whose copy carries the driver's finalizer
     crd |-> EmptySpec,     \* the local copy of the node's spec
     visited |-> {},        \* the pending claims VisitNode has passed
     plan |-> NoCpus,       \* allocated: the CPUs chosen on the node
     tries |-> 0]           \* failed attempts of Client.Update

PodPCs == {"unsuitable", "visit", "remove", "place", "finalize", "allocate",
           "exists", "take"}
ClaimPCs == {"dealloc", "latest", "release", "clear", "unfinalize"}
UpdatePCs == {"updateGet", "updatePut", "updated", "updateFailed"}
PCs == {"idle"} \cup PodPCs \cup ClaimPCs \cup UpdatePCs

JobType ==
    [pc : PCs, pod : Pods \cup {None}, claim : Claims \cup {None},
     sel : Nodes \cup {None}, nodes : SUBSET Nodes, node : Nodes \cup {None},
     unsuitable : SUBSET Nodes, cas : SUBSET Claims, todo : SUBSET Claims,
     finalized : SUBSET Claims, crd : SpecType, visited : SUBSET Claims,
     plan : [Claims -> SUBSET Cpus], tries : 0 .. MaxRetries]

ClaimType ==
    [phase : {"live", "deallocate", "delete", "gone"},  \* DeallocationRequested, DeletionTimestamp
     node : Nodes \cup {None},                          \* Status.Allocation
     finalizer : BOOLEAN]

TypeOK ==
    /\ nas \in [Nodes -> [ready : BOOLEAN, spec : SpecType]]
    /\ nasFresh \in [Nodes -> SUBSET Clients]
    /\ claim \in [Claims -> ClaimType]
    /\ claimFresh \in [Claims -> SUBSET Workers]
    /\ pending \in [Claims -> [Nodes -> SUBSET Cpus]]
    /\ lock \in [Nodes -> Workers \cup {None}]
    /\ job \in [Workers -> JobType]

NotPending == [n \in Nodes |-> {}]

\* The controller's own variables, and the claims before any is allocated.
ControllerInit ==
    /\ claim = [c \in Claims |-> [phase |-> "live", node |-> None, finalizer |-> FALSE]]
    /\ claimFresh = [c \in Claims |-> {}]
    /\ pending = [c \in Claims |-> NotPending]
    /\ lock = [n \in Nodes |-> None]
    /\ job = [w \in Workers |-> Idle]

Init ==
    /\ nas = [n \in Nodes |-> [ready |-> TRUE, spec |-> EmptySpec]]
    /\ nasFresh = [n \in Nodes |-> {}]
    /\ ControllerInit

ClaimsOf(p) == {PodClaims[p][i] : i \in DOMAIN PodClaims[p]}

\* The next claim of a loop over a pod's claims of which those in S are left.
IsNext(p, S, c) ==
    /\ c \in S
    /\ \E i \in DOMAIN PodClaims[p] :
          /\ PodClaims[p][i] = c
          /\ \A j \in 1 .. i - 1 : PodClaims[p][j] \notin S

\* What becomes of a worker's job.
Become(w, j) == job' = [job EXCEPT ![w] = j]

\* The worker goes back to its queue; its copies of the claims are gone.
Return(w) ==
    /\ Become(w, Idle)
    /\ claimFresh' = [c \in Claims |-> claimFresh[c] \ {w}]

----------------------------------------------------------------------------
(***************************************************************************)
(* Syncing a pod, first half: UnsuitableNodes.                             *)
(***************************************************************************)

\* The framework collects the pod's claims that are not allocated yet and asks
\* about the potential nodes, the selected one among them.
SyncPod(w, p) ==
    /\ job[w].pc = "idle"
    /\ \A v \in Workers : job[v].pod # p
    /\ \A c \in ClaimsOf(p) : claim[c].phase # "gone"
    /\ LET cas == {c \in ClaimsOf(p) : claim[c].node = None}
       IN  /\ cas # {}
           /\ \E nodes \in SUBSET Nodes \ {{}} : \E sel \in nodes \cup {None} :
                 Become(w, [Idle EXCEPT !.pc = "unsuitable", !.pod = p, !.sel = sel,
                                        !.nodes = nodes, !.cas = cas,
                                        !.finalized = {c \in cas : claim[c].finalizer}])
           /\ claimFresh' = [c \in Claims |-> IF c \in cas THEN claimFresh[c] \cup {w}
                                              ELSE claimFresh[c]]
    /\ UNCHANGED <<nas, nasFresh, claim, pending, lock>>

\* unsuitableNode: lock the node and read its NAS.
UnsuitableGet(w, n) ==
    /\ job[w].pc = "unsuitable" /\ n \in job[w].nodes
    /\ lock[n] = None
    /\ nas[n].ready
    /\ lock' = [lock EXCEPT ![n] = w]
    /\ Become(w, [job[w] EXCEPT !.pc = "visit", !.node = n, !.nodes = @ \ {n},
                                !.crd = nas[n].spec])
    /\ UNCHANGED <<nas, nasFresh, claim, claimFresh, pending>>

\* The same when the read fails or the node is not ready: unsuitable for all claims.
UnsuitableNotReady(w, n) ==
    /\ job[w].pc = "unsuitable" /\ n \in job[w].nodes
    /\ lock[n] = None
    /\ ~nas[n].ready \/ "api" \in Faults
    /\ Become(w, [job[w] EXCEPT !.nodes = @ \ {n}, !.unsuitable = @ \cup ({n} \cap {job[w].sel})])
    /\ UNCHANGED <<nas, nasFresh, claim, claimFresh, pending, lock>>

\* VisitNode reads one more pending claim of the node under the read lock, in
\* the order of a map; the visitor runs without the lock and merges it into the
\* local copy.
VisitPending(w, c) ==
    /\ job[w].pc = "visit"
    /\ c \notin job[w].visited
    /\ pending[c][job[w].node] # {}
    /\ Become(w, [job[w] EXCEPT !.visited = @ \cup {c},
                                !.pc = IF c \in job[w].crd.claims THEN "remove" ELSE "visit",
                                !.claim = IF c \in job[w].crd.claims THEN c ELSE None,
                                !.crd = IF c \in job[w].crd.claims THEN @
                                ELSE AddClaim(@, c, pending[c][job[w].node])])
    /\ UNCHANGED <<nas, nasFresh, claim, claimFresh, pending, lock>>

\* The visitor found the claim allocated: it removes it from every node.
VisitRemove(w) ==
    /\ job[w].pc = "remove"
    /\ pending' = [pending EXCEPT ![job[w].claim] = NotPending]
    /\ Become(w, [job[w] EXCEPT !.pc = "visit", !.claim = None])
    /\ UNCHANGED <<nas, nasFresh, claim, claimFresh, lock>>

\* Mutant of VisitDone: the pending claims of the node are not visited.
VisitDoneUnvisited(w) ==
    /\ job[w].pc = "visit"
    /\ Become(w, [job[w] EXCEPT !.pc = "place", !.todo = job[w].cas, !.visited = {}])
    /\ UNCHANGED <<nas, nasFresh, claim, claimFresh, pending, lock>>

\* The end of the iteration; rtdriver.allocate starts with an empty map.
VisitDone(w) ==
    /\ job[w].pc = "visit"
    /\ \A c \in Claims \ job[w].visited : pending[c][job[w].node] = {}
    /\ Become(w, [job[w] EXCEPT !.pc = "place", !.todo = job[w].cas, !.visited = {}])
    /\ UNCHANGED <<nas, nasFresh, claim, claimFresh, pending, lock>>

\* The local utilisation map of rtdriver.allocate.
PlannedUtil(j) == [x \in Cpus |-> j.crd.util[x] + Load[On(j.plan, x)]]

\* CPUs for the next claim; a claim the local copy already holds needs none.
PlaceClaim(w, c) ==
    /\ job[w].pc = "place"
    /\ IsNext(job[w].pod, job[w].todo, c)
    /\ \/ /\ c \in job[w].crd.claims
          /\ job[w].crd.cpus[c] # {}
          /\ Become(w, [job[w] EXCEPT !.todo = @ \ {c}])
       \/ /\ c \notin job[w].crd.claims
          /\ \E S \in WorstFit(PlannedUtil(job[w]), Util(c), Request[c].count) :
                Become(w, [job[w] EXCEPT !.todo = @ \ {c}, !.plan[c] = S])
    /\ UNCHANGED <<nas, nasFresh, claim, claimFresh, pending, lock>>

\* Not enough CPUs for one claim: the node is unsuitable for all, none is set.
PlaceFails(w, c) ==
    /\ job[w].pc = "place"
    /\ IsNext(job[w].pod, job[w].todo, c)
    /\ c \notin job[w].crd.claims
    /\ WorstFit(PlannedUtil(job[w]), Util(c), Request[c].count) = {}
    /\ lock' = [lock EXCEPT ![job[w].node] = None]
    /\ Become(w, [job[w] EXCEPT !.pc = "unsuitable", !.node = None, !.todo = {},
                                !.crd = EmptySpec, !.plan = NoCpus,
                                !.unsuitable = @ \cup ({job[w].node} \cap {job[w].sel})])
    /\ UNCHANGED <<nas, nasFresh, claim, claimFresh, pending>>

\* All claims have CPUs: those of the claims that needed some become pending.
PendingSet(w, c) ==
    /\ job[w].pc = "place" /\ job[w].todo = {}
    /\ IsNext(job[w].pod, {d \in Claims : job[w].plan[d] # {}}, c)
    /\ pending' = [pending EXCEPT ![c][job[w].node] = job[w].plan[c]]
    /\ Become(w, [job[w] EXCEPT !.plan[c] = {}])
    /\ UNCHANGED <<nas, nasFresh, claim, claimFresh, lock>>

UnsuitableDone(w) ==
    /\ job[w].pc = "place" /\ job[w].todo = {} /\ job[w].plan = NoCpus
    /\ lock' = [lock EXCEPT ![job[w].node] = None]
    /\ Become(w, [job[w] EXCEPT !.pc = "unsuitable", !.node = None, !.crd = EmptySpec])
    /\ UNCHANGED <<nas, nasFresh, claim, claimFresh, pending>>

----------------------------------------------------------------------------
(***************************************************************************)
(* Syncing a pod, second half: the framework allocates on the selected     *)
(* node if the driver did not call it unsuitable.                          *)
(***************************************************************************)

StartAllocate(w) ==
    /\ job[w].pc = "unsuitable" /\ job[w].nodes = {}
    /\ job[w].sel # None /\ job[w].sel \notin job[w].unsuitable
    /\ Become(w, [job[w] EXCEPT !.pc = "finalize", !.todo = job[w].cas,
                                !.unsuitable = {}])
    /\ UNCHANGED <<nas, nasFresh, claim, claimFresh, pending, lock>>

SyncPodDone(w) ==
    /\ \/ /\ job[w].pc = "unsuitable" /\ job[w].nodes = {}
          /\ job[w].sel = None \/ job[w].sel \in job[w].unsuitable
       \/ /\ job[w].pc = "allocate" /\ job[w].todo = {} /\ job[w].cas = {}
    /\ Return(w)
    /\ UNCHANGED <<nas, nasFresh, claim, pending, lock>>

\* A write of a claim by worker w makes every other copy of it stale.
WriteClaim(w, c, value) ==
    /\ claim' = [claim EXCEPT ![c] = value]
    /\ claimFresh' = [claimFresh EXCEPT ![c] = {w}]

\* The framework adds the driver's finalizer, unless its copy has it already.
\* The API server accepts no new finalizer on an object being deleted.
AddFinalizer(w, c) ==
    /\ job[w].pc = "finalize"
    /\ IsNext(job[w].pod, job[w].todo, c)
    /\ \/ /\ c \in job[w].finalized
          /\ UNCHANGED <<claim, claimFresh>>
       \/ /\ c \notin job[w].finalized
          /\ w \in claimFresh[c] /\ claim[c].phase # "delete"
          /\ WriteClaim(w, c, [claim[c] EXCEPT !.finalizer = TRUE])
    /\ Become(w, [job[w] EXCEPT !.todo = @ \ {c}])
    /\ UNCHANGED <<nas, nasFresh, pending, lock>>

\* The write is refused or fails: no allocation of this claim.
AddFinalizerFails(w, c) ==
    /\ job[w].pc = "finalize"
    /\ IsNext(job[w].pod, job[w].todo, c)
    /\ c \notin job[w].finalized
    /\ w \notin claimFresh[c] \/ claim[c].phase = "delete" \/ "api" \in Faults
    /\ Become(w, [job[w] EXCEPT !.todo = @ \ {c}, !.cas = @ \ {c}])
    /\ UNCHANGED <<nas, nasFresh, claim, claimFresh, pending, lock>>

FinalizersAdded(w) ==
    /\ job[w].pc = "finalize" /\ job[w].todo = {}
    /\ Become(w, [job[w] EXCEPT !.pc = "allocate", !.todo = job[w].cas,
                                !.finalized = {}])
    /\ UNCHANGED <<nas, nasFresh, claim, claimFresh, pending, lock>>

\* Mutant of AllocateGet: the test for an entry of the claim is left out.
AllocateGetAgain(w, c) ==
    LET n == job[w].sel IN
    /\ job[w].pc = "allocate"
    /\ IsNext(job[w].pod, job[w].todo, c)
    /\ lock[n] = None
    /\ nas[n].ready
    /\ lock' = [lock EXCEPT ![n] = w]
    /\ Become(w, [job[w] EXCEPT !.pc = "exists", !.node = n, !.claim = c,
                                !.crd = nas[n].spec])
    /\ UNCHANGED <<nas, nasFresh, claim, claimFresh, pending>>

\* allocate: lock the selected node and read its NAS.
AllocateGet(w, c) ==
    LET n == job[w].sel IN
    /\ job[w].pc = "allocate"
    /\ IsNext(job[w].pod, job[w].todo, c)
    /\ lock[n] = None
    /\ nas[n].ready /\ c \notin nas[n].spec.claims
    /\ lock' = [lock EXCEPT ![n] = w]
    /\ Become(w, [job[w] EXCEPT !.pc = "exists", !.node = n, !.claim = c,
                                !.crd = nas[n].spec])
    /\ UNCHANGED <<nas, nasFresh, claim, claimFresh, pending>>

\* The NAS already records the claim: success, the pending entries stay.
AllocateExists(w, c) ==
    LET n == job[w].sel IN
    /\ job[w].pc = "allocate"
    /\ IsNext(job[w].pod, job[w].todo, c)
    /\ lock[n] = None
    /\ nas[n].ready /\ c \in nas[n].spec.claims
    /\ Become(w, [job[w] EXCEPT !.todo = @ \ {c}])
    /\ UNCHANGED <<nas, nasFresh, claim, claimFresh, pending, lock>>

AllocateNotReady(w, c) ==
    LET n == job[w].sel IN
    /\ job[w].pc = "allocate"
    /\ IsNext(job[w].pod, job[w].todo, c)
    /\ lock[n] = None
    /\ ~nas[n].ready \/ "api" \in Faults
    /\ Become(w, [job[w] EXCEPT !.todo = @ \ {c}, !.cas = @ \ {c}])
    /\ UNCHANGED <<nas, nasFresh, claim, claimFresh, pending, lock>>

\* Mutant of AllocatePending: nobody asks.
AllocatePendingUnasked(w) ==
    /\ job[w].pc = "exists"
    /\ Become(w, [job[w] EXCEPT !.pc = "take"])
    /\ UNCHANGED <<nas, nasFresh, claim, claimFresh, pending, lock>>

\* rtdriver.Allocate asks whether the claim is pending on the node.
AllocatePending(w) ==
    /\ job[w].pc = "exists"
    /\ pending[job[w].claim][job[w].node] # {}
    /\ Become(w, [job[w] EXCEPT !.pc = "take"])
    /\ UNCHANGED <<nas, nasFresh, claim, claimFresh, pending, lock>>

\* The claim's allocation ends with an error; the others go on.
DropClaim(w) ==
    /\ lock' = [lock EXCEPT ![job[w].node] = None]
    /\ Become(w, [job[w] EXCEPT !.pc = "allocate", !.node = None, !.claim = None,
                                !.crd = EmptySpec, !.tries = 0,
                                !.todo = @ \ {job[w].claim}, !.cas = @ \ {job[w].claim}])

AllocateNotPending(w) ==
    /\ job[w].pc = "exists"
    /\ pending[job[w].claim][job[w].node] = {}
    /\ DropClaim(w)
    /\ UNCHANGED <<nas, nasFresh, claim, claimFresh, pending>>

\* Mutant of AllocateTake: the node's mutex is released before the update.
AllocateTakeUnlocked(w) ==
    /\ job[w].pc = "take"
    /\ Become(w, [job[w] EXCEPT !.pc = "updateGet", !.tries = 0,
                                !.crd = AddClaim(@, job[w].claim, pending[job[w].claim][job[w].node])])
    /\ lock' = [lock EXCEPT ![job[w].node] = None]
    /\ UNCHANGED <<nas, nasFresh, claim, claimFresh, pending>>

\* A second lock of the pending allocations reads the entry, and finds a nil
\* RtCpu if it is gone by now.
AllocateTake(w) ==
    /\ job[w].pc = "take"
    /\ Become(w, [job[w] EXCEPT !.pc = "updateGet", !.tries = 0,
                                !.crd = AddClaim(@, job[w].claim, pending[job[w].claim][job[w].node])])
    /\ UNCHANGED <<nas, nasFresh, claim, claimFresh, pending, lock>>

\* Mutant of AllocateSuccess: it drops what is pending for any claim.
AllocateSuccessDropsAll(w) ==
    /\ job[w].pc = "updated" /\ job[w].pod # None
    /\ pending' = [c \in Claims |-> NotPending]
    /\ lock' = [lock EXCEPT ![job[w].node] = None]
    /\ Become(w, [job[w] EXCEPT !.pc = "allocate", !.node = None, !.claim = None,
                                !.crd = EmptySpec, !.tries = 0,
                                !.todo = @ \ {job[w].claim}])
    /\ UNCHANGED <<nas, nasFresh, claim, claimFresh>>

\* The NAS is written: onSuccess drops the pending entries on all nodes.
AllocateSuccess(w) ==
    /\ job[w].pc = "updated" /\ job[w].pod # None
    /\ pending' = [pending EXCEPT ![job[w].claim] = NotPending]
    /\ lock' = [lock EXCEPT ![job[w].node] = None]
    /\ Become(w, [job[w] EXCEPT !.pc = "allocate", !.node = None, !.claim = None,
                                !.crd = EmptySpec, !.tries = 0,
                                !.todo = @ \ {job[w].claim}])
    /\ UNCHANGED <<nas, nasFresh, claim, claimFresh>>

\* Mutant of AllocateFails: the error of Update is not looked at.
AllocateFailsUnnoticed(w) ==
    /\ job[w].pc = "updateFailed" /\ job[w].pod # None
    /\ pending' = [pending EXCEPT ![job[w].claim] = NotPending]
    /\ lock' = [lock EXCEPT ![job[w].node] = None]
    /\ Become(w, [job[w] EXCEPT !.pc = "allocate", !.node = None, !.claim = None,
                                !.crd = EmptySpec, !.tries = 0,
                                !.todo = @ \ {job[w].claim}])
    /\ UNCHANGED <<nas, nasFresh, claim, claimFresh>>

\* Mutant of AllocateFails: the mutex is released on success only.
AllocateFailsLocked(w) ==
    /\ job[w].pc = "updateFailed" /\ job[w].pod # None
    /\ Become(w, [job[w] EXCEPT !.pc = "allocate", !.node = None, !.claim = None,
                                !.crd = EmptySpec, !.tries = 0,
                                !.todo = @ \ {job[w].claim}, !.cas = @ \ {job[w].claim}])
    /\ UNCHANGED <<nas, nasFresh, claim, claimFresh, pending, lock>>

AllocateFails(w) ==
    /\ job[w].pc = "updateFailed" /\ job[w].pod # None
    /\ DropClaim(w)
    /\ UNCHANGED <<nas, nasFresh, claim, claimFresh, pending>>

\* buildAllocationResult: the allocation is one on the node of that name.
AllocatedOn(status, n) == [status EXCEPT !.node = n]

\* The framework stores the allocation in the claim's status.
SetClaimStatus(w, c) ==
    /\ job[w].pc = "allocate" /\ job[w].todo = {}
    /\ IsNext(job[w].pod, job[w].cas, c)
    /\ w \in claimFresh[c]
    /\ WriteClaim(w, c, AllocatedOn(claim[c], job[w].sel))
    /\ Become(w, [job[w] EXCEPT !.cas = @ \ {c}])
    /\ UNCHANGED <<nas, nasFresh, pending, lock>>

SetClaimStatusFails(w, c) ==
    /\ job[w].pc = "allocate" /\ job[w].todo = {}
    /\ IsNext(job[w].pod, job[w].cas, c)
    /\ w \notin claimFresh[c] \/ "api" \in Faults
    /\ Become(w, [job[w] EXCEPT !.cas = @ \ {c}])
    /\ UNCHANGED <<nas, nasFresh, claim, claimFresh, pending, lock>>

----------------------------------------------------------------------------
(***************************************************************************)
(* Client.Update, shared by allocate and Deallocate: up to MaxRetries      *)
(* times, read the object for its resourceVersion and overwrite its spec   *)
(* with the local copy.                                                    *)
(***************************************************************************)

\* Mutant of UpdateGet: each attempt adds the claim to the object it has read.
UpdateGetReapplies(w) ==
    LET c == job[w].claim IN
    /\ job[w].pc = "updateGet"
    /\ nasFresh' = [nasFresh EXCEPT ![job[w].node] = @ \cup {w}]
    /\ Become(w, [job[w] EXCEPT !.pc = "updatePut",
                      !.crd = IF job[w].pod = None THEN @
                      ELSE AddClaim(nas[job[w].node].spec, c, @.cpus[c])])
    /\ UNCHANGED <<nas, claim, claimFresh, pending, lock>>

UpdateGet(w) ==
    /\ job[w].pc = "updateGet"
    /\ nasFresh' = [nasFresh EXCEPT ![job[w].node] = @ \cup {w}]
    /\ Become(w, [job[w] EXCEPT !.pc = "updatePut"])
    /\ UNCHANGED <<nas, claim, claimFresh, pending, lock>>

\* A failing read ends the loop.
UpdateGetFails(w) ==
    /\ job[w].pc = "updateGet"
    /\ "api" \in Faults
    /\ Become(w, [job[w] EXCEPT !.pc = "updateFailed"])
    /\ UNCHANGED <<nas, nasFresh, claim, claimFresh, pending, lock>>

\* The API server stores the spec if the resourceVersion is the current one.
UpdatePut(w) ==
    LET n == job[w].node IN
    /\ job[w].pc = "updatePut"
    /\ w \in nasFresh[n]
    /\ nas' = [nas EXCEPT ![n].spec = job[w].crd]
    /\ nasFresh' = [nasFresh EXCEPT ![n] = {}]
    /\ Become(w, [job[w] EXCEPT !.pc = "updated"])
    /\ UNCHANGED <<claim, claimFresh, pending, lock>>

\* Mutant of CountTry: i <= maxRetries.
CountTryOnceMore(w) ==
    Become(w, [job[w] EXCEPT !.tries = @ + 1,
                             !.pc = IF job[w].tries < MaxRetries THEN "updateGet"
                             ELSE "updateFailed"])

\* A failed attempt, whatever the error, leads to another or out of the loop.
CountTry(w) ==
    Become(w, [job[w] EXCEPT !.tries = @ + 1,
                             !.pc = IF job[w].tries + 1 < MaxRetries THEN "updateGet"
                             ELSE "updateFailed"])

UpdateConflict(w) ==
    /\ job[w].pc = "updatePut"
    /\ w \notin nasFresh[job[w].node]
    /\ CountTry(w)
    /\ UNCHANGED <<nas, nasFresh, claim, claimFresh, pending, lock>>

\* Another error of the API server, or an answer lost after the write.
UpdateError(w) ==
    LET n == job[w].node IN
    /\ job[w].pc = "updatePut"
    /\ "api" \in Faults
    /\ CountTry(w)
    /\ \/ /\ nasFresh' = [nasFresh EXCEPT ![n] = @ \ {w}]
          /\ UNCHANGED nas
       \/ /\ w \in nasFresh[n]
          /\ nas' = [nas EXCEPT ![n].spec = job[w].crd]
          /\ nasFresh' = [nasFresh EXCEPT ![n] = {}]
    /\ UNCHANGED <<claim, claimFresh, pending, lock>>

----------------------------------------------------------------------------
(***************************************************************************)
(* Syncing a claim: Deallocate, then the status, then the finalizer.       *)
(***************************************************************************)

\* getSelectedNode: the node of the allocation in a claim's status, if it has one.
SelectedNode(c) == claim[c].node

\* Mutant of SyncClaim: the claim may still be wanted.
SyncClaimInUse(w, c) ==
    /\ job[w].pc = "idle"
    /\ \A v \in Workers : ~(job[v].pod = None /\ job[v].claim = c)
    /\ claim[c].finalizer
    /\ Become(w, [Idle EXCEPT !.pc = IF SelectedNode(c) = None THEN "unfinalize" ELSE "dealloc",
                              !.claim = c, !.sel = SelectedNode(c)])
    /\ claimFresh' = [claimFresh EXCEPT ![c] = @ \cup {w}]
    /\ UNCHANGED <<nas, nasFresh, claim, pending, lock>>

\* The framework's syncClaim for a claim that nobody uses any more.  Without an
\* allocation in its copy of the status, Deallocate returns at once.
SyncClaim(w, c) ==
    /\ job[w].pc = "idle"
    /\ \A v \in Workers : ~(job[v].pod = None /\ job[v].claim = c)
    /\ claim[c].phase \in {"deallocate", "delete"} /\ claim[c].finalizer
    /\ Become(w, [Idle EXCEPT !.pc = IF SelectedNode(c) = None THEN "unfinalize" ELSE "dealloc",
                              !.claim = c, !.sel = SelectedNode(c)])
    /\ claimFresh' = [claimFresh EXCEPT ![c] = @ \cup {w}]
    /\ UNCHANGED <<nas, nasFresh, claim, pending, lock>>

\* Mutant of DeallocateGet: a claim that is not in the NAS is an error.
DeallocateGetStrict(w) ==
    LET n == job[w].sel IN
    /\ job[w].pc = "dealloc"
    /\ lock[n] = None
    /\ IF job[w].claim \in nas[n].spec.claims
         THEN /\ lock' = [lock EXCEPT ![n] = w]
              /\ Become(w, [job[w] EXCEPT !.pc = "latest", !.node = n])
         ELSE /\ Become(w, Idle)
              /\ UNCHANGED lock
    /\ UNCHANGED <<nas, nasFresh, claim, claimFresh, pending>>

\* Lock the node; the first read decides whether there is anything to do.
DeallocateGet(w) ==
    LET n == job[w].sel IN
    /\ job[w].pc = "dealloc"
    /\ lock[n] = None
    /\ IF job[w].claim \in nas[n].spec.claims
         THEN /\ lock' = [lock EXCEPT ![n] = w]
              /\ Become(w, [job[w] EXCEPT !.pc = "latest", !.node = n])
         ELSE /\ Become(w, [job[w] EXCEPT !.pc = "clear"])
              /\ UNCHANGED lock
    /\ UNCHANGED <<nas, nasFresh, claim, claimFresh, pending>>

\* The second read is the one that counts.
DeallocateLatest(w) ==
    LET n == job[w].node IN
    /\ job[w].pc = "latest"
    /\ nas[n].spec.cpus[job[w].claim] # {}
    /\ Become(w, [job[w] EXCEPT !.pc = "release", !.crd = nas[n].spec])
    /\ UNCHANGED <<nas, nasFresh, claim, claimFresh, pending, lock>>

\* An entry without RtCpu has an unknown type, and a read may fail.
DeallocateFails(w) ==
    /\ \/ /\ job[w].pc = "latest"
          /\ nas[job[w].node].spec.cpus[job[w].claim] = {} \/ "api" \in Faults
       \/ /\ job[w].pc = "updateFailed" /\ job[w].pod = None
    /\ lock' = [lock EXCEPT ![job[w].node] = None]
    /\ Return(w)
    /\ UNCHANGED <<nas, nasFresh, claim, pending>>

\* rtdriver.Deallocate, then the claim's utilisation and its entry.
DeallocateRelease(w) ==
    /\ job[w].pc = "release"
    /\ pending' = [pending EXCEPT ![job[w].claim] = NotPending]
    /\ Become(w, [job[w] EXCEPT !.pc = "updateGet", !.tries = 0,
                                !.crd = RemoveClaim(@, job[w].claim)])
    /\ UNCHANGED <<nas, nasFresh, claim, claimFresh, lock>>

DeallocateDone(w) ==
    /\ job[w].pc = "updated" /\ job[w].pod = None
    /\ lock' = [lock EXCEPT ![job[w].node] = None]
    /\ Become(w, [job[w] EXCEPT !.pc = "clear", !.node = None, !.crd = EmptySpec,
                                !.tries = 0])
    /\ UNCHANGED <<nas, nasFresh, claim, claimFresh, pending>>

\* The framework clears the allocation and the request to deallocate it.
ClearStatus(w) ==
    LET c == job[w].claim IN
    /\ job[w].pc = "clear"
    /\ w \in claimFresh[c]
    /\ WriteClaim(w, c, [claim[c] EXCEPT !.node = None,
                           !.phase = IF @ = "deallocate" THEN "live" ELSE @])
    /\ Become(w, [job[w] EXCEPT !.pc = "unfinalize"])
    /\ UNCHANGED <<nas, nasFresh, pending, lock>>

\* Without its last finalizer a deleted claim disappears.
RemoveFinalizer(w) ==
    LET c == job[w].claim IN
    /\ job[w].pc = "unfinalize"
    /\ w \in claimFresh[c]
    /\ claim' = [claim EXCEPT ![c] = [claim[c] EXCEPT !.finalizer = FALSE,
                                        !.phase = IF @ = "delete" THEN "gone" ELSE @]]
    /\ Become(w, Idle)
    /\ claimFresh' = [claimFresh EXCEPT ![c] = {}]
    /\ UNCHANGED <<nas, nasFresh, pending, lock>>

ClaimWriteFails(w) ==
    /\ job[w].pc \in {"clear", "unfinalize"}
    /\ w \notin claimFresh[job[w].claim] \/ "api" \in Faults
    /\ Return(w)
    /\ UNCHANGED <<nas, nasFresh, claim, pending, lock>>

----------------------------------------------------------------------------
(***************************************************************************)
(* What the controller does not control.                                   *)
(***************************************************************************)

\* A user or a garbage collector deletes the claim; finalizers keep it.
DeleteClaim(c) ==
    /\ claim[c].phase \in {"live", "deallocate"}
    /\ claim' = [claim EXCEPT ![c].phase = IF claim[c].finalizer THEN "delete" ELSE "gone"]
    /\ claimFresh' = [claimFresh EXCEPT ![c] = {}]
    /\ UNCHANGED <<nas, nasFresh, pending, lock, job>>

\* The scheduler asks for the deallocation of a claim that no pod can use where it is.
RequestDeallocate(c) ==
    /\ claim[c].phase = "live" /\ claim[c].node # None
    /\ claim' = [claim EXCEPT ![c].phase = "deallocate"]
    /\ claimFresh' = [claimFresh EXCEPT ![c] = {}]
    /\ UNCHANGED <<nas, nasFresh, pending, lock, job>>

\* The plugin's init container and preStop hook, and its start, set the status:
\* a write of the object that keeps the spec.
SetStatus(n) ==
    /\ "status" \in Faults
    /\ nas' = [nas EXCEPT ![n].ready = ~@]
    /\ nasFresh' = [nasFresh EXCEPT ![n] = {}]
    /\ UNCHANGED <<claim, claimFresh, pending, lock, job>>

\* The process ends and starts anew: only the API server remembers.
Restart ==
    /\ nasFresh' = [n \in Nodes |-> nasFresh[n] \ Workers]
    /\ claimFresh' = [c \in Claims |-> {}]
    /\ pending' = [c \in Claims |-> NotPending]
    /\ lock' = [n \in Nodes |-> None]
    /\ job' = [w \in Workers |-> Idle]
    /\ UNCHANGED <<nas, claim>>

Crash ==
    /\ "crash" \in Faults
    /\ \E w \in Workers : job[w].pc # "idle"
    /\ Restart

\* rtdriver.allocate dereferences the RtCpu of a claim that the NAS records
\* without one: the worker's panic ends the process.
Panic(w, c) ==
    /\ job[w].pc = "place"
    /\ IsNext(job[w].pod, job[w].todo, c)
    /\ c \in job[w].crd.claims /\ job[w].crd.cpus[c] = {}
    /\ Restart

----------------------------------------------------------------------------
\* A worker takes a key from the queue.
Starts(w) ==
    \/ \E p \in Pods : SyncPod(w, p)
    \/ \E c \in Claims : SyncClaim(w, c)

UnsuitableStep(w) ==
    \/ \E n \in Nodes : UnsuitableGet(w, n) \/ UnsuitableNotReady(w, n)
    \/ \E c \in Claims : \/ VisitPending(w, c) \/ PlaceClaim(w, c) \/ PlaceFails(w, c)
                         \/ PendingSet(w, c) \/ Panic(w, c)
    \/ VisitRemove(w) \/ VisitDone(w) \/ UnsuitableDone(w)

AllocateStep(w) ==
    \/ StartAllocate(w) \/ SyncPodDone(w) \/ FinalizersAdded(w)
    \/ \E c \in Claims : \/ AddFinalizer(w, c) \/ AddFinalizerFails(w, c)
                         \/ AllocateGet(w, c) \/ AllocateExists(w, c) \/ AllocateNotReady(w, c)
                         \/ SetClaimStatus(w, c) \/ SetClaimStatusFails(w, c)
    \/ AllocatePending(w) \/ AllocateNotPending(w) \/ AllocateTake(w)
    \/ AllocateSuccess(w) \/ AllocateFails(w)

UpdateStep(w) ==
    UpdateGet(w) \/ UpdateGetFails(w) \/ UpdatePut(w) \/ UpdateConflict(w) \/ UpdateError(w)

ClaimStep(w) ==
    \/ DeallocateGet(w) \/ DeallocateLatest(w) \/ DeallocateFails(w) \/ DeallocateRelease(w)
    \/ DeallocateDone(w) \/ ClearStatus(w) \/ RemoveFinalizer(w) \/ ClaimWriteFails(w)

Continues(w) ==
    UnsuitableStep(w) \/ AllocateStep(w) \/ UpdateStep(w) \/ ClaimStep(w)

Environment ==
    \/ \E c \in Claims : DeleteClaim(c) \/ RequestDeallocate(c)
    \/ \E n \in Nodes : SetStatus(n)
    \/ Crash

Next ==
    \/ \E w \in Workers : Starts(w) \/ Continues(w)
    \/ Environment

Spec == Init /\ [][Next]_vars

\* A worker goes on with its job, past a mutex that others take as well (Go's
\* mutex hands itself to a waiter that starves); the queue retries a claim's
\* sync, with a growing delay, until it succeeds.  Nothing makes a pod sync or
\* the environment act.
Fairness ==
    /\ \A w \in Workers : SF_vars(Continues(w))
    /\ \A c \in Claims : SF_vars(\E w \in Workers : SyncClaim(w, c))

FairSpec == Spec /\ Fairness

----------------------------------------------------------------------------
(***************************************************************************)
(* Properties.                                                             *)
(***************************************************************************)

\* The utilisation the NAS publishes for a CPU (AllocatedUtilToCpu, on which
\* every later placement rests) is the sum over the claims allocated to it,
\* through every mix of allocations, failed updates, retries and deallocations.
UtilConserved == \A n \in Nodes : Conserved(nas[n].spec)

\* Claims that have CPU x of node n in the NAS or are promised it in memory.
Reserved(n, x) ==
    On(nas[n].spec.cpus, x) \cup {c \in Claims : x \in pending[c][n]}

\* No CPU is promised beyond the threshold of cpuPartitioning, allocations and
\* pending allocations of concurrently synced pods together.
NoOvercommit == \A n \in Nodes, x \in Cpus : Load[Reserved(n, x)] < Threshold

\* A claim whose status says that it is allocated on a node is recorded in that
\* node's NAS until its release is asked for: the plugin finds it there.
StatusBacked ==
    \A c \in Claims : claim[c].phase = "live" /\ claim[c].node # None
                        => c \in nas[claim[c].node].spec.claims

\* An update never carries an old copy of what other workers wrote: while a
\* worker is about to overwrite the spec, its copy differs from the NAS in the
\* worker's own claim only.
NoLostUpdate ==
    \A w \in Workers :
       job[w].pc \in {"updateGet", "updatePut"} =>
          LET mine == job[w].claim
              stored == nas[job[w].node].spec
          IN  /\ job[w].crd.claims \ {mine} = stored.claims \ {mine}
              /\ \A c \in Claims \ {mine} : job[w].crd.cpus[c] = stored.cpus[c]

\* The CPUs recorded for a claim never change, and they are given up only
\* after the claim's deletion or deallocation was asked for.
AllocationKept ==
    [][\A n \in Nodes, c \in Claims :
          c \in nas[n].spec.claims =>
             \/ c \in nas'[n].spec.claims /\ nas'[n].spec.cpus[c] = nas[n].spec.cpus[c]
             \/ c \notin nas'[n].spec.claims /\ claim[c].phase # "live"]_vars

\* The abstract ledger that the NAS objects are, see module NodeLedger.
Books == INSTANCE NodeLedger WITH book <- [n \in Nodes |-> nas[n].spec]

\* Whatever is written to a NAS, first or in a retry, from a copy read long
\* before, is one claim entering or leaving the ledger as it is at that moment,
\* within the threshold: workers act on a node as if one after the other.
ImplementsLedger == Books!LedgerSpec

\* A claim in the NAS has as many CPUs as it asked for.
FullyAllocated ==
    \A n \in Nodes : \A c \in nas[n].spec.claims :
        Cardinality(nas[n].spec.cpus[c]) = Request[c].count

\* A claim that is gone has left every NAS: deleting the applications brings
\* the allocated claims back to where they were.
Drained ==
    \A c \in Claims : claim[c].phase = "gone" => \A n \in Nodes : c \notin nas[n].spec.claims

\* A worker that found the selected node suitable for a claim still has the
\* claim's reservation when it comes to allocate it, although it released the
\* node's mutex in between.
PromiseKept ==
    \A w \in Workers : job[w].pc \in {"exists", "take"}
                         => pending[job[w].claim][job[w].node] # {}

\* Deallocate refuses a claim recorded without CPUs, each time it is called: the
\* entry has no RtCpu and its type is unknown (driver.go:243-252).
Refused(c) ==
    claim[c].node # None
        /\ LET spec == nas[claim[c].node].spec
           IN  c \in spec.claims /\ spec.cpus[c] = {}

\* A deleted claim disappears once no pod that is still being scheduled has it
\* allocated again: its deallocation is not held up for ever, unless others keep
\* writing the status of the NAS, or two workers on two nodes have recorded the
\* claim without CPUs (the violation of FullyAllocated).
Released ==
    <>[][\A n \in Nodes : nas'[n].ready = nas[n].ready]_vars
       => \A c \in Claims :
             <>[](\A w \in Workers : c \notin job[w].cas)
                => (claim[c].phase = "delete" ~> claim[c].phase = "gone" \/ Refused(c))

\* No worker waits for ever for a node that others keep locking.
WorkersReturn == \A w \in Workers : job[w].pc # "idle" ~> job[w].pc = "idle"
=============================================================================
