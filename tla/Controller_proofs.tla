-------------------------- MODULE Controller_proofs --------------------------
(***************************************************************************)
(* Theorems about Controller, for any nodes, claims, workers and faults.   *)
(***************************************************************************)
EXTENDS Controller, UtilSums

----------------------------------------------------------------------------
(***************************************************************************)
(* Type correctness.  It needs to know which of its local variables a      *)
(* worker has set at each point of its job.                                *)
(***************************************************************************)

\* Where a worker has a node's NAS at hand; it holds that node's mutex then.
AtNode == {"visit", "remove", "place", "exists", "take", "latest", "release"} \cup UpdatePCs

Shape(j) ==
    /\ j.pc \in PodPCs => j.pod \in Pods
    /\ j.pc \in ClaimPCs => j.pod = None
    /\ j.pc \in AtNode => j.node \in Nodes
    /\ j.pc \in {"remove", "exists", "take"} \cup ClaimPCs \cup UpdatePCs => j.claim \in Claims
    /\ j.pc \in {"finalize", "allocate", "exists", "take", "dealloc"} => j.sel \in Nodes
    /\ j.pc \in UpdatePCs /\ j.pod # None => j.sel \in Nodes
    /\ j.pc \in {"updateGet", "updatePut"} => j.tries < MaxRetries

ShapeOK == \A w \in Workers : Shape(job[w])

TypeInv == TypeOK /\ ShapeOK

LEMMA IdleType == Idle \in JobType /\ Shape(Idle)
<1>1. 0 \in 0 .. MaxRetries
    BY MaxRetriesAssumption
<1> QED BY <1>1, EmptySpecType
        DEF Idle, JobType, Shape, PCs, PodPCs, ClaimPCs, UpdatePCs, AtNode

\* No attempt of Client.Update has been made, and one more is in bounds.
LEMMA TriesType ==
    /\ 0 \in 0 .. MaxRetries /\ 0 < MaxRetries
    /\ \A t \in 0 .. MaxRetries : t < MaxRetries => t + 1 \in 0 .. MaxRetries
BY MaxRetriesAssumption

LEMMA InitTypeInv == Init => TypeInv
BY IdleType, EmptySpecType, NoneAssumption
   DEF Init, ControllerInit, TypeInv, TypeOK, ShapeOK, ClaimType, NotPending

\* What a worker's new job has to satisfy.
LEMMA BecomeType ==
    ASSUME TypeInv, NEW w \in Workers, NEW j \in JobType, Shape(j), Become(w, j)
    PROVE  job' \in [Workers -> JobType] /\ ShapeOK'
BY DEF TypeInv, TypeOK, ShapeOK, Become

\* Jobs that differ from a well-formed one in few places.
LEMMA ShapeKept ==
    ASSUME NEW j \in JobType, Shape(j)
    PROVE  /\ \A T \in SUBSET Claims : Shape([j EXCEPT !.todo = T])
           /\ j.pc = "dealloc" => Shape([j EXCEPT !.pc = "clear"])
           /\ j.pc = "dealloc" => \A n \in Nodes : Shape([j EXCEPT !.pc = "latest", !.node = n])
<1>1. \A T \in SUBSET Claims : Shape([j EXCEPT !.todo = T])
    BY DEF JobType, Shape
<1>2. ASSUME j.pc = "dealloc"
      PROVE  /\ Shape([j EXCEPT !.pc = "clear"])
             /\ \A n \in Nodes : Shape([j EXCEPT !.pc = "latest", !.node = n])
    BY <1>2 DEF JobType, Shape, PodPCs, ClaimPCs, UpdatePCs, AtNode
<1> QED BY <1>1, <1>2

\* A claim keeps its type when the driver or the framework sets one of its fields.
LEMMA ClaimRecords ==
    ASSUME NEW r \in ClaimType
    PROVE  /\ [r EXCEPT !.finalizer = TRUE] \in ClaimType
           /\ \A n \in Nodes : [r EXCEPT !.node = n] \in ClaimType
           /\ [r EXCEPT !.node = None, !.phase = IF @ = "deallocate" THEN "live" ELSE @]
                 \in ClaimType
           /\ [r EXCEPT !.finalizer = FALSE, !.phase = IF @ = "delete" THEN "gone" ELSE @]
                 \in ClaimType
           /\ [r EXCEPT !.phase = IF r.finalizer THEN "delete" ELSE "gone"] \in ClaimType
           /\ [r EXCEPT !.phase = "deallocate"] \in ClaimType
<1>1. [r EXCEPT !.finalizer = TRUE] \in ClaimType
    BY DEF ClaimType
<1>2. \A n \in Nodes : [r EXCEPT !.node = n] \in ClaimType
    BY DEF ClaimType
<1>3. [r EXCEPT !.node = None, !.phase = IF @ = "deallocate" THEN "live" ELSE @] \in ClaimType
    BY DEF ClaimType
<1>4. [r EXCEPT !.finalizer = FALSE, !.phase = IF @ = "delete" THEN "gone" ELSE @] \in ClaimType
    BY DEF ClaimType
<1>5. [r EXCEPT !.phase = IF r.finalizer THEN "delete" ELSE "gone"] \in ClaimType
    BY DEF ClaimType
<1>6. [r EXCEPT !.phase = "deallocate"] \in ClaimType
    BY DEF ClaimType
<1> QED BY <1>1, <1>2, <1>3, <1>4, <1>5, <1>6

LEMMA StoredClaim ==
    ASSUME TypeInv
    PROVE  \A c \in Claims : claim[c] \in ClaimType
BY DEF TypeInv, TypeOK

LEMMA WriteClaimType ==
    ASSUME TypeInv, NEW w \in Workers, NEW c \in Claims, NEW v \in ClaimType,
           WriteClaim(w, c, v)
    PROVE  claim' \in [Claims -> ClaimType] /\ claimFresh' \in [Claims -> SUBSET Workers]
BY DEF WriteClaim, TypeInv, TypeOK

LEMMA ReturnType ==
    ASSUME TypeInv, NEW w \in Workers, Return(w)
    PROVE  /\ job' \in [Workers -> JobType] /\ ShapeOK'
           /\ claimFresh' \in [Claims -> SUBSET Workers]
<1>1. job' \in [Workers -> JobType] /\ ShapeOK'
    BY BecomeType, IdleType DEF Return
<1> QED BY <1>1 DEF Return, TypeInv, TypeOK

\* After a restart every worker is idle.
LEMMA RestartType ==
    ASSUME TypeInv, Restart
    PROVE  TypeInv'
<1>1. job' \in [Workers -> JobType] /\ ShapeOK'
    BY IdleType DEF Restart, ShapeOK
<1>2. NotPending \in [Nodes -> SUBSET Cpus]
    BY DEF NotPending
<1> QED BY <1>1, <1>2 DEF Restart, TypeInv, TypeOK

\* A worker takes a key from the queue.
LEMMA StartsType ==
    ASSUME TypeInv, NEW w \in Workers
    PROVE  Starts(w) => TypeInv'
<1>0. job[w] \in JobType /\ Shape(job[w])
    BY DEF TypeInv, TypeOK, ShapeOK
<1>1. ASSUME NEW p \in Pods, SyncPod(w, p) PROVE TypeInv'
  <2> DEFINE cas == {c \in ClaimsOf(p) : claim[c].node = None}
  <2>0. cas \subseteq Claims
      BY PodClaimsAssumption DEF ClaimsOf
  <2>1. PICK nodes \in SUBSET Nodes \ {{}} :
           \E sel \in nodes \cup {None} :
              Become(w, [Idle EXCEPT !.pc = "unsuitable", !.pod = p, !.sel = sel,
                                     !.nodes = nodes, !.cas = cas,
                                     !.finalized = {c \in cas : claim[c].finalizer}])
      BY <1>1 DEF SyncPod
  <2>6. PICK sel \in nodes \cup {None} :
              Become(w, [Idle EXCEPT !.pc = "unsuitable", !.pod = p, !.sel = sel,
                                     !.nodes = nodes, !.cas = cas,
                                     !.finalized = {c \in cas : claim[c].finalizer}])
      BY <2>1
  <2> DEFINE j == [Idle EXCEPT !.pc = "unsuitable", !.pod = p, !.sel = sel,
                               !.nodes = nodes, !.cas = cas,
                               !.finalized = {c \in cas : claim[c].finalizer}]
  <2>2. j \in JobType
    <3> HIDE DEF cas
    <3> QED BY <2>0, IdleType DEF JobType, PCs, PodPCs
  <2>3. Shape(j)
      BY IdleType DEF JobType, Shape, PodPCs, ClaimPCs, UpdatePCs, AtNode
  <2>4. job' \in [Workers -> JobType] /\ ShapeOK'
      BY <2>6, <2>2, <2>3, BecomeType
  <2>5. claimFresh' \in [Claims -> SUBSET Workers]
      BY <1>1 DEF SyncPod, TypeInv, TypeOK
  <2> QED BY <1>1, <2>4, <2>5 DEF SyncPod, TypeInv, TypeOK
<1>2. ASSUME NEW c \in Claims, SyncClaim(w, c) PROVE TypeInv'
  <2> DEFINE first == IF claim[c].node = None THEN "unfinalize" ELSE "dealloc"
             j == [Idle EXCEPT !.pc = first, !.claim = c, !.sel = claim[c].node]
  <2>1. claim[c].node \in Nodes \cup {None}
      BY DEF TypeInv, TypeOK, ClaimType
  <2>2. Become(w, j)
      BY <1>2 DEF SyncClaim, SelectedNode
  <2>3. first \in {"unfinalize", "dealloc"} /\ (first = "dealloc" => claim[c].node \in Nodes)
      BY <2>1
  <2> HIDE DEF first
  <2>4. j \in JobType
      BY <2>1, <2>3, IdleType DEF JobType, PCs, ClaimPCs
  <2>5. Idle.pod = None
      BY DEF Idle
  <2>6. Shape(j)
      BY <2>3, <2>5, IdleType DEF JobType, Shape, PodPCs, ClaimPCs, UpdatePCs, AtNode
  <2>7. job' \in [Workers -> JobType] /\ ShapeOK'
      BY <2>2, <2>4, <2>6, BecomeType
  <2> QED BY <1>2, <2>7 DEF SyncClaim, SelectedNode, TypeInv, TypeOK
<1> QED BY <1>1, <1>2 DEF Starts

\* UnsuitableNodes.
LEMMA UnsuitableType ==
    ASSUME TypeInv, NEW w \in Workers
    PROVE  UnsuitableStep(w) => TypeInv'
<1>0. job[w] \in JobType /\ Shape(job[w])
    BY DEF TypeInv, TypeOK, ShapeOK
<1>1. ASSUME NEW n \in Nodes, UnsuitableGet(w, n) PROVE TypeInv'
  <2>0. nas[n].spec \in SpecType
      BY DEF TypeInv, TypeOK
  <2> DEFINE j == [job[w] EXCEPT !.pc = "visit", !.node = n, !.nodes = @ \ {n},
                                   !.crd = nas[n].spec]
  <2>1. j \in JobType
      BY <1>0, <2>0 DEF JobType, PCs, PodPCs, ClaimPCs, UpdatePCs
  <2>2. Shape(j)
      BY <1>0, <1>1 DEF UnsuitableGet, JobType, Shape, PodPCs, ClaimPCs, UpdatePCs, AtNode
  <2>3. Become(w, j)
      BY <1>1 DEF UnsuitableGet
  <2>4. job' \in [Workers -> JobType] /\ ShapeOK'
      BY <2>1, <2>2, <2>3, BecomeType
  <2> QED BY <1>0, <1>1, <2>4 DEF UnsuitableGet, TypeInv, TypeOK
<1>2. ASSUME NEW n \in Nodes, UnsuitableNotReady(w, n) PROVE TypeInv'
  <2> DEFINE j == [job[w] EXCEPT !.nodes = @ \ {n},
                                   !.unsuitable = @ \cup ({n} \cap {job[w].sel})]
  <2>1. j \in JobType
      BY <1>0 DEF JobType, PCs, PodPCs, ClaimPCs, UpdatePCs
  <2>2. Shape(j)
      BY <1>0, <1>2 DEF UnsuitableNotReady, JobType, Shape, PodPCs, ClaimPCs, UpdatePCs, AtNode
  <2>3. Become(w, j)
      BY <1>2 DEF UnsuitableNotReady
  <2>4. job' \in [Workers -> JobType] /\ ShapeOK'
      BY <2>1, <2>2, <2>3, BecomeType
  <2> QED BY <1>0, <1>2, <2>4 DEF UnsuitableNotReady, TypeInv, TypeOK
<1>3. ASSUME NEW c \in Claims, VisitPending(w, c) PROVE TypeInv'
  <2> DEFINE old == c \in job[w].crd.claims
             merged == AddClaim(job[w].crd, c, pending[c][job[w].node])
  <2>0. merged \in SpecType
    <3>1. job[w].crd \in SpecType
        BY <1>0 DEF JobType
    <3>2. job[w].node \in Nodes
        BY <1>0, <1>3 DEF VisitPending, Shape, AtNode
    <3>3. pending[c][job[w].node] \in SUBSET Cpus
        BY <3>2 DEF TypeInv, TypeOK
    <3> QED BY <3>1, <3>3, AddClaimType
  <2> DEFINE j == [job[w] EXCEPT !.visited = @ \cup {c},
                                   !.pc = IF old THEN "remove" ELSE "visit",
                                   !.claim = IF old THEN c ELSE None,
                                   !.crd = IF old THEN @ ELSE merged]
  <2>1. j \in JobType
    <3>1. j.pc \in PCs /\ j.claim \in Claims \cup {None}
        BY <1>0 DEF JobType, PCs, PodPCs
    <3>2. j.crd \in SpecType
        BY <1>0, <2>0 DEF JobType
    <3>3. j.visited \in SUBSET Claims
        BY <1>0 DEF JobType
    <3> QED BY <1>0, <3>1, <3>2, <3>3 DEF JobType
  <2>2. Shape(j)
      BY <1>0, <1>3 DEF VisitPending, JobType, Shape, PodPCs, ClaimPCs, UpdatePCs, AtNode
  <2>3. Become(w, j)
      BY <1>3 DEF VisitPending
  <2>4. job' \in [Workers -> JobType] /\ ShapeOK'
      BY <2>1, <2>2, <2>3, BecomeType
  <2> QED BY <1>0, <1>3, <2>4 DEF VisitPending, TypeInv, TypeOK
<1>4. ASSUME VisitRemove(w) PROVE TypeInv'
  <2>0. NotPending \in [Nodes -> SUBSET Cpus]
      BY DEF NotPending
  <2> DEFINE j == [job[w] EXCEPT !.pc = "visit", !.claim = None]
  <2>1. j \in JobType
      BY <1>0 DEF JobType, PCs, PodPCs, ClaimPCs, UpdatePCs
  <2>2. Shape(j)
      BY <1>0, <1>4 DEF VisitRemove, JobType, Shape, PodPCs, ClaimPCs, UpdatePCs, AtNode
  <2>3. Become(w, j)
      BY <1>4 DEF VisitRemove
  <2>4. job' \in [Workers -> JobType] /\ ShapeOK'
      BY <2>1, <2>2, <2>3, BecomeType
  <2> QED BY <1>0, <1>4, <2>4, <2>0 DEF VisitRemove, TypeInv, TypeOK
<1>5. ASSUME VisitDone(w) PROVE TypeInv'
  <2> DEFINE j == [job[w] EXCEPT !.pc = "place", !.todo = job[w].cas, !.visited = {}]
  <2>1. j \in JobType
      BY <1>0 DEF JobType, PCs, PodPCs, ClaimPCs, UpdatePCs
  <2>2. Shape(j)
      BY <1>0, <1>5 DEF VisitDone, JobType, Shape, PodPCs, ClaimPCs, UpdatePCs, AtNode
  <2>3. Become(w, j)
      BY <1>5 DEF VisitDone
  <2>4. job' \in [Workers -> JobType] /\ ShapeOK'
      BY <2>1, <2>2, <2>3, BecomeType
  <2> QED BY <1>0, <1>5, <2>4 DEF VisitDone, TypeInv, TypeOK
<1>6. ASSUME NEW c \in Claims, PlaceClaim(w, c) PROVE TypeInv'
  <2>0. job[w].pc = "place"
      BY <1>6 DEF PlaceClaim
  <2>1. ASSUME Become(w, [job[w] EXCEPT !.todo = @ \ {c}])
        PROVE  job' \in [Workers -> JobType] /\ ShapeOK'
    <3>1. [job[w] EXCEPT !.todo = @ \ {c}] \in JobType
        BY <1>0 DEF JobType
    <3>2. Shape([job[w] EXCEPT !.todo = @ \ {c}])
        BY <1>0, ShapeKept DEF JobType
    <3> QED BY <2>1, <3>1, <3>2, BecomeType
  <2>2. ASSUME NEW S \in WorstFit(PlannedUtil(job[w]), Util(c), Request[c].count),
               Become(w, [job[w] EXCEPT !.todo = @ \ {c}, !.plan[c] = S])
        PROVE  job' \in [Workers -> JobType] /\ ShapeOK'
    <3> DEFINE j == [job[w] EXCEPT !.todo = @ \ {c}, !.plan[c] = S]
    <3>1. S \in SUBSET Cpus
        BY DEF WorstFit, Fitting, PlannedUtil
    <3>2. [job[w].plan EXCEPT ![c] = S] \in [Claims -> SUBSET Cpus]
        BY <1>0, <3>1 DEF JobType
    <3>3. j \in JobType
        BY <1>0, <3>2 DEF JobType
    <3>4. Shape(j)
        BY <1>0, <2>0 DEF JobType, Shape, PodPCs, ClaimPCs, UpdatePCs, AtNode
    <3> QED BY <2>2, <3>3, <3>4, BecomeType
  <2> QED BY <1>6, <2>1, <2>2 DEF PlaceClaim, TypeInv, TypeOK
<1>7. ASSUME NEW c \in Claims, PlaceFails(w, c) PROVE TypeInv'
  <2>0. job[w].node \in Nodes
      BY <1>0, <1>7 DEF PlaceFails, Shape, AtNode
  <2> DEFINE j == [job[w] EXCEPT !.pc = "unsuitable", !.node = None, !.todo = {},
                                   !.crd = EmptySpec, !.plan = NoCpus,
                                   !.unsuitable = @ \cup ({job[w].node} \cap {job[w].sel})]
  <2>1. j \in JobType
      BY <1>0, <2>0, EmptySpecType DEF JobType, PCs, PodPCs, ClaimPCs, UpdatePCs
  <2>2. Shape(j)
      BY <1>0, <1>7 DEF PlaceFails, JobType, Shape, PodPCs, ClaimPCs, UpdatePCs, AtNode
  <2>3. Become(w, j)
      BY <1>7 DEF PlaceFails
  <2>4. job' \in [Workers -> JobType] /\ ShapeOK'
      BY <2>1, <2>2, <2>3, BecomeType
  <2> QED BY <1>0, <1>7, <2>4, <2>0 DEF PlaceFails, TypeInv, TypeOK
<1>8. ASSUME NEW c \in Claims, PendingSet(w, c) PROVE TypeInv'
  <2>0. [job[w].plan EXCEPT ![c] = {}] \in [Claims -> SUBSET Cpus] /\ job[w].plan[c] \in SUBSET Cpus
      BY <1>0 DEF JobType
  <2> DEFINE j == [job[w] EXCEPT !.plan[c] = {}]
  <2>1. j \in JobType
      BY <1>0, <2>0 DEF JobType, PCs, PodPCs, ClaimPCs, UpdatePCs
  <2>2. Shape(j)
      BY <1>0, <1>8 DEF PendingSet, JobType, Shape, PodPCs, ClaimPCs, UpdatePCs, AtNode
  <2>3. Become(w, j)
      BY <1>8 DEF PendingSet
  <2>4. job' \in [Workers -> JobType] /\ ShapeOK'
      BY <2>1, <2>2, <2>3, BecomeType
  <2> QED BY <1>0, <1>8, <2>4, <2>0 DEF PendingSet, TypeInv, TypeOK
<1>9. ASSUME UnsuitableDone(w) PROVE TypeInv'
  <2> DEFINE j == [job[w] EXCEPT !.pc = "unsuitable", !.node = None, !.crd = EmptySpec]
  <2>1. j \in JobType
      BY <1>0, EmptySpecType DEF JobType, PCs, PodPCs, ClaimPCs, UpdatePCs
  <2>2. Shape(j)
      BY <1>0, <1>9 DEF UnsuitableDone, JobType, Shape, PodPCs, ClaimPCs, UpdatePCs, AtNode
  <2>3. Become(w, j)
      BY <1>9 DEF UnsuitableDone
  <2>4. job' \in [Workers -> JobType] /\ ShapeOK'
      BY <2>1, <2>2, <2>3, BecomeType
  <2> QED BY <1>0, <1>9, <2>4 DEF UnsuitableDone, TypeInv, TypeOK
<1>10. ASSUME NEW c \in Claims, Panic(w, c) PROVE TypeInv'
  <2> QED BY <1>10, RestartType DEF Panic
<1> QED BY <1>1, <1>2, <1>3, <1>4, <1>5, <1>6, <1>7, <1>8, <1>9, <1>10 DEF UnsuitableStep

\* The end of a claim's allocation with an error.
LEMMA DropClaimType ==
    ASSUME TypeInv, NEW w \in Workers, DropClaim(w), job[w].node \in Nodes,
           job[w].pod \in Pods, job[w].sel \in Nodes
    PROVE  /\ job' \in [Workers -> JobType] /\ ShapeOK'
           /\ lock' \in [Nodes -> Workers \cup {None}]
<1> DEFINE j == [job[w] EXCEPT !.pc = "allocate", !.node = None, !.claim = None,
                               !.crd = EmptySpec, !.tries = 0,
                               !.todo = @ \ {job[w].claim}, !.cas = @ \ {job[w].claim}]
<1>0. job[w] \in JobType
    BY DEF TypeInv, TypeOK
<1>1. j \in JobType
    BY <1>0, EmptySpecType, TriesType DEF JobType, PCs, PodPCs
<1>2. Shape(j)
    BY <1>0 DEF JobType, Shape, PodPCs, ClaimPCs, UpdatePCs, AtNode
<1>3. job' \in [Workers -> JobType] /\ ShapeOK'
    BY <1>1, <1>2, BecomeType DEF DropClaim
<1> QED BY <1>3 DEF DropClaim, TypeInv, TypeOK

\* Allocate.
LEMMA AllocateType ==
    ASSUME TypeInv, NEW w \in Workers
    PROVE  AllocateStep(w) => TypeInv'
<1>0. job[w] \in JobType /\ Shape(job[w])
    BY DEF TypeInv, TypeOK, ShapeOK
<1>1. ASSUME StartAllocate(w) PROVE TypeInv'
  <2> DEFINE j == [job[w] EXCEPT !.pc = "finalize", !.todo = job[w].cas,
                                   !.unsuitable = {}]
  <2>1. j \in JobType
      BY <1>0 DEF JobType, PCs, PodPCs, ClaimPCs, UpdatePCs
  <2>2. Shape(j)
      BY <1>0, <1>1 DEF StartAllocate, JobType, Shape, PodPCs, ClaimPCs, UpdatePCs, AtNode
  <2>3. Become(w, j)
      BY <1>1 DEF StartAllocate
  <2>4. job' \in [Workers -> JobType] /\ ShapeOK'
      BY <2>1, <2>2, <2>3, BecomeType
  <2> QED BY <1>0, <1>1, <2>4 DEF StartAllocate, TypeInv, TypeOK
<1>2. ASSUME SyncPodDone(w) PROVE TypeInv'
  <2> QED BY <1>2, ReturnType DEF SyncPodDone, TypeInv, TypeOK
<1>3. ASSUME NEW c \in Claims, AddFinalizer(w, c) PROVE TypeInv'
  <2>0. [claim[c] EXCEPT !.finalizer = TRUE] \in ClaimType
      BY StoredClaim, ClaimRecords
  <2>5. claim' \in [Claims -> ClaimType] /\ claimFresh' \in [Claims -> SUBSET Workers]
    <3>1. CASE UNCHANGED <<claim, claimFresh>>
        BY <3>1 DEF TypeInv, TypeOK
    <3>2. CASE WriteClaim(w, c, [claim[c] EXCEPT !.finalizer = TRUE])
        BY <2>0, <3>2, WriteClaimType
    <3> QED BY <1>3, <3>1, <3>2 DEF AddFinalizer
  <2> DEFINE j == [job[w] EXCEPT !.todo = @ \ {c}]
  <2>1. j \in JobType
      BY <1>0 DEF JobType, PCs, PodPCs, ClaimPCs, UpdatePCs
  <2>2. Shape(j)
      BY <1>0, <1>3 DEF AddFinalizer, JobType, Shape, PodPCs, ClaimPCs, UpdatePCs, AtNode
  <2>3. Become(w, j)
      BY <1>3 DEF AddFinalizer
  <2>4. job' \in [Workers -> JobType] /\ ShapeOK'
      BY <2>1, <2>2, <2>3, BecomeType
  <2> QED BY <1>0, <1>3, <2>4, <2>5 DEF AddFinalizer, TypeInv, TypeOK
<1>4. ASSUME NEW c \in Claims, AddFinalizerFails(w, c) PROVE TypeInv'
  <2> DEFINE j == [job[w] EXCEPT !.todo = @ \ {c}, !.cas = @ \ {c}]
  <2>1. j \in JobType
      BY <1>0 DEF JobType, PCs, PodPCs, ClaimPCs, UpdatePCs
  <2>2. Shape(j)
      BY <1>0, <1>4 DEF AddFinalizerFails, JobType, Shape, PodPCs, ClaimPCs, UpdatePCs, AtNode
  <2>3. Become(w, j)
      BY <1>4 DEF AddFinalizerFails
  <2>4. job' \in [Workers -> JobType] /\ ShapeOK'
      BY <2>1, <2>2, <2>3, BecomeType
  <2> QED BY <1>0, <1>4, <2>4 DEF AddFinalizerFails, TypeInv, TypeOK
<1>5. ASSUME FinalizersAdded(w) PROVE TypeInv'
  <2> DEFINE j == [job[w] EXCEPT !.pc = "allocate", !.todo = job[w].cas,
                                   !.finalized = {}]
  <2>1. j \in JobType
      BY <1>0 DEF JobType, PCs, PodPCs, ClaimPCs, UpdatePCs
  <2>2. Shape(j)
      BY <1>0, <1>5 DEF FinalizersAdded, JobType, Shape, PodPCs, ClaimPCs, UpdatePCs, AtNode
  <2>3. Become(w, j)
      BY <1>5 DEF FinalizersAdded
  <2>4. job' \in [Workers -> JobType] /\ ShapeOK'
      BY <2>1, <2>2, <2>3, BecomeType
  <2> QED BY <1>0, <1>5, <2>4 DEF FinalizersAdded, TypeInv, TypeOK
<1>6. ASSUME NEW c \in Claims, AllocateGet(w, c) PROVE TypeInv'
  <2>0. job[w].sel \in Nodes /\ nas[job[w].sel].spec \in SpecType
    <3>1. job[w].sel \in Nodes
        BY <1>0, <1>6 DEF AllocateGet, Shape
    <3> QED BY <3>1 DEF TypeInv, TypeOK
  <2> DEFINE j == [job[w] EXCEPT !.pc = "exists", !.node = job[w].sel, !.claim = c,
                                   !.crd = nas[job[w].sel].spec]
  <2>1. j \in JobType
      BY <1>0, <2>0 DEF JobType, PCs, PodPCs, ClaimPCs, UpdatePCs
  <2>2. Shape(j)
      BY <1>0, <1>6, <2>0 DEF AllocateGet, JobType, Shape, PodPCs, ClaimPCs, UpdatePCs, AtNode
  <2>3. Become(w, j)
      BY <1>6 DEF AllocateGet
  <2>4. job' \in [Workers -> JobType] /\ ShapeOK'
      BY <2>1, <2>2, <2>3, BecomeType
  <2> QED BY <1>0, <1>6, <2>4, <2>0 DEF AllocateGet, TypeInv, TypeOK
<1>7. ASSUME NEW c \in Claims, AllocateExists(w, c) PROVE TypeInv'
  <2> DEFINE j == [job[w] EXCEPT !.todo = @ \ {c}]
  <2>1. j \in JobType
      BY <1>0 DEF JobType, PCs, PodPCs, ClaimPCs, UpdatePCs
  <2>2. Shape(j)
      BY <1>0, <1>7 DEF AllocateExists, JobType, Shape, PodPCs, ClaimPCs, UpdatePCs, AtNode
  <2>3. Become(w, j)
      BY <1>7 DEF AllocateExists
  <2>4. job' \in [Workers -> JobType] /\ ShapeOK'
      BY <2>1, <2>2, <2>3, BecomeType
  <2> QED BY <1>0, <1>7, <2>4 DEF AllocateExists, TypeInv, TypeOK
<1>8. ASSUME NEW c \in Claims, AllocateNotReady(w, c) PROVE TypeInv'
  <2> DEFINE j == [job[w] EXCEPT !.todo = @ \ {c}, !.cas = @ \ {c}]
  <2>1. j \in JobType
      BY <1>0 DEF JobType, PCs, PodPCs, ClaimPCs, UpdatePCs
  <2>2. Shape(j)
      BY <1>0, <1>8 DEF AllocateNotReady, JobType, Shape, PodPCs, ClaimPCs, UpdatePCs, AtNode
  <2>3. Become(w, j)
      BY <1>8 DEF AllocateNotReady
  <2>4. job' \in [Workers -> JobType] /\ ShapeOK'
      BY <2>1, <2>2, <2>3, BecomeType
  <2> QED BY <1>0, <1>8, <2>4 DEF AllocateNotReady, TypeInv, TypeOK
<1>9. ASSUME NEW c \in Claims, SetClaimStatus(w, c) PROVE TypeInv'
  <2>0. job[w].sel \in Nodes
      BY <1>0, <1>9 DEF SetClaimStatus, AllocatedOn, Shape
  <2>5. [claim[c] EXCEPT !.node = job[w].sel] \in ClaimType
      BY <2>0, StoredClaim, ClaimRecords
  <2>6. claim' \in [Claims -> ClaimType] /\ claimFresh' \in [Claims -> SUBSET Workers]
      BY <1>9, <2>5, WriteClaimType DEF SetClaimStatus, AllocatedOn
  <2> DEFINE j == [job[w] EXCEPT !.cas = @ \ {c}]
  <2>1. j \in JobType
      BY <1>0 DEF JobType, PCs, PodPCs, ClaimPCs, UpdatePCs
  <2>2. Shape(j)
      BY <1>0, <1>9 DEF SetClaimStatus, AllocatedOn, JobType, Shape, PodPCs, ClaimPCs, UpdatePCs, AtNode
  <2>3. Become(w, j)
      BY <1>9 DEF SetClaimStatus, AllocatedOn
  <2>4. job' \in [Workers -> JobType] /\ ShapeOK'
      BY <2>1, <2>2, <2>3, BecomeType
  <2> QED BY <1>0, <1>9, <2>4, <2>6 DEF SetClaimStatus, AllocatedOn, TypeInv, TypeOK
<1>10. ASSUME NEW c \in Claims, SetClaimStatusFails(w, c) PROVE TypeInv'
  <2> DEFINE j == [job[w] EXCEPT !.cas = @ \ {c}]
  <2>1. j \in JobType
      BY <1>0 DEF JobType, PCs, PodPCs, ClaimPCs, UpdatePCs
  <2>2. Shape(j)
      BY <1>0, <1>10 DEF SetClaimStatusFails, JobType, Shape, PodPCs, ClaimPCs, UpdatePCs, AtNode
  <2>3. Become(w, j)
      BY <1>10 DEF SetClaimStatusFails
  <2>4. job' \in [Workers -> JobType] /\ ShapeOK'
      BY <2>1, <2>2, <2>3, BecomeType
  <2> QED BY <1>0, <1>10, <2>4 DEF SetClaimStatusFails, TypeInv, TypeOK
<1>11. ASSUME AllocatePending(w) PROVE TypeInv'
  <2> DEFINE j == [job[w] EXCEPT !.pc = "take"]
  <2>1. j \in JobType
      BY <1>0 DEF JobType, PCs, PodPCs, ClaimPCs, UpdatePCs
  <2>2. Shape(j)
      BY <1>0, <1>11 DEF AllocatePending, JobType, Shape, PodPCs, ClaimPCs, UpdatePCs, AtNode
  <2>3. Become(w, j)
      BY <1>11 DEF AllocatePending
  <2>4. job' \in [Workers -> JobType] /\ ShapeOK'
      BY <2>1, <2>2, <2>3, BecomeType
  <2> QED BY <1>0, <1>11, <2>4 DEF AllocatePending, TypeInv, TypeOK
<1>12. ASSUME AllocateNotPending(w) PROVE TypeInv'
  <2>1. job[w].node \in Nodes /\ job[w].pod \in Pods /\ job[w].sel \in Nodes
      BY <1>0, <1>12 DEF AllocateNotPending, JobType, Shape, AtNode, PodPCs, UpdatePCs
  <2>2. DropClaim(w)
      BY <1>12 DEF AllocateNotPending
  <2>3. /\ job' \in [Workers -> JobType] /\ ShapeOK'
        /\ lock' \in [Nodes -> Workers \cup {None}]
      BY <2>1, <2>2, DropClaimType
  <2> QED BY <1>12, <2>3 DEF AllocateNotPending, TypeInv, TypeOK
<1>13. ASSUME AllocateTake(w) PROVE TypeInv'
  <2> DEFINE added == AddClaim(job[w].crd, job[w].claim, pending[job[w].claim][job[w].node])
  <2>0. added \in SpecType
    <3>1. job[w].crd \in SpecType
        BY <1>0 DEF JobType
    <3>2. job[w].node \in Nodes /\ job[w].claim \in Claims
        BY <1>0, <1>13 DEF AllocateTake, Shape, AtNode
    <3>3. pending[job[w].claim][job[w].node] \in SUBSET Cpus
        BY <3>2 DEF TypeInv, TypeOK
    <3> QED BY <3>1, <3>2, <3>3, AddClaimType
  <2> DEFINE j == [job[w] EXCEPT !.pc = "updateGet", !.tries = 0, !.crd = added]
  <2>1. j \in JobType
      BY <1>0, <2>0, TriesType DEF JobType, PCs, PodPCs, ClaimPCs, UpdatePCs
  <2>2. Shape(j)
      BY <1>0, <1>13, TriesType DEF AllocateTake, JobType, Shape, PodPCs, ClaimPCs, UpdatePCs, AtNode
  <2>3. Become(w, j)
      BY <1>13 DEF AllocateTake
  <2>4. job' \in [Workers -> JobType] /\ ShapeOK'
      BY <2>1, <2>2, <2>3, BecomeType
  <2> QED BY <1>0, <1>13, <2>4 DEF AllocateTake, TypeInv, TypeOK
<1>14. ASSUME AllocateSuccess(w) PROVE TypeInv'
  <2>0. job[w].node \in Nodes /\ job[w].sel \in Nodes
      BY <1>0, <1>14 DEF AllocateSuccess, Shape, AtNode, UpdatePCs
  <2>5. NotPending \in [Nodes -> SUBSET Cpus]
      BY DEF NotPending
  <2> DEFINE j == [job[w] EXCEPT !.pc = "allocate", !.node = None, !.claim = None,
                                   !.crd = EmptySpec, !.tries = 0, !.todo = @ \ {job[w].claim}]
  <2>1. j \in JobType
      BY <1>0, EmptySpecType, TriesType DEF JobType, PCs, PodPCs, ClaimPCs, UpdatePCs
  <2>2. Shape(j)
      BY <1>0, <1>14, <2>0 DEF AllocateSuccess, JobType, Shape, PodPCs, ClaimPCs, UpdatePCs, AtNode
  <2>3. Become(w, j)
      BY <1>14 DEF AllocateSuccess
  <2>4. job' \in [Workers -> JobType] /\ ShapeOK'
      BY <2>1, <2>2, <2>3, BecomeType
  <2> QED BY <1>0, <1>14, <2>4, <2>0, <2>5 DEF AllocateSuccess, TypeInv, TypeOK
<1>15. ASSUME AllocateFails(w) PROVE TypeInv'
  <2>1. job[w].node \in Nodes /\ job[w].pod \in Pods /\ job[w].sel \in Nodes
      BY <1>0, <1>15 DEF AllocateFails, JobType, Shape, AtNode, PodPCs, UpdatePCs
  <2>2. DropClaim(w)
      BY <1>15 DEF AllocateFails
  <2>3. /\ job' \in [Workers -> JobType] /\ ShapeOK'
        /\ lock' \in [Nodes -> Workers \cup {None}]
      BY <2>1, <2>2, DropClaimType
  <2> QED BY <1>15, <2>3 DEF AllocateFails, TypeInv, TypeOK
<1> QED BY <1>1, <1>2, <1>3, <1>4, <1>5, <1>6, <1>7, <1>8, <1>9, <1>10, <1>11, <1>12, <1>13, <1>14, <1>15 DEF AllocateStep

\* A failed attempt of Client.Update stays within MaxRetries.
LEMMA CountTryType ==
    ASSUME TypeInv, NEW w \in Workers, job[w].pc = "updatePut", CountTry(w)
    PROVE  job' \in [Workers -> JobType] /\ ShapeOK'
<1> DEFINE next == IF job[w].tries + 1 < MaxRetries THEN "updateGet" ELSE "updateFailed"
           j == [job[w] EXCEPT !.tries = @ + 1, !.pc = next]
<1>0. job[w] \in JobType /\ Shape(job[w])
    BY DEF TypeInv, TypeOK, ShapeOK
<1>1. job[w].tries + 1 \in 0 .. MaxRetries
    BY <1>0, TriesType DEF JobType, Shape
<1>2. next \in {"updateGet", "updateFailed"} /\ (next = "updateGet" => job[w].tries + 1 < MaxRetries)
    OBVIOUS
<1>3. Become(w, j)
    BY DEF CountTry
<1> HIDE DEF next
<1>4. j \in JobType
    BY <1>0, <1>1, <1>2 DEF JobType, PCs, UpdatePCs
<1>5. Shape(j)
    BY <1>0, <1>2 DEF JobType, Shape, PodPCs, ClaimPCs, UpdatePCs, AtNode
<1> QED BY <1>3, <1>4, <1>5, BecomeType

\* Client.Update.
LEMMA UpdateType ==
    ASSUME TypeInv, NEW w \in Workers
    PROVE  UpdateStep(w) => TypeInv'
<1>0. job[w] \in JobType /\ Shape(job[w])
    BY DEF TypeInv, TypeOK, ShapeOK
<1>1. ASSUME UpdateGet(w) PROVE TypeInv'
  <2>0. job[w].node \in Nodes
      BY <1>0, <1>1 DEF UpdateGet, Shape, AtNode, UpdatePCs
  <2> DEFINE j == [job[w] EXCEPT !.pc = "updatePut"]
  <2>1. j \in JobType
      BY <1>0 DEF JobType, PCs, PodPCs, ClaimPCs, UpdatePCs
  <2>2. Shape(j)
      BY <1>0, <1>1 DEF UpdateGet, JobType, Shape, PodPCs, ClaimPCs, UpdatePCs, AtNode
  <2>3. Become(w, j)
      BY <1>1 DEF UpdateGet
  <2>4. job' \in [Workers -> JobType] /\ ShapeOK'
      BY <2>1, <2>2, <2>3, BecomeType
  <2> QED BY <1>0, <1>1, <2>4, <2>0, ClientsAssumption DEF UpdateGet, TypeInv, TypeOK
<1>2. ASSUME UpdateGetFails(w) PROVE TypeInv'
  <2> DEFINE j == [job[w] EXCEPT !.pc = "updateFailed"]
  <2>1. j \in JobType
      BY <1>0 DEF JobType, PCs, PodPCs, ClaimPCs, UpdatePCs
  <2>2. Shape(j)
      BY <1>0, <1>2 DEF UpdateGetFails, JobType, Shape, PodPCs, ClaimPCs, UpdatePCs, AtNode
  <2>3. Become(w, j)
      BY <1>2 DEF UpdateGetFails
  <2>4. job' \in [Workers -> JobType] /\ ShapeOK'
      BY <2>1, <2>2, <2>3, BecomeType
  <2> QED BY <1>0, <1>2, <2>4 DEF UpdateGetFails, TypeInv, TypeOK
<1>3. ASSUME UpdatePut(w) PROVE TypeInv'
  <2>0. job[w].node \in Nodes /\ job[w].crd \in SpecType
      BY <1>0, <1>3 DEF UpdatePut, JobType, Shape, AtNode, UpdatePCs
  <2> DEFINE j == [job[w] EXCEPT !.pc = "updated"]
  <2>1. j \in JobType
      BY <1>0 DEF JobType, PCs, PodPCs, ClaimPCs, UpdatePCs
  <2>2. Shape(j)
      BY <1>0, <1>3 DEF UpdatePut, JobType, Shape, PodPCs, ClaimPCs, UpdatePCs, AtNode
  <2>3. Become(w, j)
      BY <1>3 DEF UpdatePut
  <2>4. job' \in [Workers -> JobType] /\ ShapeOK'
      BY <2>1, <2>2, <2>3, BecomeType
  <2> QED BY <1>0, <1>3, <2>4, <2>0 DEF UpdatePut, TypeInv, TypeOK
<1>4. ASSUME UpdateConflict(w) PROVE TypeInv'
  <2>0. job[w].node \in Nodes /\ job[w].crd \in SpecType /\ job[w].pc = "updatePut"
      BY <1>0, <1>4 DEF UpdateConflict, JobType, Shape, AtNode, UpdatePCs
  <2>1. CountTry(w)
      BY <1>4 DEF UpdateConflict
  <2>2. job' \in [Workers -> JobType] /\ ShapeOK'
      BY <2>0, <2>1, CountTryType
  <2>3. nas' \in [Nodes -> [ready : BOOLEAN, spec : SpecType]] /\ nasFresh' \in [Nodes -> SUBSET Clients]
      BY <1>4 DEF UpdateConflict, TypeInv, TypeOK
  <2> QED BY <1>4, <2>2, <2>3 DEF UpdateConflict, TypeInv, TypeOK
<1>5. ASSUME UpdateError(w) PROVE TypeInv'
  <2>0. job[w].node \in Nodes /\ job[w].crd \in SpecType /\ job[w].pc = "updatePut"
      BY <1>0, <1>5 DEF UpdateError, JobType, Shape, AtNode, UpdatePCs
  <2>1. CountTry(w)
      BY <1>5 DEF UpdateError
  <2>2. job' \in [Workers -> JobType] /\ ShapeOK'
      BY <2>0, <2>1, CountTryType
  <2>3. nas' \in [Nodes -> [ready : BOOLEAN, spec : SpecType]] /\ nasFresh' \in [Nodes -> SUBSET Clients]
    <3>1. CASE /\ nasFresh' = [nasFresh EXCEPT ![job[w].node] = @ \ {w}]
               /\ UNCHANGED nas
        BY <2>0, <3>1 DEF TypeInv, TypeOK
    <3>2. CASE /\ nas' = [nas EXCEPT ![job[w].node].spec = job[w].crd]
               /\ nasFresh' = [nasFresh EXCEPT ![job[w].node] = {}]
        BY <2>0, <3>2 DEF TypeInv, TypeOK
    <3> QED BY <1>5, <3>1, <3>2 DEF UpdateError
  <2> QED BY <1>5, <2>2, <2>3 DEF UpdateError, TypeInv, TypeOK
<1> QED BY <1>1, <1>2, <1>3, <1>4, <1>5 DEF UpdateStep

\* Deallocate.
LEMMA ClaimStepType ==
    ASSUME TypeInv, NEW w \in Workers
    PROVE  ClaimStep(w) => TypeInv'
<1>0. job[w] \in JobType /\ Shape(job[w])
    BY DEF TypeInv, TypeOK, ShapeOK
<1>1. ASSUME DeallocateGet(w) PROVE TypeInv'
  <2>0. job[w].sel \in Nodes /\ job[w].claim \in Claims /\ job[w].pc = "dealloc"
      BY <1>0, <1>1 DEF DeallocateGet, Shape, ClaimPCs
  <2>1. ASSUME Become(w, [job[w] EXCEPT !.pc = "latest", !.node = job[w].sel])
        PROVE  job' \in [Workers -> JobType] /\ ShapeOK'
    <3> DEFINE j == [job[w] EXCEPT !.pc = "latest", !.node = job[w].sel]
    <3>1. j \in JobType
        BY <1>0, <2>0 DEF JobType, PCs, ClaimPCs
    <3>2. Shape(j)
        BY <1>0, <2>0, ShapeKept
    <3> QED BY <2>1, <3>1, <3>2, BecomeType
  <2>2. ASSUME Become(w, [job[w] EXCEPT !.pc = "clear"])
        PROVE  job' \in [Workers -> JobType] /\ ShapeOK'
    <3> DEFINE j == [job[w] EXCEPT !.pc = "clear"]
    <3>1. j \in JobType
        BY <1>0 DEF JobType, PCs, ClaimPCs
    <3>2. Shape(j)
        BY <1>0, <2>0, ShapeKept
    <3> QED BY <2>2, <3>1, <3>2, BecomeType
  <2> QED BY <1>1, <2>0, <2>1, <2>2 DEF DeallocateGet, TypeInv, TypeOK
<1>2. ASSUME DeallocateLatest(w) PROVE TypeInv'
  <2>0. nas[job[w].node].spec \in SpecType
    <3>1. job[w].node \in Nodes
        BY <1>0, <1>2 DEF DeallocateLatest, Shape, AtNode
    <3> QED BY <3>1 DEF TypeInv, TypeOK
  <2> DEFINE j == [job[w] EXCEPT !.pc = "release", !.crd = nas[job[w].node].spec]
  <2>1. j \in JobType
      BY <1>0, <2>0 DEF JobType, PCs, PodPCs, ClaimPCs, UpdatePCs
  <2>2. Shape(j)
      BY <1>0, <1>2 DEF DeallocateLatest, JobType, Shape, PodPCs, ClaimPCs, UpdatePCs, AtNode
  <2>3. Become(w, j)
      BY <1>2 DEF DeallocateLatest
  <2>4. job' \in [Workers -> JobType] /\ ShapeOK'
      BY <2>1, <2>2, <2>3, BecomeType
  <2> QED BY <1>0, <1>2, <2>4 DEF DeallocateLatest, TypeInv, TypeOK
<1>3. ASSUME DeallocateFails(w) PROVE TypeInv'
  <2>0. job[w].node \in Nodes
      BY <1>0, <1>3 DEF DeallocateFails, Shape, AtNode, UpdatePCs
  <2> QED BY <1>3, <2>0, ReturnType DEF DeallocateFails, TypeInv, TypeOK
<1>4. ASSUME DeallocateRelease(w) PROVE TypeInv'
  <2> DEFINE released == RemoveClaim(job[w].crd, job[w].claim)
  <2>0. released \in SpecType
    <3>1. job[w].crd \in SpecType
        BY <1>0 DEF JobType
    <3>2. job[w].claim \in Claims
        BY <1>0, <1>4 DEF DeallocateRelease, Shape, ClaimPCs
    <3> QED BY <3>1, <3>2, RemoveClaimType
  <2>5. NotPending \in [Nodes -> SUBSET Cpus]
      BY DEF NotPending
  <2> DEFINE j == [job[w] EXCEPT !.pc = "updateGet", !.tries = 0, !.crd = released]
  <2>1. j \in JobType
      BY <1>0, <2>0, TriesType DEF JobType, PCs, PodPCs, ClaimPCs, UpdatePCs
  <2>2. Shape(j)
      BY <1>0, <1>4, TriesType DEF DeallocateRelease, JobType, Shape, PodPCs, ClaimPCs, UpdatePCs, AtNode
  <2>3. Become(w, j)
      BY <1>4 DEF DeallocateRelease
  <2>4. job' \in [Workers -> JobType] /\ ShapeOK'
      BY <2>1, <2>2, <2>3, BecomeType
  <2> QED BY <1>0, <1>4, <2>4, <2>5 DEF DeallocateRelease, TypeInv, TypeOK
<1>5. ASSUME DeallocateDone(w) PROVE TypeInv'
  <2>0. job[w].node \in Nodes
      BY <1>0, <1>5 DEF DeallocateDone, Shape, AtNode, UpdatePCs
  <2> DEFINE j == [job[w] EXCEPT !.pc = "clear", !.node = None, !.crd = EmptySpec,
                                   !.tries = 0]
  <2>1. j \in JobType
      BY <1>0, EmptySpecType, TriesType DEF JobType, PCs, PodPCs, ClaimPCs, UpdatePCs
  <2>2. Shape(j)
      BY <1>0, <1>5 DEF DeallocateDone, JobType, Shape, PodPCs, ClaimPCs, UpdatePCs, AtNode
  <2>3. Become(w, j)
      BY <1>5 DEF DeallocateDone
  <2>4. job' \in [Workers -> JobType] /\ ShapeOK'
      BY <2>1, <2>2, <2>3, BecomeType
  <2> QED BY <1>0, <1>5, <2>4, <2>0 DEF DeallocateDone, TypeInv, TypeOK
<1>6. ASSUME ClearStatus(w) PROVE TypeInv'
  <2> DEFINE c == job[w].claim
             cleared == [claim[c] EXCEPT !.node = None,
                                         !.phase = IF @ = "deallocate" THEN "live" ELSE @]
  <2>0. c \in Claims
      BY <1>0, <1>6 DEF ClearStatus, Shape, ClaimPCs
  <2>5. cleared \in ClaimType
      BY <2>0, StoredClaim, ClaimRecords
  <2>6. claim' \in [Claims -> ClaimType] /\ claimFresh' \in [Claims -> SUBSET Workers]
      BY <1>6, <2>0, <2>5, WriteClaimType DEF ClearStatus
  <2> DEFINE j == [job[w] EXCEPT !.pc = "unfinalize"]
  <2>1. j \in JobType
      BY <1>0 DEF JobType, PCs, PodPCs, ClaimPCs, UpdatePCs
  <2>2. Shape(j)
      BY <1>0, <1>6 DEF ClearStatus, JobType, Shape, PodPCs, ClaimPCs, UpdatePCs, AtNode
  <2>3. Become(w, j)
      BY <1>6 DEF ClearStatus
  <2>4. job' \in [Workers -> JobType] /\ ShapeOK'
      BY <2>1, <2>2, <2>3, BecomeType
  <2> QED BY <1>0, <1>6, <2>4, <2>6 DEF ClearStatus, TypeInv, TypeOK
<1>7. ASSUME RemoveFinalizer(w) PROVE TypeInv'
  <2> DEFINE c == job[w].claim
  <2>0. c \in Claims
      BY <1>0, <1>7 DEF RemoveFinalizer, Shape, ClaimPCs
  <2>3. [claim[c] EXCEPT !.finalizer = FALSE,
                         !.phase = IF @ = "delete" THEN "gone" ELSE @] \in ClaimType
      BY <2>0, StoredClaim, ClaimRecords
  <2>1. claim' \in [Claims -> ClaimType]
      BY <1>7, <2>3 DEF RemoveFinalizer, TypeInv, TypeOK
  <2>2. job' \in [Workers -> JobType] /\ ShapeOK'
      BY <1>7, IdleType, BecomeType DEF RemoveFinalizer
  <2> QED BY <1>7, <2>0, <2>1, <2>2 DEF RemoveFinalizer, TypeInv, TypeOK
<1>8. ASSUME ClaimWriteFails(w) PROVE TypeInv'
  <2> QED BY <1>8, ReturnType DEF ClaimWriteFails, TypeInv, TypeOK
<1> QED BY <1>1, <1>2, <1>3, <1>4, <1>5, <1>6, <1>7, <1>8 DEF ClaimStep

\* The environment.
LEMMA EnvironmentType ==
    ASSUME TypeInv
    PROVE  Environment => TypeInv'
<1>1. ASSUME NEW c \in Claims, DeleteClaim(c) PROVE TypeInv'
  <2>1. claim' \in [Claims -> ClaimType]
      BY <1>1, StoredClaim, ClaimRecords DEF DeleteClaim, TypeInv, TypeOK
  <2> QED BY <1>1, <2>1 DEF DeleteClaim, TypeInv, TypeOK, ShapeOK
<1>2. ASSUME NEW c \in Claims, RequestDeallocate(c) PROVE TypeInv'
  <2>1. claim' \in [Claims -> ClaimType]
      BY <1>2, StoredClaim, ClaimRecords DEF RequestDeallocate, TypeInv, TypeOK
  <2> QED BY <1>2, <2>1 DEF RequestDeallocate, TypeInv, TypeOK, ShapeOK
<1>3. ASSUME NEW n \in Nodes, SetStatus(n) PROVE TypeInv'
  <2>1. nas' \in [Nodes -> [ready : BOOLEAN, spec : SpecType]]
      BY <1>3 DEF SetStatus, TypeInv, TypeOK
  <2> QED BY <1>3, <2>1 DEF SetStatus, TypeInv, TypeOK, ShapeOK
<1>4. ASSUME Crash PROVE TypeInv'
    BY <1>4, RestartType DEF Crash
<1> QED BY <1>1, <1>2, <1>3, <1>4 DEF Environment

LEMMA NextTypeInv == TypeInv /\ [Next]_vars => TypeInv'
<1> SUFFICES ASSUME TypeInv, [Next]_vars PROVE TypeInv'
    OBVIOUS
<1>1. ASSUME NEW w \in Workers, Starts(w) \/ Continues(w) PROVE TypeInv'
    BY <1>1, StartsType, UnsuitableType, AllocateType, UpdateType, ClaimStepType DEF Continues
<1>2. CASE Environment
    BY <1>2, EnvironmentType
<1>3. CASE UNCHANGED vars
    BY <1>3 DEF vars, TypeInv, TypeOK, ShapeOK
<1> QED BY <1>1, <1>2, <1>3 DEF Next

THEOREM TypeInvariant == Spec => []TypeInv
<1> QED BY InitTypeInv, NextTypeInv, PTL DEF Spec

\* Every variable has its type in every reachable state: a worker never uses a
\* node, a claim or an attempt that it has not set.
THEOREM TypeCorrect == Spec => []TypeOK
<1>1. TypeInv => TypeOK
    BY DEF TypeInv
<1> QED BY <1>1, TypeInvariant, PTL

----------------------------------------------------------------------------
(***************************************************************************)
(* The utilisation that a NAS publishes for a CPU is the sum over the      *)
(* claims recorded on it, for any nodes, claims, workers and faults.       *)
(*                                                                         *)
(* UtilConserved alone is not inductive: a worker stores a copy that it    *)
(* changed several steps ago.  The invariant therefore speaks of the       *)
(* copies as well, and says that a claim about to be added is not in the   *)
(* copy yet, which would count it twice.  No mutex is needed for it: a     *)
(* stale copy is as consistent as a fresh one.                             *)
(***************************************************************************)

\* Where a worker's copy is going to be stored.
LedgerPCs == {"exists", "take", "release", "updateGet", "updatePut"}

\* A spec whose utilisation is right and that lists every claim with CPUs.
Consistent(spec) ==
    /\ Conserved(spec)
    /\ \A c \in Claims \ spec.claims : spec.cpus[c] = {}

\* The part of a worker.
Ledger(j) ==
    /\ j.pc \in LedgerPCs => Consistent(j.crd)
    /\ j.pc \in {"exists", "take"} => j.claim \notin j.crd.claims

LedgerInv ==
    /\ \A n \in Nodes : Consistent(nas[n].spec)
    /\ \A w \in Workers : Ledger(job[w])

----------------------------------------------------------------------------
\* SetUtilisation adds a new claim to each of its CPUs once.
LEMMA AddConsistent ==
    ASSUME NEW s \in SpecType, NEW c \in Claims, NEW S \in SUBSET Cpus,
           Consistent(s), c \notin s.claims
    PROVE  Consistent(AddClaim(s, c, S))
<1> DEFINE t == AddClaim(s, c, S)
<1>1. s.cpus[c] = {} /\ s.cpus \in [Claims -> SUBSET Cpus]
    BY DEF Consistent, SpecType
<1>2. ASSUME NEW x \in Cpus PROVE t.util[x] = Load[On(t.cpus, x)]
  <2>1. On(s.cpus, x) \in SUBSET Claims /\ c \notin On(s.cpus, x)
      BY <1>1 DEF On
  <2>2. s.util[x] = Load[On(s.cpus, x)]
      BY DEF Consistent, Conserved
  <2>3. CASE x \in S
    <3>1. On(t.cpus, x) = On(s.cpus, x) \cup {c}
        BY <1>1, <2>3 DEF On, AddClaim
    <3>2. t.util[x] = s.util[x] + Util(c)
        BY <2>3 DEF AddClaim
    <3> QED BY <2>1, <2>2, <3>1, <3>2, LoadAdd
  <2>4. CASE x \notin S
    <3>1. On(t.cpus, x) = On(s.cpus, x)
        BY <1>1, <2>4 DEF On, AddClaim
    <3>2. t.util[x] = s.util[x] + 0
        BY <2>4 DEF AddClaim
    <3>3. s.util[x] + 0 = s.util[x]
        BY DEF SpecType
    <3> QED BY <2>2, <3>1, <3>2, <3>3
  <2> QED BY <2>3, <2>4
<1>3. ASSUME NEW d \in Claims \ t.claims PROVE t.cpus[d] = {}
    BY <1>1, <1>3 DEF Consistent, AddClaim
<1> HIDE DEF t
<1>4. Consistent(t)
    BY <1>2, <1>3 DEF Consistent, Conserved
<1> QED BY <1>4 DEF t

\* Deallocate never reaches its floor of 0 and takes off what was added.
LEMMA RemoveConsistent ==
    ASSUME NEW s \in SpecType, NEW c \in Claims, Consistent(s)
    PROVE  Consistent(RemoveClaim(s, c))
<1> DEFINE t == RemoveClaim(s, c)
<1>1. s.cpus \in [Claims -> SUBSET Cpus]
    BY DEF SpecType
<1>2. ASSUME NEW x \in Cpus PROVE t.util[x] = Load[On(t.cpus, x)]
  <2>1. On(s.cpus, x) \in SUBSET Claims
      BY DEF On
  <2>2. s.util[x] = Load[On(s.cpus, x)]
      BY DEF Consistent, Conserved
  <2>3. CASE x \in s.cpus[c]
    <3>1. c \in On(s.cpus, x)
        BY <2>3 DEF On
    <3>2. On(t.cpus, x) = On(s.cpus, x) \ {c}
        BY <1>1 DEF On, RemoveClaim
    <3>3. Load[On(s.cpus, x)] = Load[On(s.cpus, x) \ {c}] + Util(c)
        BY <2>1, <3>1, LoadRemove
    <3>4. Load[On(s.cpus, x) \ {c}] \in Nat /\ Util(c) \in Nat
        BY <2>1, LoadType, UtilType
    <3>5. t.util[x] = Minus(s.util[x], Util(c))
        BY <2>3 DEF RemoveClaim
    <3> QED BY <2>2, <3>2, <3>3, <3>4, <3>5 DEF Minus
  <2>4. CASE x \notin s.cpus[c]
    <3>1. On(t.cpus, x) = On(s.cpus, x)
        BY <1>1, <2>4 DEF On, RemoveClaim
    <3>2. t.util[x] = Minus(s.util[x], 0)
        BY <2>4 DEF RemoveClaim
    <3>3. Load[On(s.cpus, x)] \in Nat
        BY <2>1, LoadType
    <3> QED BY <2>2, <3>1, <3>2, <3>3 DEF Minus
  <2> QED BY <2>3, <2>4
<1>3. ASSUME NEW d \in Claims \ t.claims PROVE t.cpus[d] = {}
    BY <1>1, <1>3 DEF Consistent, RemoveClaim
<1> HIDE DEF t
<1>4. Consistent(t)
    BY <1>2, <1>3 DEF Consistent, Conserved
<1> QED BY <1>4 DEF t

LEMMA EmptyConsistent == Consistent(EmptySpec)
<1>1. \A x \in Cpus : On(EmptySpec.cpus, x) = {} /\ EmptySpec.util[x] = 0
    BY DEF EmptySpec, NoCpus, On
<1>2. \A c \in Claims : EmptySpec.cpus[c] = {}
    BY DEF EmptySpec, NoCpus
<1> QED BY <1>1, <1>2, LoadEmpty DEF Consistent, Conserved

LEMMA InitLedger == Init => LedgerInv
<1> SUFFICES ASSUME Init PROVE LedgerInv
    OBVIOUS
<1>1. \A n \in Nodes : Consistent(nas[n].spec)
    BY EmptyConsistent DEF Init, ControllerInit
<1>2. Idle.pc = "idle"
    BY DEF Idle
<1>3. \A w \in Workers : Ledger(job[w])
    BY <1>2 DEF Init, ControllerInit, Ledger, LedgerPCs
<1> QED BY <1>1, <1>3 DEF LedgerInv

----------------------------------------------------------------------------
(***************************************************************************)
(* Most steps leave a worker where it has no copy to store.                *)
(***************************************************************************)
Quiet(w) ==
    /\ \A v \in Workers \ {w} : job'[v] = job[v]
    /\ job'[w].pc \notin LedgerPCs

\* A quiet step that leaves the specs alone, or stores a consistent one.
LEMMA QuietLedger ==
    ASSUME LedgerInv, NEW w \in Workers, Quiet(w),
           \A n \in Nodes : nas'[n].spec = nas[n].spec \/ Consistent(nas'[n].spec)
    PROVE  LedgerInv'
<1>1. \A n \in Nodes : Consistent(nas'[n].spec)
    BY DEF LedgerInv
<1>2. \A v \in Workers : Ledger(job'[v])
    BY DEF LedgerInv, Quiet, Ledger, LedgerPCs
<1> QED BY <1>1, <1>2 DEF LedgerInv

\* A step of one worker that leaves the specs alone.
LEMMA CopyLedger ==
    ASSUME LedgerInv, NEW w \in Workers, UNCHANGED nas,
           \A v \in Workers \ {w} : job'[v] = job[v], Ledger(job'[w])
    PROVE  LedgerInv'
<1>1. \A v \in Workers : Ledger(job'[v])
    BY DEF LedgerInv
<1> QED BY <1>1 DEF LedgerInv

LEMMA RestartLedger ==
    ASSUME LedgerInv, Restart
    PROVE  LedgerInv'
<1>1. Idle.pc = "idle"
    BY DEF Idle
<1>2. \A w \in Workers : Ledger(job'[w])
    BY <1>1 DEF Restart, Ledger, LedgerPCs
<1> QED BY <1>2 DEF LedgerInv, Restart

\* A worker takes a key from the queue.
LEMMA StartsLedger ==
    ASSUME TypeInv, LedgerInv, NEW w \in Workers
    PROVE  Starts(w) => LedgerInv'
<1>0. job \in [Workers -> JobType] /\ job[w] \in JobType
    BY DEF TypeInv, TypeOK
<1>1. ASSUME NEW p \in Pods, SyncPod(w, p) PROVE LedgerInv'
  <2>1. Quiet(w)
      BY <1>0, <1>1 DEF SyncPod, Become, Quiet, LedgerPCs, JobType, Idle
  <2> QED BY <1>1, <2>1, QuietLedger DEF SyncPod
<1>2. ASSUME NEW c \in Claims, SyncClaim(w, c) PROVE LedgerInv'
  <2>1. Quiet(w)
      BY <1>0, <1>2 DEF SyncClaim, SelectedNode, Become, Quiet, LedgerPCs, JobType, Idle
  <2> QED BY <1>2, <2>1, QuietLedger DEF SyncClaim, SelectedNode
<1> QED BY <1>1, <1>2 DEF Starts

\* UnsuitableNodes.
LEMMA UnsuitableLedger ==
    ASSUME TypeInv, LedgerInv, NEW w \in Workers
    PROVE  UnsuitableStep(w) => LedgerInv'
<1>0. job \in [Workers -> JobType] /\ job[w] \in JobType
    BY DEF TypeInv, TypeOK
<1>1. ASSUME NEW n \in Nodes, UnsuitableGet(w, n) PROVE LedgerInv'
  <2>1. Quiet(w)
      BY <1>0, <1>1 DEF UnsuitableGet, Become, Quiet, LedgerPCs, JobType
  <2> QED BY <1>1, <2>1, QuietLedger DEF UnsuitableGet
<1>2. ASSUME NEW n \in Nodes, UnsuitableNotReady(w, n) PROVE LedgerInv'
  <2>1. Quiet(w)
      BY <1>0, <1>2 DEF UnsuitableNotReady, Become, Quiet, LedgerPCs, JobType
  <2> QED BY <1>2, <2>1, QuietLedger DEF UnsuitableNotReady
<1>3. ASSUME NEW c \in Claims, VisitPending(w, c) PROVE LedgerInv'
  <2>1. Quiet(w)
      BY <1>0, <1>3 DEF VisitPending, Become, Quiet, LedgerPCs, JobType
  <2> QED BY <1>3, <2>1, QuietLedger DEF VisitPending
<1>4. ASSUME VisitRemove(w) PROVE LedgerInv'
  <2>1. Quiet(w)
      BY <1>0, <1>4 DEF VisitRemove, Become, Quiet, LedgerPCs, JobType
  <2> QED BY <1>4, <2>1, QuietLedger DEF VisitRemove
<1>5. ASSUME VisitDone(w) PROVE LedgerInv'
  <2>1. Quiet(w)
      BY <1>0, <1>5 DEF VisitDone, Become, Quiet, LedgerPCs, JobType
  <2> QED BY <1>5, <2>1, QuietLedger DEF VisitDone
<1>6. ASSUME NEW c \in Claims, PlaceClaim(w, c) PROVE LedgerInv'
  <2>0. job[w].pc = "place"
      BY <1>6 DEF PlaceClaim
  <2> DEFINE kept == [job[w] EXCEPT !.todo = @ \ {c}]
             placed(S) == [job[w] EXCEPT !.todo = @ \ {c}, !.plan[c] = S]
  <2>1. ASSUME NEW j, Become(w, j), j.pc = "place" PROVE Quiet(w)
      BY <1>0, <2>1 DEF Become, Quiet, LedgerPCs
  <2>2. kept.pc = "place" /\ \A S : placed(S).pc = "place"
      BY <1>0, <2>0 DEF JobType
  <2>3. Become(w, kept) \/ \E S : Become(w, placed(S))
      BY <1>6, Zenon DEF PlaceClaim
  <2> HIDE DEF kept, placed
  <2>4. Quiet(w)
      BY <2>1, <2>2, <2>3, Zenon
  <2> QED BY <1>6, <2>4, QuietLedger DEF PlaceClaim
<1>7. ASSUME NEW c \in Claims, PlaceFails(w, c) PROVE LedgerInv'
  <2>1. Quiet(w)
      BY <1>0, <1>7 DEF PlaceFails, Become, Quiet, LedgerPCs, JobType
  <2> QED BY <1>7, <2>1, QuietLedger DEF PlaceFails
<1>8. ASSUME NEW c \in Claims, PendingSet(w, c) PROVE LedgerInv'
  <2>1. Quiet(w)
      BY <1>0, <1>8 DEF PendingSet, Become, Quiet, LedgerPCs, JobType
  <2> QED BY <1>8, <2>1, QuietLedger DEF PendingSet
<1>9. ASSUME UnsuitableDone(w) PROVE LedgerInv'
  <2>1. Quiet(w)
      BY <1>0, <1>9 DEF UnsuitableDone, Become, Quiet, LedgerPCs, JobType
  <2> QED BY <1>9, <2>1, QuietLedger DEF UnsuitableDone
<1>10. ASSUME NEW c \in Claims, Panic(w, c) PROVE LedgerInv'
    BY <1>10, RestartLedger DEF Panic
<1> QED BY <1>1, <1>2, <1>3, <1>4, <1>5, <1>6, <1>7, <1>8, <1>9, <1>10 DEF UnsuitableStep

\* Allocate.
LEMMA AllocateLedger ==
    ASSUME TypeInv, LedgerInv, NEW w \in Workers
    PROVE  AllocateStep(w) => LedgerInv'
<1>0. job \in [Workers -> JobType] /\ job[w] \in JobType
    BY DEF TypeInv, TypeOK
<1>1. ASSUME StartAllocate(w) PROVE LedgerInv'
  <2>1. Quiet(w)
      BY <1>0, <1>1 DEF StartAllocate, Become, Quiet, LedgerPCs, JobType
  <2> QED BY <1>1, <2>1, QuietLedger DEF StartAllocate
<1>2. ASSUME SyncPodDone(w) PROVE LedgerInv'
  <2>1. Quiet(w)
      BY <1>0, <1>2 DEF SyncPodDone, Become, Quiet, LedgerPCs, JobType, Return, Idle
  <2> QED BY <1>2, <2>1, QuietLedger DEF SyncPodDone
<1>3. ASSUME NEW c \in Claims, AddFinalizer(w, c) PROVE LedgerInv'
  <2>1. Quiet(w)
      BY <1>0, <1>3 DEF AddFinalizer, Become, Quiet, LedgerPCs, JobType
  <2> QED BY <1>3, <2>1, QuietLedger DEF AddFinalizer
<1>4. ASSUME NEW c \in Claims, AddFinalizerFails(w, c) PROVE LedgerInv'
  <2>1. Quiet(w)
      BY <1>0, <1>4 DEF AddFinalizerFails, Become, Quiet, LedgerPCs, JobType
  <2> QED BY <1>4, <2>1, QuietLedger DEF AddFinalizerFails
<1>5. ASSUME FinalizersAdded(w) PROVE LedgerInv'
  <2>1. Quiet(w)
      BY <1>0, <1>5 DEF FinalizersAdded, Become, Quiet, LedgerPCs, JobType
  <2> QED BY <1>5, <2>1, QuietLedger DEF FinalizersAdded
<1>6. ASSUME NEW c \in Claims, AllocateGet(w, c) PROVE LedgerInv'
  <2> DEFINE n == job[w].sel
  <2>0. n \in Nodes
      BY <1>0, <1>6 DEF AllocateGet, TypeInv, ShapeOK, Shape
  <2>1. \A v \in Workers \ {w} : job'[v] = job[v]
      BY <1>0, <1>6 DEF AllocateGet, Become
  <2>3. job'[w].crd = nas[n].spec /\ job'[w].claim = c
      BY <1>0, <1>6 DEF AllocateGet, Become, JobType
  <2>2. Ledger(job'[w])
      BY <1>6, <2>0, <2>3 DEF AllocateGet, Ledger, LedgerInv
  <2> QED BY <1>6, <2>1, <2>2, CopyLedger DEF AllocateGet
<1>7. ASSUME NEW c \in Claims, AllocateExists(w, c) PROVE LedgerInv'
  <2>1. Quiet(w)
      BY <1>0, <1>7 DEF AllocateExists, Become, Quiet, LedgerPCs, JobType
  <2> QED BY <1>7, <2>1, QuietLedger DEF AllocateExists
<1>8. ASSUME NEW c \in Claims, AllocateNotReady(w, c) PROVE LedgerInv'
  <2>1. Quiet(w)
      BY <1>0, <1>8 DEF AllocateNotReady, Become, Quiet, LedgerPCs, JobType
  <2> QED BY <1>8, <2>1, QuietLedger DEF AllocateNotReady
<1>9. ASSUME NEW c \in Claims, SetClaimStatus(w, c) PROVE LedgerInv'
  <2>1. Quiet(w)
      BY <1>0, <1>9 DEF SetClaimStatus, AllocatedOn, Become, Quiet, LedgerPCs, JobType
  <2> QED BY <1>9, <2>1, QuietLedger DEF SetClaimStatus, AllocatedOn
<1>10. ASSUME NEW c \in Claims, SetClaimStatusFails(w, c) PROVE LedgerInv'
  <2>1. Quiet(w)
      BY <1>0, <1>10 DEF SetClaimStatusFails, Become, Quiet, LedgerPCs, JobType
  <2> QED BY <1>10, <2>1, QuietLedger DEF SetClaimStatusFails
<1>11. ASSUME AllocatePending(w) PROVE LedgerInv'
  <2>1. \A v \in Workers \ {w} : job'[v] = job[v]
      BY <1>0, <1>11 DEF AllocatePending, Become
  <2>3. job'[w].crd = job[w].crd /\ job'[w].claim = job[w].claim /\ job[w].pc = "exists"
      BY <1>0, <1>11 DEF AllocatePending, Become, JobType
  <2>2. Ledger(job'[w])
      BY <2>3 DEF Ledger, LedgerInv, LedgerPCs
  <2> QED BY <1>11, <2>1, <2>2, CopyLedger DEF AllocatePending
<1>12. ASSUME AllocateNotPending(w) PROVE LedgerInv'
  <2>1. Quiet(w)
      BY <1>0, <1>12 DEF AllocateNotPending, Become, Quiet, LedgerPCs, JobType, DropClaim
  <2> QED BY <1>12, <2>1, QuietLedger DEF AllocateNotPending
<1>13. ASSUME AllocateTake(w) PROVE LedgerInv'
  <2> DEFINE S == pending[job[w].claim][job[w].node]
  <2>1. \A v \in Workers \ {w} : job'[v] = job[v]
      BY <1>0, <1>13 DEF AllocateTake, Become
  <2>3. /\ job'[w].crd = AddClaim(job[w].crd, job[w].claim, S)
        /\ job'[w].pc = "updateGet" /\ job[w].pc = "take"
      BY <1>0, <1>13 DEF AllocateTake, Become, JobType
  <2>4. job[w].claim \in Claims /\ S \in SUBSET Cpus /\ job[w].crd \in SpecType
      BY <1>0, <2>3 DEF TypeInv, TypeOK, ShapeOK, Shape, AtNode, JobType
  <2>5. Consistent(job[w].crd) /\ job[w].claim \notin job[w].crd.claims
      BY <2>3 DEF LedgerInv, Ledger, LedgerPCs
  <2>6. Consistent(job'[w].crd)
      BY <2>3, <2>4, <2>5, AddConsistent
  <2>2. Ledger(job'[w])
      BY <2>3, <2>6 DEF Ledger
  <2> QED BY <1>13, <2>1, <2>2, CopyLedger DEF AllocateTake
<1>14. ASSUME AllocateSuccess(w) PROVE LedgerInv'
  <2>1. Quiet(w)
      BY <1>0, <1>14 DEF AllocateSuccess, Become, Quiet, LedgerPCs, JobType
  <2> QED BY <1>14, <2>1, QuietLedger DEF AllocateSuccess
<1>15. ASSUME AllocateFails(w) PROVE LedgerInv'
  <2>1. Quiet(w)
      BY <1>0, <1>15 DEF AllocateFails, Become, Quiet, LedgerPCs, JobType, DropClaim
  <2> QED BY <1>15, <2>1, QuietLedger DEF AllocateFails
<1> QED BY <1>1, <1>2, <1>3, <1>4, <1>5, <1>6, <1>7, <1>8, <1>9, <1>10, <1>11, <1>12, <1>13, <1>14, <1>15 DEF AllocateStep

\* Client.Update stores the copy.
LEMMA UpdateLedger ==
    ASSUME TypeInv, LedgerInv, NEW w \in Workers
    PROVE  UpdateStep(w) => LedgerInv'
<1>0. job \in [Workers -> JobType] /\ job[w] \in JobType
    BY DEF TypeInv, TypeOK
<1>1. ASSUME UpdateGet(w) PROVE LedgerInv'
  <2>1. \A v \in Workers \ {w} : job'[v] = job[v]
      BY <1>0, <1>1 DEF UpdateGet, Become
  <2>3. job'[w].crd = job[w].crd /\ job[w].pc = "updateGet" /\ job'[w].pc \notin {"exists", "take"}
      BY <1>0, <1>1 DEF UpdateGet, Become, JobType
  <2>2. Ledger(job'[w])
      BY <2>3 DEF Ledger, LedgerInv, LedgerPCs
  <2> QED BY <1>1, <2>1, <2>2, CopyLedger DEF UpdateGet
<1>2. ASSUME UpdateGetFails(w) PROVE LedgerInv'
  <2>1. Quiet(w)
      BY <1>0, <1>2 DEF UpdateGetFails, Become, Quiet, LedgerPCs, JobType
  <2> QED BY <1>2, <2>1, QuietLedger DEF UpdateGetFails
<1>3. ASSUME UpdatePut(w) PROVE LedgerInv'
  <2>1. job[w].node \in Nodes /\ Consistent(job[w].crd)
      BY <1>0, <1>3 DEF UpdatePut, TypeInv, ShapeOK, Shape, AtNode, UpdatePCs, LedgerInv, Ledger, LedgerPCs
  <2>2. \A n \in Nodes : nas'[n].spec = nas[n].spec \/ nas'[n].spec = job[w].crd
      BY <1>3, <2>1 DEF UpdatePut, TypeInv, TypeOK
  <2>3. Quiet(w)
      BY <1>0, <1>3 DEF UpdatePut, Become, Quiet, LedgerPCs, JobType
  <2> QED BY <2>1, <2>2, <2>3, QuietLedger
<1>4. ASSUME UpdateConflict(w) PROVE LedgerInv'
  <2>1. \A v \in Workers \ {w} : job'[v] = job[v]
      BY <1>0, <1>4 DEF UpdateConflict, Become, CountTry
  <2>3. job'[w].crd = job[w].crd /\ job[w].pc = "updatePut" /\ job'[w].pc \notin {"exists", "take"}
      BY <1>0, <1>4 DEF UpdateConflict, Become, JobType, CountTry
  <2>2. Ledger(job'[w])
      BY <2>3 DEF Ledger, LedgerInv, LedgerPCs
  <2> QED BY <1>4, <2>1, <2>2, CopyLedger DEF UpdateConflict
<1>5. ASSUME UpdateError(w) PROVE LedgerInv'
  <2>1. job[w].node \in Nodes /\ Consistent(job[w].crd)
      BY <1>0, <1>5 DEF UpdateError, TypeInv, ShapeOK, Shape, AtNode, UpdatePCs, LedgerInv, Ledger, LedgerPCs
  <2>2. \A n \in Nodes : nas'[n].spec = nas[n].spec \/ nas'[n].spec = job[w].crd
    <3>1. CASE UNCHANGED nas
        BY <3>1
    <3>2. CASE nas' = [nas EXCEPT ![job[w].node].spec = job[w].crd]
        BY <2>1, <3>2 DEF TypeInv, TypeOK
    <3> QED BY <1>5, <3>1, <3>2 DEF UpdateError
  <2>3. \A v \in Workers \ {w} : job'[v] = job[v]
      BY <1>0, <1>5 DEF UpdateError, CountTry, Become
  <2>4. job'[w].crd = job[w].crd /\ job'[w].pc \notin {"exists", "take"}
      BY <1>0, <1>5 DEF UpdateError, CountTry, Become, JobType
  <2>5. \A v \in Workers : Ledger(job'[v])
      BY <2>1, <2>3, <2>4 DEF LedgerInv, Ledger
  <2>6. \A n \in Nodes : Consistent(nas'[n].spec)
      BY <2>1, <2>2 DEF LedgerInv
  <2> QED BY <2>5, <2>6 DEF LedgerInv
<1> QED BY <1>1, <1>2, <1>3, <1>4, <1>5 DEF UpdateStep

\* Deallocate.
LEMMA ClaimStepLedger ==
    ASSUME TypeInv, LedgerInv, NEW w \in Workers
    PROVE  ClaimStep(w) => LedgerInv'
<1>0. job \in [Workers -> JobType] /\ job[w] \in JobType
    BY DEF TypeInv, TypeOK
<1>1. ASSUME DeallocateGet(w) PROVE LedgerInv'
  <2>1. Quiet(w)
    <3>1. CASE Become(w, [job[w] EXCEPT !.pc = "latest", !.node = job[w].sel])
        BY <1>0, <3>1 DEF Become, Quiet, LedgerPCs, JobType
    <3>2. CASE Become(w, [job[w] EXCEPT !.pc = "clear"])
        BY <1>0, <3>2 DEF Become, Quiet, LedgerPCs, JobType
    <3> QED BY <1>1, <3>1, <3>2 DEF DeallocateGet
  <2> QED BY <1>1, <2>1, QuietLedger DEF DeallocateGet
<1>2. ASSUME DeallocateLatest(w) PROVE LedgerInv'
  <2>0. job[w].node \in Nodes
      BY <1>0, <1>2 DEF DeallocateLatest, TypeInv, ShapeOK, Shape, AtNode
  <2>1. \A v \in Workers \ {w} : job'[v] = job[v]
      BY <1>0, <1>2 DEF DeallocateLatest, Become
  <2>3. job'[w].crd = nas[job[w].node].spec /\ job'[w].pc = "release"
      BY <1>0, <1>2 DEF DeallocateLatest, Become, JobType
  <2>2. Ledger(job'[w])
      BY <2>0, <2>3 DEF Ledger, LedgerInv
  <2> QED BY <1>2, <2>1, <2>2, CopyLedger DEF DeallocateLatest
<1>3. ASSUME DeallocateFails(w) PROVE LedgerInv'
  <2>1. Quiet(w)
      BY <1>0, <1>3 DEF DeallocateFails, Become, Quiet, LedgerPCs, JobType, Return, Idle
  <2> QED BY <1>3, <2>1, QuietLedger DEF DeallocateFails
<1>4. ASSUME DeallocateRelease(w) PROVE LedgerInv'
  <2>1. \A v \in Workers \ {w} : job'[v] = job[v]
      BY <1>0, <1>4 DEF DeallocateRelease, Become
  <2>3. /\ job'[w].crd = RemoveClaim(job[w].crd, job[w].claim)
        /\ job'[w].pc = "updateGet" /\ job[w].pc = "release"
      BY <1>0, <1>4 DEF DeallocateRelease, Become, JobType
  <2>4. job[w].claim \in Claims /\ job[w].crd \in SpecType
      BY <1>0, <2>3 DEF TypeInv, TypeOK, ShapeOK, Shape, ClaimPCs, JobType
  <2>5. Consistent(job[w].crd)
      BY <2>3 DEF LedgerInv, Ledger, LedgerPCs
  <2>6. Consistent(job'[w].crd)
      BY <2>3, <2>4, <2>5, RemoveConsistent
  <2>2. Ledger(job'[w])
      BY <2>3, <2>6 DEF Ledger
  <2> QED BY <1>4, <2>1, <2>2, CopyLedger DEF DeallocateRelease
<1>5. ASSUME DeallocateDone(w) PROVE LedgerInv'
  <2>1. Quiet(w)
      BY <1>0, <1>5 DEF DeallocateDone, Become, Quiet, LedgerPCs, JobType
  <2> QED BY <1>5, <2>1, QuietLedger DEF DeallocateDone
<1>6. ASSUME ClearStatus(w) PROVE LedgerInv'
  <2>1. Quiet(w)
      BY <1>0, <1>6 DEF ClearStatus, Become, Quiet, LedgerPCs, JobType
  <2> QED BY <1>6, <2>1, QuietLedger DEF ClearStatus
<1>7. ASSUME RemoveFinalizer(w) PROVE LedgerInv'
  <2>1. Quiet(w)
      BY <1>0, <1>7 DEF RemoveFinalizer, Become, Quiet, LedgerPCs, JobType, Idle
  <2> QED BY <1>7, <2>1, QuietLedger DEF RemoveFinalizer
<1>8. ASSUME ClaimWriteFails(w) PROVE LedgerInv'
  <2>1. Quiet(w)
      BY <1>0, <1>8 DEF ClaimWriteFails, Become, Quiet, LedgerPCs, JobType, Return, Idle
  <2> QED BY <1>8, <2>1, QuietLedger DEF ClaimWriteFails
<1> QED BY <1>1, <1>2, <1>3, <1>4, <1>5, <1>6, <1>7, <1>8 DEF ClaimStep

LEMMA EnvironmentLedger ==
    ASSUME TypeInv, LedgerInv
    PROVE  Environment => LedgerInv'
<1>1. ASSUME NEW c \in Claims, DeleteClaim(c) \/ RequestDeallocate(c) PROVE LedgerInv'
    BY <1>1 DEF DeleteClaim, RequestDeallocate, LedgerInv
<1>2. ASSUME NEW n \in Nodes, SetStatus(n) PROVE LedgerInv'
  <2>1. \A m \in Nodes : nas'[m].spec = nas[m].spec
      BY <1>2 DEF SetStatus, TypeInv, TypeOK
  <2> QED BY <1>2, <2>1 DEF SetStatus, LedgerInv
<1>3. ASSUME Crash PROVE LedgerInv'
    BY <1>3, RestartLedger DEF Crash
<1> QED BY <1>1, <1>2, <1>3 DEF Environment

LEMMA NextLedger == TypeInv /\ LedgerInv /\ [Next]_vars => LedgerInv'
<1> SUFFICES ASSUME TypeInv, LedgerInv, [Next]_vars PROVE LedgerInv'
    OBVIOUS
<1>1. ASSUME NEW w \in Workers, Starts(w) \/ Continues(w) PROVE LedgerInv'
    BY <1>1, StartsLedger, UnsuitableLedger, AllocateLedger, UpdateLedger, ClaimStepLedger
       DEF Continues
<1>2. CASE Environment
    BY <1>2, EnvironmentLedger
<1>3. CASE UNCHANGED vars
    BY <1>3 DEF vars, LedgerInv
<1> QED BY <1>1, <1>2, <1>3 DEF Next

\* The inductive invariant: stored specs and the copies to be stored agree with
\* themselves.
THEOREM LedgerInvariant == Spec => []LedgerInv
<1> QED BY InitLedger, NextLedger, TypeInvariant, PTL DEF Spec

\* AllocatedUtilToCpu is the sum over the claims recorded on each CPU, whatever
\* allocations, deallocations, failed updates, retries and crashes happen.
THEOREM UtilisationConserved == Spec => []UtilConserved
<1>1. LedgerInv => UtilConserved
    BY DEF LedgerInv, Consistent, UtilConserved
<1> QED BY <1>1, LedgerInvariant, PTL
=============================================================================
