----------------------- MODULE ControllerStatus_proofs -----------------------
(***************************************************************************)
(* What the status of a claim and a reservation promise, for any nodes,    *)
(* claims and workers: the claim is in the NAS of the node that its status *)
(* names, and a worker that found a node suitable finds the reservation.   *)
(***************************************************************************)
EXTENDS ControllerLedger_proofs

----------------------------------------------------------------------------
(***************************************************************************)
(* A status is backed by an entry in the NAS.                              *)
(***************************************************************************)

\* Between the first claim of a pod that is allocated and the last status.
Allocating == {"allocate", "exists", "take"} \cup UpdatePCs

\* A claim that worker w has passed in its loop over allocate, and whose copy it
\* could still store, is in the NAS of the selected node.
Recorded(w) ==
    job[w].pc \in Allocating /\ job[w].pod # None =>
       \A c \in job[w].cas \ job[w].todo :
          w \in claimFresh[c] /\ claim[c].phase = "live" => c \in nas[job[w].sel].spec.claims

\* The node whose mutex a worker holds after UnsuitableNodes is the selected one.
AtSelected(j) ==
    j.pc \in {"exists", "take", "latest", "release"} \cup UpdatePCs => j.node = j.sel

BackedInv ==
    /\ StatusBacked
    /\ \A w \in Workers : Recorded(w) /\ AtSelected(job[w])

\* What a step of worker w does to the claims: a copy of another worker that
\* stays current is a copy of the same claim, and only SetClaimStatus allocates.
ClaimTurn(w) ==
    \A c \in Claims :
       /\ \A v \in Workers \ {w} :
             v \in claimFresh'[c] => v \in claimFresh[c] /\ claim'[c] = claim[c]
       /\ claim'[c].phase = "live" /\ claim'[c].node # None =>
             \/ claim[c].phase = "live" /\ claim[c].node = claim'[c].node
             \/ SetClaimStatus(w, c)
       /\ claim'[c].node \in {claim[c].node, None} \/ SetClaimStatus(w, c)

LEMMA StepsClaimTurn ==
    ASSUME TypeInv, NEW w \in Workers, Starts(w) \/ Continues(w), ~Panics(w)
    PROVE  ClaimTurn(w)
<1>0. job \in [Workers -> JobType] /\ job[w] \in JobType /\ Shape(job[w])
    BY DEF TypeInv, TypeOK, ShapeOK
<1>b. claim \in [Claims -> ClaimType] /\ claimFresh \in [Claims -> SUBSET Workers]
    BY DEF TypeInv, TypeOK
<1>1. ASSUME UNCHANGED claim,
             \A c \in Claims, v \in Workers \ {w} : v \in claimFresh'[c] => v \in claimFresh[c]
      PROVE  ClaimTurn(w)
    BY <1>1 DEF ClaimTurn
<1>c. ASSUME NEW c \in Claims, claimFresh'[c] \subseteq {w},
             \A d \in Claims \ {c} : claim'[d] = claim[d] /\ claimFresh'[d] = claimFresh[d],
             \/ SetClaimStatus(w, c)
             \/ /\ claim'[c].node \in {claim[c].node, None}
                /\ claim'[c].phase = "live" /\ claim'[c].node # None => claim[c].phase = "live"
      PROVE  ClaimTurn(w)
    BY <1>c DEF ClaimTurn
<1>2. ASSUME Starts(w) PROVE ClaimTurn(w)
  <2>1. UNCHANGED claim
      BY <1>2 DEF Starts, SyncPod, SyncClaim
  <2>2. ASSUME NEW p \in Pods, SyncPod(w, p), NEW c \in Claims, NEW v \in Workers \ {w},
               v \in claimFresh'[c]
        PROVE  v \in claimFresh[c]
      BY <1>b, <2>2 DEF SyncPod
  <2>3. ASSUME NEW d \in Claims, SyncClaim(w, d), NEW c \in Claims, NEW v \in Workers \ {w},
               v \in claimFresh'[c]
        PROVE  v \in claimFresh[c]
      BY <1>b, <2>3 DEF SyncClaim
  <2> QED BY <1>1, <1>2, <2>1, <2>2, <2>3 DEF Starts
<1>3. ASSUME Steady(w) PROVE ClaimTurn(w)
    BY <1>1, <1>3 DEF Steady
<1>4. ASSUME SyncPodDone(w) \/ DeallocateFails(w) \/ ClaimWriteFails(w) PROVE ClaimTurn(w)
    BY <1>1, <1>4 DEF SyncPodDone, DeallocateFails, ClaimWriteFails, Return
<1>5. ASSUME NEW c \in Claims, AddFinalizer(w, c) PROVE ClaimTurn(w)
  <2>1. CASE UNCHANGED <<claim, claimFresh>>
      BY <1>1, <2>1
  <2>2. CASE WriteClaim(w, c, [claim[c] EXCEPT !.finalizer = TRUE])
    <3>1. /\ claim'[c].phase = claim[c].phase /\ claim'[c].node = claim[c].node
          /\ claimFresh'[c] = {w}
          /\ \A d \in Claims \ {c} : claim'[d] = claim[d] /\ claimFresh'[d] = claimFresh[d]
        BY <1>b, <2>2 DEF WriteClaim, ClaimType
    <3> QED BY <1>c, <3>1
  <2> QED BY <1>5, <2>1, <2>2 DEF AddFinalizer
<1>6. ASSUME NEW c \in Claims, SetClaimStatus(w, c) PROVE ClaimTurn(w)
  <2>1. /\ claimFresh'[c] = {w}
        /\ \A d \in Claims \ {c} : claim'[d] = claim[d] /\ claimFresh'[d] = claimFresh[d]
      BY <1>b, <1>6 DEF SetClaimStatus, WriteClaim
  <2> QED BY <1>c, <1>6, <2>1
<1>7. ASSUME ClearStatus(w) PROVE ClaimTurn(w)
  <2> DEFINE c == job[w].claim
             r == [claim[c] EXCEPT !.node = None, !.phase = IF @ = "deallocate" THEN "live" ELSE @]
  <2>1. c \in Claims
      BY <1>0, <1>7 DEF ClearStatus, Shape, ClaimPCs
  <2>2. r.node = None
      BY <1>b, <2>1 DEF ClaimType
  <2>3. WriteClaim(w, c, r)
      BY <1>7 DEF ClearStatus
  <2> HIDE DEF c, r
  <2>4. /\ claim'[c].node = None /\ claimFresh'[c] = {w}
        /\ \A d \in Claims \ {c} : claim'[d] = claim[d] /\ claimFresh'[d] = claimFresh[d]
      BY <1>b, <2>1, <2>2, <2>3 DEF WriteClaim
  <2> QED BY <1>c, <2>1, <2>4
<1>8. ASSUME RemoveFinalizer(w) PROVE ClaimTurn(w)
  <2> DEFINE c == job[w].claim
             r == [claim[c] EXCEPT !.finalizer = FALSE, !.phase = IF @ = "delete" THEN "gone" ELSE @]
  <2>1. c \in Claims
      BY <1>0, <1>8 DEF RemoveFinalizer, Shape, ClaimPCs
  <2>2. r.node = claim[c].node /\ (r.phase = "live" => claim[c].phase = "live")
      BY <1>b, <2>1 DEF ClaimType
  <2>3. claim' = [claim EXCEPT ![c] = r] /\ claimFresh' = [claimFresh EXCEPT ![c] = {}]
      BY <1>8 DEF RemoveFinalizer
  <2> HIDE DEF c, r
  <2>4. /\ claim'[c] = r /\ claimFresh'[c] = {}
        /\ \A d \in Claims \ {c} : claim'[d] = claim[d] /\ claimFresh'[d] = claimFresh[d]
      BY <1>b, <2>1, <2>3
  <2> QED BY <1>c, <2>1, <2>2, <2>4
<1> QED BY <1>2, <1>3, <1>4, <1>5, <1>6, <1>7, <1>8, PodStepsSteady, ClaimStepsSteady
        DEF Continues, UnsuitableStep, AllocateStep, ClaimStep, Panics

\* The steps of worker w keep what it has recorded: a claim it has passed by now
\* is in the NAS, or it had passed it before and knew no more of it.
Follows(w) ==
    /\ AtSelected(job'[w])
    /\ job'[w].pc \in Allocating /\ job'[w].pod # None =>
          \A c \in job'[w].cas \ job'[w].todo :
             \/ c \in nas[job'[w].sel].spec.claims
             \/ /\ job[w].pc \in Allocating /\ job[w].pod # None /\ job[w].sel = job'[w].sel
                /\ c \in job[w].cas \ job[w].todo
                /\ claim'[c] = claim[c] /\ (w \in claimFresh'[c] => w \in claimFresh[c])

\* A worker that goes where nothing is recorded.
LEMMA LeaveFollows ==
    ASSUME TypeInv, NEW w \in Workers, NEW j, Become(w, j),
           j.pc \notin Allocating, j.pc \notin {"latest", "release"}
    PROVE  Follows(w)
<1>1. job'[w] = j
    BY BecomeJob
<1> QED BY <1>1 DEF Follows, Allocating, AtSelected

\* A worker that goes on with the same claims to allocate, or with a deallocation.
LEMMA StayFollows ==
    ASSUME TypeInv, NEW w \in Workers, NEW j, Become(w, j), AtSelected(j),
           UNCHANGED <<claim, claimFresh>>,
           \/ j.pod = None
           \/ /\ job[w].pc \in Allocating /\ j.pod = job[w].pod /\ j.sel = job[w].sel
              /\ j.cas \ j.todo \subseteq job[w].cas \ job[w].todo
    PROVE  Follows(w)
<1>1. job'[w] = j
    BY BecomeJob
<1> QED BY <1>1 DEF Follows

LEMMA PCsApart ==
    /\ Allocating \cap {"idle", "unsuitable", "visit", "remove", "place", "finalize",
                        "dealloc", "latest", "release", "clear", "unfinalize"} = {}
    /\ UpdatePCs \subseteq Allocating
BY DEF Allocating, UpdatePCs

LEMMA UnsuitableFollows ==
    ASSUME TypeInv, NEW w \in Workers, UnsuitableStep(w), ~Panics(w)
    PROVE  Follows(w)
<1>0. job \in [Workers -> JobType] /\ job[w] \in JobType /\ Shape(job[w])
    BY DEF TypeInv, TypeOK, ShapeOK
<1>1. job'[w].pc \in {"unsuitable"} \cup Planning
  <2>1. ASSUME PlanSteps(w) PROVE job'[w].pc \in Planning
      BY <2>1, PlanStepsPCs
  <2>2. ASSUME NEW n \in Nodes, UnsuitableNotReady(w, n) PROVE job'[w].pc = "unsuitable"
      BY <1>0, <2>2 DEF UnsuitableNotReady, Become, JobType
  <2>3. ASSUME NEW c \in Claims, PlaceFails(w, c) PROVE job'[w].pc = "unsuitable"
      BY <1>0, <2>3 DEF PlaceFails, Become, JobType
  <2>4. ASSUME UnsuitableDone(w) PROVE job'[w].pc = "unsuitable"
      BY <1>0, <2>4 DEF UnsuitableDone, Become, JobType
  <2> QED BY <2>1, <2>2, <2>3, <2>4 DEF UnsuitableStep, PlanSteps, Panics
<1> QED BY <1>1, PCsApart DEF Follows, AtSelected, Planning, Allocating

LEMMA StartsFollows ==
    ASSUME TypeInv, NEW w \in Workers, Starts(w)
    PROVE  Follows(w)
<1>1. ASSUME NEW p \in Pods, SyncPod(w, p) PROVE Follows(w)
  <2> DEFINE cas == {c \in ClaimsOf(p) : claim[c].node = None}
             first(nodes, sel) ==
                [Idle EXCEPT !.pc = "unsuitable", !.pod = p, !.sel = sel, !.nodes = nodes,
                             !.cas = cas, !.finalized = {c \in cas : claim[c].finalizer}]
  <2>1. PICK nodes, sel : Become(w, first(nodes, sel))
      BY <1>1 DEF SyncPod
  <2>2. first(nodes, sel).pc = "unsuitable"
      BY DEF Idle
  <2> HIDE DEF first
  <2> QED BY <2>1, <2>2, LeaveFollows, PCsApart
<1>2. ASSUME NEW c \in Claims, SyncClaim(w, c) PROVE Follows(w)
  <2> DEFINE pc == IF SelectedNode(c) = None THEN "unfinalize" ELSE "dealloc"
             j == [Idle EXCEPT !.pc = pc, !.claim = c, !.sel = SelectedNode(c)]
  <2>1. j.pc \in {"unfinalize", "dealloc"}
      BY DEF Idle
  <2>2. Become(w, j)
      BY <1>2 DEF SyncClaim
  <2> HIDE DEF j
  <2> QED BY <2>1, <2>2, LeaveFollows, PCsApart
<1> QED BY <1>1, <1>2 DEF Starts

LEMMA IdleFollows ==
    ASSUME TypeInv, NEW w \in Workers, Become(w, Idle)
    PROVE  Follows(w)
<1>1. Idle.pc = "idle"
    BY DEF Idle
<1> QED BY <1>1, LeaveFollows, PCsApart

\* allocate, the finalizers and the statuses.
LEMMA AllocateFollows ==
    ASSUME TypeInv, CopyInv, BackedInv, NEW w \in Workers, AllocateStep(w)
    PROVE  Follows(w)
<1>0. job \in [Workers -> JobType] /\ job[w] \in JobType /\ Shape(job[w])
    BY DEF TypeInv, TypeOK, ShapeOK
<1>a. claim \in [Claims -> ClaimType] /\ claimFresh \in [Claims -> SUBSET Workers]
    BY DEF TypeInv, TypeOK
<1>s. AtSelected(job[w])
    BY DEF BackedInv
<1>1. ASSUME StartAllocate(w) PROVE Follows(w)
    BY <1>0, <1>1, LeaveFollows, PCsApart DEF StartAllocate, JobType
<1>2. ASSUME SyncPodDone(w) PROVE Follows(w)
    BY <1>2, IdleFollows DEF SyncPodDone, Return
<1>3. ASSUME FinalizersAdded(w) PROVE Follows(w)
  <2>1. job'[w].pc = "allocate" /\ job'[w].todo = job'[w].cas
      BY <1>0, <1>3 DEF FinalizersAdded, Become, JobType
  <2> QED BY <2>1 DEF Follows, AtSelected, UpdatePCs
<1>4. ASSUME NEW c \in Claims, AddFinalizer(w, c) \/ AddFinalizerFails(w, c) PROVE Follows(w)
  <2>1. job'[w].pc = "finalize"
      BY <1>0, <1>4 DEF AddFinalizer, AddFinalizerFails, Become, JobType
  <2> QED BY <2>1, PCsApart DEF Follows, AtSelected, UpdatePCs
<1>5. ASSUME NEW c \in Claims, AllocateGet(w, c) PROVE Follows(w)
  <2> DEFINE j == [job[w] EXCEPT !.pc = "exists", !.node = job[w].sel, !.claim = c,
                                 !.crd = nas[job[w].sel].spec]
  <2>1. /\ j.pod = job[w].pod /\ j.sel = job[w].sel /\ j.node = job[w].sel
        /\ j.cas = job[w].cas /\ j.todo = job[w].todo
      BY <1>0 DEF JobType
  <2>2. Become(w, j)
      BY <1>5 DEF AllocateGet
  <2> HIDE DEF j
  <2> QED BY <1>5, <2>1, <2>2, StayFollows DEF AllocateGet, AtSelected, Allocating
<1>6. ASSUME NEW c \in Claims, AllocateExists(w, c) PROVE Follows(w)
  <2>1. /\ job[w].pc = "allocate" /\ job'[w].pc = "allocate" /\ job'[w].pod = job[w].pod
        /\ job'[w].sel = job[w].sel /\ job'[w].cas = job[w].cas
        /\ job'[w].todo = job[w].todo \ {c} /\ c \in nas[job[w].sel].spec.claims
      BY <1>0, <1>6 DEF AllocateExists, Become, JobType
  <2> QED BY <1>6, <2>1 DEF AllocateExists, Follows, AtSelected, UpdatePCs, Allocating
<1>7. ASSUME NEW c \in Claims, AllocateNotReady(w, c) PROVE Follows(w)
  <2>1. /\ job[w].pc = "allocate" /\ job'[w].pc = "allocate" /\ job'[w].pod = job[w].pod
        /\ job'[w].sel = job[w].sel /\ job'[w].cas = job[w].cas \ {c}
        /\ job'[w].todo = job[w].todo \ {c}
      BY <1>0, <1>7 DEF AllocateNotReady, Become, JobType
  <2> QED BY <1>7, <2>1 DEF AllocateNotReady, Follows, AtSelected, UpdatePCs, Allocating
<1>8. ASSUME NEW c \in Claims, SetClaimStatus(w, c) PROVE Follows(w)
  <2>1. /\ job[w].pc = "allocate" /\ job'[w].pc = "allocate" /\ job'[w].pod = job[w].pod
        /\ job'[w].sel = job[w].sel /\ job'[w].cas = job[w].cas \ {c}
        /\ job'[w].todo = job[w].todo
      BY <1>0, <1>8 DEF SetClaimStatus, Become, JobType
  <2>2. \A d \in Claims \ {c} : claim'[d] = claim[d] /\ claimFresh'[d] = claimFresh[d]
      BY <1>a, <1>8 DEF SetClaimStatus, WriteClaim
  <2>3. job[w].cas \subseteq Claims
      BY <1>0 DEF JobType
  <2> QED BY <2>1, <2>2, <2>3 DEF Follows, AtSelected, UpdatePCs, Allocating
<1>9. ASSUME NEW c \in Claims, SetClaimStatusFails(w, c) PROVE Follows(w)
  <2>1. /\ job[w].pc = "allocate" /\ job'[w].pc = "allocate" /\ job'[w].pod = job[w].pod
        /\ job'[w].sel = job[w].sel /\ job'[w].cas = job[w].cas \ {c}
        /\ job'[w].todo = job[w].todo
      BY <1>0, <1>9 DEF SetClaimStatusFails, Become, JobType
  <2> QED BY <1>9, <2>1 DEF SetClaimStatusFails, Follows, AtSelected, UpdatePCs, Allocating
<1>10. ASSUME AllocatePending(w) PROVE Follows(w)
  <2>1. /\ job[w].pc = "exists" /\ job'[w].pc = "take" /\ job'[w].pod = job[w].pod
        /\ job'[w].sel = job[w].sel /\ job'[w].cas = job[w].cas /\ job'[w].node = job[w].node
        /\ job'[w].todo = job[w].todo
      BY <1>0, <1>10 DEF AllocatePending, Become, JobType
  <2> QED BY <1>s, <1>10, <2>1 DEF AllocatePending, Follows, AtSelected, Allocating
<1>11. ASSUME AllocateTake(w) PROVE Follows(w)
  <2>1. /\ job[w].pc = "take" /\ job'[w].pc = "updateGet" /\ job'[w].pod = job[w].pod
        /\ job'[w].sel = job[w].sel /\ job'[w].cas = job[w].cas /\ job'[w].node = job[w].node
        /\ job'[w].todo = job[w].todo
      BY <1>0, <1>11 DEF AllocateTake, Become, JobType
  <2> QED BY <1>s, <1>11, <2>1 DEF AllocateTake, Follows, AtSelected, Allocating
<1>12. ASSUME AllocateSuccess(w) PROVE Follows(w)
  <2>1. /\ job[w].pc = "updated" /\ job[w].pod # None
        /\ job'[w].pc = "allocate" /\ job'[w].pod = job[w].pod
        /\ job'[w].sel = job[w].sel /\ job'[w].cas = job[w].cas
        /\ job'[w].todo = job[w].todo \ {job[w].claim}
      BY <1>0, <1>12 DEF AllocateSuccess, Become, JobType
  <2>2. Copy(job[w], nas[job[w].node].spec) /\ job[w].node = job[w].sel
      BY <1>s, <2>1 DEF CopyInv, AtNode, UpdatePCs, AtSelected
  <2>3. job[w].claim \in nas[job[w].sel].spec.claims
      BY <2>1, <2>2 DEF Copy
  <2> QED BY <1>12, <2>1, <2>3 DEF AllocateSuccess, Follows, AtSelected, Allocating, UpdatePCs
<1>13. ASSUME AllocateNotPending(w) \/ AllocateFails(w) PROVE Follows(w)
  <2>1. /\ job[w].pc \in Allocating /\ job'[w].pc = "allocate" /\ job'[w].pod = job[w].pod
        /\ job'[w].sel = job[w].sel /\ job'[w].cas = job[w].cas \ {job[w].claim}
        /\ job'[w].todo = job[w].todo \ {job[w].claim}
    <3>1. job[w].pc \in Allocating /\ DropClaim(w)
        BY <1>13 DEF AllocateNotPending, AllocateFails, Allocating, UpdatePCs
    <3> QED BY <1>0, <3>1 DEF DropClaim, Become, JobType
  <2> QED BY <1>13, <2>1
          DEF AllocateNotPending, AllocateFails, Follows, AtSelected, UpdatePCs, Allocating
<1> QED BY <1>1, <1>2, <1>3, <1>4, <1>5, <1>6, <1>7, <1>8, <1>9, <1>10, <1>11, <1>12, <1>13
        DEF AllocateStep

\* Client.Update and Deallocate.
LEMMA ReleaseFollows ==
    ASSUME TypeInv, BackedInv, NEW w \in Workers, UpdateStep(w) \/ ClaimStep(w)
    PROVE  Follows(w)
<1>0. job \in [Workers -> JobType] /\ job[w] \in JobType /\ Shape(job[w])
    BY DEF TypeInv, TypeOK, ShapeOK
<1>s. AtSelected(job[w])
    BY DEF BackedInv
<1>u. ASSUME job[w].pc \in UpdatePCs, job'[w].pc \in UpdatePCs, job'[w].pod = job[w].pod,
             job'[w].sel = job[w].sel, job'[w].node = job[w].node,
             job'[w].cas = job[w].cas, job'[w].todo = job[w].todo,
             UNCHANGED <<claim, claimFresh>>
      PROVE  Follows(w)
    BY <1>s, <1>u, PCsApart DEF Follows, AtSelected
<1>1. ASSUME UpdateGet(w) PROVE Follows(w)
    BY <1>0, <1>1, <1>u DEF UpdateGet, Become, JobType, UpdatePCs
<1>2. ASSUME UpdateGetFails(w) PROVE Follows(w)
    BY <1>0, <1>2, <1>u DEF UpdateGetFails, Become, JobType, UpdatePCs
<1>3. ASSUME UpdatePut(w) PROVE Follows(w)
    BY <1>0, <1>3, <1>u DEF UpdatePut, Become, JobType, UpdatePCs
<1>4. ASSUME UpdateConflict(w) \/ UpdateError(w) PROVE Follows(w)
  <2>1. CountTry(w) /\ job[w].pc = "updatePut" /\ UNCHANGED <<claim, claimFresh>>
      BY <1>4 DEF UpdateConflict, UpdateError
  <2> QED BY <1>0, <1>u, <2>1 DEF CountTry, Become, JobType, UpdatePCs
<1>5. ASSUME DeallocateGet(w) PROVE Follows(w)
  <2>0. job[w].pod = None
      BY <1>0, <1>5 DEF DeallocateGet, Shape, ClaimPCs
  <2>1. CASE Become(w, [job[w] EXCEPT !.pc = "latest", !.node = job[w].sel])
    <3>1. job'[w].pod = None /\ job'[w].node = job[w].sel /\ job'[w].sel = job[w].sel
        BY <1>0, <2>0, <2>1 DEF Become, JobType
    <3> QED BY <3>1 DEF Follows, AtSelected
  <2>2. CASE Become(w, [job[w] EXCEPT !.pc = "clear"])
      BY <1>0, <2>2, LeaveFollows, PCsApart DEF JobType
  <2> QED BY <1>5, <2>1, <2>2 DEF DeallocateGet
<1>6. ASSUME DeallocateLatest(w) PROVE Follows(w)
  <2>1. /\ job[w].pc = "latest" /\ job'[w].pc = "release" /\ job'[w].pod = job[w].pod
        /\ job'[w].sel = job[w].sel /\ job'[w].node = job[w].node
      BY <1>0, <1>6 DEF DeallocateLatest, Become, JobType
  <2> QED BY <1>s, <2>1, PCsApart DEF Follows, AtSelected
<1>7. ASSUME DeallocateRelease(w) PROVE Follows(w)
  <2>1. /\ job[w].pc = "release" /\ job'[w].pc = "updateGet" /\ job'[w].pod = job[w].pod
        /\ job'[w].sel = job[w].sel /\ job'[w].node = job[w].node
      BY <1>0, <1>7 DEF DeallocateRelease, Become, JobType
  <2>2. job[w].pod = None
      BY <1>0, <2>1 DEF Shape, ClaimPCs
  <2> QED BY <1>s, <2>1, <2>2 DEF Follows, AtSelected
<1>8. ASSUME DeallocateDone(w) PROVE Follows(w)
    BY <1>0, <1>8, LeaveFollows, PCsApart DEF DeallocateDone, JobType
<1>9. ASSUME ClearStatus(w) PROVE Follows(w)
    BY <1>0, <1>9, LeaveFollows, PCsApart DEF ClearStatus, JobType
<1>10. ASSUME DeallocateFails(w) \/ RemoveFinalizer(w) \/ ClaimWriteFails(w) PROVE Follows(w)
    BY <1>10, IdleFollows DEF DeallocateFails, RemoveFinalizer, ClaimWriteFails, Return
<1> QED BY <1>1, <1>2, <1>3, <1>4, <1>5, <1>6, <1>7, <1>8, <1>9, <1>10
        DEF UpdateStep, ClaimStep

LEMMA StepsFollows ==
    ASSUME TypeInv, CopyInv, BackedInv, NEW w \in Workers, Starts(w) \/ Continues(w), ~Panics(w)
    PROVE  Follows(w)
BY StartsFollows, UnsuitableFollows, AllocateFollows, ReleaseFollows DEF Continues

\* No step takes a claim that is still wanted out of a NAS.
LEMMA WantedKept ==
    ASSUME TypeInv, CopyInv, StatusInv, [Next]_vars, NEW n \in Nodes, NEW c \in Claims,
           c \in nas[n].spec.claims, claim[c].phase = "live"
    PROVE  c \in nas'[n].spec.claims
BY EntryKept DEF StatusInv, DeallocInv, GivenUp

\* Only Client.Update changes a NAS, and nothing else that a worker does.
LEMMA NasKept ==
    ASSUME TypeInv, NEW w \in Workers, Starts(w) \/ Continues(w), ~Panics(w)
    PROVE  UNCHANGED nas \/ UpdateStep(w)
<1>1. ASSUME StepsAway(w) PROVE UNCHANGED nas
    BY <1>1, StepsAwayAre DEF Away
<1>2. ASSUME StepsAt(w), ~UpdateStep(w) PROVE UNCHANGED nas
    BY <1>2, PlanStepsPCs
       DEF StepsAt, PlanSteps, AllocateGet, AllocatePending, AllocateTake, DeallocateGet,
           DeallocateLatest, DeallocateRelease
<1> QED BY <1>1, <1>2, StepKinds

LEMMA UpdateKeeps ==
    ASSUME TypeInv, NEW w \in Workers, UpdateStep(w)
    PROVE  /\ job[w].pc \in UpdatePCs /\ job'[w].pc \in UpdatePCs
           /\ job'[w].pod = job[w].pod /\ job'[w].sel = job[w].sel
           /\ job'[w].cas = job[w].cas /\ job'[w].todo = job[w].todo
<1>0. job \in [Workers -> JobType] /\ job[w] \in JobType
    BY DEF TypeInv, TypeOK
<1>1. CASE UpdateGet(w)
    BY <1>0, <1>1 DEF UpdateGet, Become, JobType, UpdatePCs
<1>2. CASE UpdateGetFails(w)
    BY <1>0, <1>2 DEF UpdateGetFails, Become, JobType, UpdatePCs
<1>3. CASE UpdatePut(w)
    BY <1>0, <1>3 DEF UpdatePut, Become, JobType, UpdatePCs
<1>4. CASE UpdateConflict(w) \/ UpdateError(w)
  <2>1. CountTry(w) /\ job[w].pc = "updatePut"
      BY <1>4 DEF UpdateConflict, UpdateError
  <2> QED BY <1>0, <2>1 DEF CountTry, Become, JobType, UpdatePCs
<1> QED BY <1>1, <1>2, <1>3, <1>4 DEF UpdateStep

LEMMA RestartBacked ==
    ASSUME TypeInv, BackedInv, Restart
    PROVE  BackedInv'
<1>1. \A w \in Workers : job'[w] = Idle
    BY DEF Restart
<1>2. Idle.pc = "idle"
    BY DEF Idle
<1>3. \A w \in Workers : (Recorded(w) /\ AtSelected(job[w]))'
    BY <1>1, <1>2, PCsApart DEF Recorded, AtSelected
<1> QED BY <1>3 DEF BackedInv, StatusBacked, Restart

LEMMA NextBacked ==
    TypeInv /\ LockInv /\ CopyInv /\ StatusInv /\ BackedInv /\ [Next]_vars => BackedInv'
<1> SUFFICES ASSUME TypeInv, LockInv, CopyInv, StatusInv, BackedInv, [Next]_vars PROVE BackedInv'
    OBVIOUS
<1>a. \A v \in Workers : /\ job[v].cas \subseteq Claims
                         /\ job[v].pc \in Allocating /\ job[v].pod # None => job[v].sel \in Nodes
    BY DEF TypeInv, TypeOK, ShapeOK, Shape, JobType, Allocating
<1>b. claim \in [Claims -> ClaimType] /\ claimFresh \in [Claims -> SUBSET Workers]
    BY DEF TypeInv, TypeOK
<1>1. ASSUME NEW w \in Workers, Starts(w) \/ Continues(w) PROVE BackedInv'
  <2>1. CASE Panics(w)
      BY <2>1, RestartBacked DEF Panics, Panic
  <2>2. CASE ~Panics(w)
    <3>1. ClaimTurn(w) /\ Follows(w) /\ \A v \in Workers \ {w} : job'[v] = job[v]
      <4>1. \A v \in Workers \ {w} : job'[v] = job[v]
          BY <1>1, <2>2, StepsTurn DEF Turn
      <4> QED BY <1>1, <2>2, <4>1, StepsClaimTurn, StepsFollows
    <3>2. ASSUME NEW c \in Claims, claim'[c].phase = "live", claim'[c].node # None
          PROVE  c \in nas'[claim'[c].node].spec.claims
      <4>1. CASE claim[c].phase = "live" /\ claim[c].node = claim'[c].node
        <5>1. c \in nas[claim[c].node].spec.claims /\ claim[c].node \in Nodes
            BY <1>b, <3>2, <4>1 DEF BackedInv, StatusBacked, ClaimType
        <5> QED BY <4>1, <5>1, WantedKept
      <4>2. CASE SetClaimStatus(w, c)
        <5>1. /\ job[w].pc = "allocate" /\ c \in job[w].cas \ job[w].todo /\ w \in claimFresh[c]
              /\ UNCHANGED nas
            BY <4>2 DEF SetClaimStatus, IsNext
        <5>2. claim'[c].node = job[w].sel /\ claim'[c].phase = claim[c].phase
            BY <1>b, <4>2 DEF SetClaimStatus, WriteClaim, AllocatedOn, ClaimType
        <5>3. job[w].pod # None /\ job[w].pc \in Allocating
            BY <5>1, NoneAssumption DEF TypeInv, ShapeOK, Shape, PodPCs, Allocating
        <5> QED BY <3>2, <5>1, <5>2, <5>3 DEF BackedInv, Recorded
      <4> QED BY <3>1, <3>2, <4>1, <4>2 DEF ClaimTurn
    <3>3. ASSUME NEW v \in Workers PROVE Recorded(v)'
      <4> SUFFICES ASSUME job'[v].pc \in Allocating, job'[v].pod # None,
                          NEW c \in job'[v].cas \ job'[v].todo,
                          v \in claimFresh'[c], claim'[c].phase = "live"
                   PROVE  c \in nas'[job'[v].sel].spec.claims
          BY DEF Recorded
      <4>1. CASE v # w
        <5>1. job'[v] = job[v] /\ c \in Claims
            BY <1>a, <3>1, <4>1
        <5>2. v \in claimFresh[c] /\ claim[c].phase = "live"
            BY <3>1, <4>1, <5>1 DEF ClaimTurn
        <5>3. c \in nas[job[v].sel].spec.claims
            BY <5>1, <5>2 DEF BackedInv, Recorded
        <5> QED BY <1>a, <5>1, <5>2, <5>3, WantedKept
      <4>2. CASE v = w
        <5>1. CASE /\ job[w].pc \in Allocating /\ job[w].pod # None /\ job[w].sel = job'[w].sel
                   /\ c \in job[w].cas \ job[w].todo
                   /\ claim'[c] = claim[c] /\ (w \in claimFresh'[c] => w \in claimFresh[c])
          <6>1. c \in nas[job[w].sel].spec.claims
              BY <4>2, <5>1 DEF BackedInv, Recorded
          <6> QED BY <1>a, <4>2, <5>1, <6>1, WantedKept
        <5>2. CASE c \in nas[job'[w].sel].spec.claims
          <6>1. CASE UNCHANGED nas
              BY <4>2, <5>2, <6>1
          <6>2. CASE UpdateStep(w)
            <7>1. UNCHANGED claim
                BY <6>2 DEF UpdateStep, UpdateGet, UpdateGetFails, UpdatePut, UpdateConflict,
                            UpdateError
            <7>2. job'[w].sel \in Nodes
                BY <4>2, <6>2, UpdateKeeps, PCsApart, <1>a
            <7>3. c \in Claims
                BY <4>2, <6>2, UpdateKeeps, PCsApart, <1>a
            <7> QED BY <4>2, <5>2, <7>1, <7>2, <7>3, WantedKept
          <6> QED BY <1>1, <2>2, <6>1, <6>2, NasKept
        <5> QED BY <3>1, <4>2, <5>1, <5>2 DEF Follows
      <4> QED BY <4>1, <4>2
    <3>4. ASSUME NEW v \in Workers PROVE AtSelected(job'[v])
        BY <3>1 DEF Follows, BackedInv
    <3> QED BY <3>2, <3>3, <3>4 DEF BackedInv, StatusBacked
  <2> QED BY <2>1, <2>2
<1>2. ASSUME NEW c \in Claims, DeleteClaim(c) \/ RequestDeallocate(c) PROVE BackedInv'
  <2>1. /\ claim'[c].phase # "live" /\ UNCHANGED <<nas, job>>
        /\ \A d \in Claims \ {c} : claim'[d] = claim[d] /\ claimFresh'[d] = claimFresh[d]
      BY <1>b, <1>2 DEF DeleteClaim, RequestDeallocate, ClaimType
  <2> QED BY <1>a, <2>1 DEF BackedInv, StatusBacked, Recorded
<1>3. ASSUME NEW n \in Nodes, SetStatus(n) PROVE BackedInv'
  <2>1. (\A m \in Nodes : nas'[m].spec = nas[m].spec) /\ UNCHANGED <<claim, claimFresh, job>>
      BY <1>3 DEF SetStatus, TypeInv, TypeOK
  <2>2. \A c \in Claims : claim[c].node # None => claim[c].node \in Nodes
      BY <1>b DEF ClaimType
  <2> QED BY <1>a, <2>1, <2>2 DEF BackedInv, StatusBacked, Recorded
<1>4. ASSUME Crash PROVE BackedInv'
    BY <1>4, RestartBacked DEF Crash
<1>5. CASE UNCHANGED vars
    BY <1>5 DEF vars, BackedInv, StatusBacked, Recorded
<1> QED BY <1>1, <1>2, <1>3, <1>4, <1>5 DEF Next, Environment

LEMMA InitBacked == Init => BackedInv
<1> SUFFICES ASSUME Init PROVE BackedInv
    OBVIOUS
<1>1. Idle.pc = "idle" /\ \A w \in Workers : job[w] = Idle
    BY DEF Init, ControllerInit, Idle
<1> QED BY <1>1, PCsApart DEF BackedInv, StatusBacked, Recorded, AtSelected, Init, ControllerInit

THEOREM BackedInvariant == Spec => []BackedInv
<1> QED BY InitBacked, NextBacked, TypeInvariant, LockInvariant, CopyInvariant, StatusInvariant, PTL DEF Spec

\* A claim whose status says that it is allocated on a node is in the NAS of that
\* node until its release is asked for, whatever fails between the two writes.
THEOREM StatusIsBacked == Spec => []StatusBacked
<1>1. BackedInv => StatusBacked
    BY DEF BackedInv
<1> QED BY <1>1, BackedInvariant, PTL

----------------------------------------------------------------------------
(***************************************************************************)
(* The claims that a worker is to allocate.                                *)
(***************************************************************************)

\* A loop over the claims of a pod: what is left of it is still to be allocated,
\* the claim at hand is left, and a claim that the copy has needs no CPUs.
Loop(j) ==
    /\ j.todo \subseteq j.cas
    /\ j.pc \in {"exists", "take"} \cup UpdatePCs /\ j.pod # None => j.claim \in j.todo
    /\ j.pc = "place" => \A c \in j.crd.claims : j.plan[c] = {}

\* A worker starts without a loop, or ends one.
LEMMA IdleLoop == Loop(Idle)
BY DEF Loop, Idle, UpdatePCs

LEMMA StartsLoop ==
    ASSUME TypeInv, NEW w \in Workers, Starts(w)
    PROVE  Loop(job'[w])
<1>1. ASSUME NEW p \in Pods, SyncPod(w, p) PROVE Loop(job'[w])
  <2> DEFINE cas == {c \in ClaimsOf(p) : claim[c].node = None}
             first(nodes, sel) ==
                [Idle EXCEPT !.pc = "unsuitable", !.pod = p, !.sel = sel, !.nodes = nodes,
                             !.cas = cas, !.finalized = {c \in cas : claim[c].finalizer}]
  <2>1. PICK nodes, sel : Become(w, first(nodes, sel))
      BY <1>1 DEF SyncPod
  <2>2. first(nodes, sel).pc = "unsuitable" /\ first(nodes, sel).todo = {}
      BY DEF Idle
  <2> HIDE DEF first
  <2>3. job'[w] = first(nodes, sel)
      BY <2>1, BecomeJob
  <2> QED BY <2>2, <2>3 DEF Loop, UpdatePCs
<1>2. ASSUME NEW c \in Claims, SyncClaim(w, c) PROVE Loop(job'[w])
  <2> DEFINE pc == IF SelectedNode(c) = None THEN "unfinalize" ELSE "dealloc"
             j == [Idle EXCEPT !.pc = pc, !.claim = c, !.sel = SelectedNode(c)]
  <2>1. j.pc # "place" /\ j.todo = {} /\ j.pod = None
      BY DEF Idle
  <2>2. Become(w, j)
      BY <1>2 DEF SyncClaim
  <2> HIDE DEF j
  <2>3. job'[w] = j
      BY <2>2, BecomeJob
  <2> QED BY <2>1, <2>3 DEF Loop
<1> QED BY <1>1, <1>2 DEF Starts

LEMMA UnsuitableLoop ==
    ASSUME TypeInv, BudgetInv, NEW w \in Workers, Loop(job[w]), UnsuitableStep(w), ~Panics(w)
    PROVE  Loop(job'[w])
<1>0. job \in [Workers -> JobType] /\ job[w] \in JobType /\ Shape(job[w])
    BY DEF TypeInv, TypeOK, ShapeOK
<1>b. ASSUME NEW j, Become(w, j), j.todo \subseteq j.cas,
             j.pc \in {"unsuitable", "visit", "remove"}
      PROVE  Loop(job'[w])
    BY <1>b, BecomeJob DEF Loop, UpdatePCs
<1>c. ASSUME NEW j, Become(w, j), j.todo \subseteq j.cas, j.pc = "place",
             \A c \in j.crd.claims : j.plan[c] = {}
      PROVE  Loop(job'[w])
    BY <1>c, BecomeJob DEF Loop, UpdatePCs
<1>1. ASSUME NEW n \in Nodes, UnsuitableGet(w, n) PROVE Loop(job'[w])
    BY <1>0, <1>b, <1>1 DEF UnsuitableGet, JobType, Loop
<1>2. ASSUME NEW n \in Nodes, UnsuitableNotReady(w, n) PROVE Loop(job'[w])
    BY <1>0, <1>b, <1>2 DEF UnsuitableNotReady, JobType, Loop
<1>3. ASSUME NEW c \in Claims, VisitPending(w, c) PROVE Loop(job'[w])
    BY <1>0, <1>b, <1>3 DEF VisitPending, JobType, Loop
<1>4. ASSUME NEW c \in Claims, PlaceClaim(w, c) PROVE Loop(job'[w])
  <2> DEFINE placed(S) == [job[w] EXCEPT !.todo = @ \ {c}, !.plan[c] = S]
             kept == [job[w] EXCEPT !.todo = @ \ {c}]
  <2>1. job[w].pc = "place" /\ job[w].crd.claims \subseteq Claims
      BY <1>0, <1>4 DEF PlaceClaim, JobType, SpecType
  <2>2. /\ kept.cas = job[w].cas /\ kept.todo = job[w].todo \ {c} /\ kept.pc = "place"
        /\ kept.crd = job[w].crd /\ kept.plan = job[w].plan
        /\ \A S : /\ placed(S).cas = job[w].cas /\ placed(S).todo = job[w].todo \ {c}
                  /\ placed(S).pc = "place" /\ placed(S).crd = job[w].crd
                  /\ \A d \in Claims \ {c} : placed(S).plan[d] = job[w].plan[d]
      BY <1>0, <2>1 DEF JobType
  <2>3. \/ Become(w, kept)
        \/ c \notin job[w].crd.claims /\ \E S : Become(w, placed(S))
      BY <1>4, Zenon DEF PlaceClaim
  <2> HIDE DEF placed, kept
  <2>4. \A d \in job[w].crd.claims : job[w].plan[d] = {}
      BY <2>1 DEF Loop
  <2>5. CASE Become(w, kept)
      BY <1>c, <2>2, <2>4, <2>5 DEF Loop
  <2>6. ASSUME c \notin job[w].crd.claims, NEW S, Become(w, placed(S)) PROVE Loop(job'[w])
    <3>1. \A d \in job[w].crd.claims : placed(S).plan[d] = {}
        BY <2>1, <2>2, <2>4, <2>6
    <3> QED BY <1>c, <2>2, <2>6, <3>1 DEF Loop
  <2> QED BY <2>3, <2>5, <2>6
<1>5. ASSUME NEW c \in Claims, PlaceFails(w, c) PROVE Loop(job'[w])
    BY <1>0, <1>b, <1>5 DEF PlaceFails, JobType, Loop
<1>6. ASSUME NEW c \in Claims, PendingSet(w, c) PROVE Loop(job'[w])
  <2> DEFINE j == [job[w] EXCEPT !.plan[c] = {}]
  <2>1. /\ j.pc = "place" /\ j.todo = job[w].todo /\ j.cas = job[w].cas /\ j.crd = job[w].crd
        /\ \A d \in Claims : j.plan[d] \in {job[w].plan[d], {}}
      BY <1>0, <1>6 DEF PendingSet, JobType
  <2>2. Become(w, j) /\ job[w].pc = "place"
      BY <1>6 DEF PendingSet
  <2>3. job[w].crd.claims \subseteq Claims
      BY <1>0 DEF JobType, SpecType
  <2> HIDE DEF j
  <2> QED BY <1>c, <2>1, <2>2, <2>3 DEF Loop
<1>7. ASSUME VisitRemove(w) PROVE Loop(job'[w])
    BY <1>0, <1>b, <1>7 DEF VisitRemove, JobType, Loop
<1>8. ASSUME VisitDone(w) PROVE Loop(job'[w])
  <2> DEFINE j == [job[w] EXCEPT !.pc = "place", !.todo = job[w].cas, !.visited = {}]
  <2>1. j.pc = "place" /\ j.todo = j.cas /\ j.crd = job[w].crd /\ j.plan = job[w].plan
      BY <1>0 DEF JobType
  <2>2. Become(w, j) /\ job[w].plan = NoCpus
      BY <1>8 DEF VisitDone, BudgetInv, Fit
  <2>3. job[w].crd.claims \subseteq Claims
      BY <1>0 DEF JobType, SpecType
  <2> HIDE DEF j
  <2> QED BY <1>c, <2>1, <2>2, <2>3 DEF NoCpus
<1>9. ASSUME UnsuitableDone(w) PROVE Loop(job'[w])
    BY <1>0, <1>b, <1>9 DEF UnsuitableDone, JobType, Loop
<1> QED BY <1>1, <1>2, <1>3, <1>4, <1>5, <1>6, <1>7, <1>8, <1>9 DEF UnsuitableStep, Panics

LEMMA ContinuesLoop ==
    ASSUME TypeInv, NEW w \in Workers, Loop(job[w]),
           AllocateStep(w) \/ UpdateStep(w) \/ ClaimStep(w)
    PROVE  Loop(job'[w])
<1>0. job \in [Workers -> JobType] /\ job[w] \in JobType /\ Shape(job[w])
    BY DEF TypeInv, TypeOK, ShapeOK
<1>i. ASSUME Become(w, Idle) PROVE Loop(job'[w])
    BY <1>i, BecomeJob, IdleLoop
<1>b. ASSUME NEW j, Become(w, j), j.todo \subseteq j.cas, j.pc # "place",
             \/ j.pc \notin {"exists", "take"} \cup UpdatePCs
             \/ j.pod = None
             \/ j.claim \in j.todo
      PROVE  Loop(job'[w])
    BY <1>b, BecomeJob DEF Loop
<1>u. ASSUME NEW j, Become(w, j), job[w].pc \in {"exists", "take"} \cup UpdatePCs,
             j.todo = job[w].todo, j.cas = job[w].cas, j.pc # "place",
             j.claim = job[w].claim, j.pod = job[w].pod
      PROVE  Loop(job'[w])
    BY <1>b, <1>u DEF Loop
<1>1. ASSUME StartAllocate(w) PROVE Loop(job'[w])
    BY <1>0, <1>b, <1>1 DEF StartAllocate, JobType, UpdatePCs
<1>2. ASSUME SyncPodDone(w) PROVE Loop(job'[w])
    BY <1>i, <1>2 DEF SyncPodDone, Return
<1>3. ASSUME FinalizersAdded(w) PROVE Loop(job'[w])
    BY <1>0, <1>b, <1>3 DEF FinalizersAdded, JobType, UpdatePCs
<1>4. ASSUME NEW c \in Claims, AddFinalizer(w, c) PROVE Loop(job'[w])
    BY <1>0, <1>b, <1>4 DEF AddFinalizer, JobType, UpdatePCs, Loop
<1>5. ASSUME NEW c \in Claims, AddFinalizerFails(w, c) PROVE Loop(job'[w])
    BY <1>0, <1>b, <1>5 DEF AddFinalizerFails, JobType, UpdatePCs, Loop
<1>6. ASSUME NEW c \in Claims, AllocateGet(w, c) PROVE Loop(job'[w])
  <2> DEFINE j == [job[w] EXCEPT !.pc = "exists", !.node = job[w].sel, !.claim = c,
                                 !.crd = nas[job[w].sel].spec]
  <2>1. j.pc = "exists" /\ j.claim = c /\ j.todo = job[w].todo /\ j.cas = job[w].cas
      BY <1>0 DEF JobType
  <2>2. Become(w, j) /\ c \in job[w].todo
      BY <1>6 DEF AllocateGet, IsNext
  <2> HIDE DEF j
  <2> QED BY <1>b, <2>1, <2>2 DEF Loop
<1>7. ASSUME NEW c \in Claims, AllocateExists(w, c) PROVE Loop(job'[w])
    BY <1>0, <1>b, <1>7 DEF AllocateExists, JobType, UpdatePCs, Loop
<1>8. ASSUME NEW c \in Claims, AllocateNotReady(w, c) PROVE Loop(job'[w])
    BY <1>0, <1>b, <1>8 DEF AllocateNotReady, JobType, UpdatePCs, Loop
<1>9. ASSUME NEW c \in Claims, SetClaimStatus(w, c) PROVE Loop(job'[w])
    BY <1>0, <1>b, <1>9 DEF SetClaimStatus, JobType, UpdatePCs
<1>10. ASSUME NEW c \in Claims, SetClaimStatusFails(w, c) PROVE Loop(job'[w])
    BY <1>0, <1>b, <1>10 DEF SetClaimStatusFails, JobType, UpdatePCs
<1>11. ASSUME AllocatePending(w) PROVE Loop(job'[w])
    BY <1>0, <1>u, <1>11 DEF AllocatePending, JobType
<1>12. ASSUME AllocateTake(w) PROVE Loop(job'[w])
    BY <1>0, <1>u, <1>12 DEF AllocateTake, JobType
<1>13. ASSUME AllocateNotPending(w) \/ AllocateFails(w) PROVE Loop(job'[w])
  <2>1. DropClaim(w)
      BY <1>13 DEF AllocateNotPending, AllocateFails
  <2> QED BY <1>0, <1>b, <2>1 DEF DropClaim, JobType, UpdatePCs, Loop
<1>14. ASSUME AllocateSuccess(w) PROVE Loop(job'[w])
    BY <1>0, <1>b, <1>14 DEF AllocateSuccess, JobType, UpdatePCs, Loop
<1>15. ASSUME UpdateGet(w) PROVE Loop(job'[w])
    BY <1>0, <1>u, <1>15 DEF UpdateGet, JobType, UpdatePCs
<1>16. ASSUME UpdateGetFails(w) PROVE Loop(job'[w])
    BY <1>0, <1>u, <1>16 DEF UpdateGetFails, JobType, UpdatePCs
<1>17. ASSUME UpdatePut(w) PROVE Loop(job'[w])
    BY <1>0, <1>u, <1>17 DEF UpdatePut, JobType, UpdatePCs
<1>18. ASSUME UpdateConflict(w) \/ UpdateError(w) PROVE Loop(job'[w])
  <2>1. CountTry(w) /\ job[w].pc = "updatePut"
      BY <1>18 DEF UpdateConflict, UpdateError
  <2> QED BY <1>0, <1>u, <2>1 DEF CountTry, JobType, UpdatePCs
<1>19. ASSUME DeallocateGet(w) PROVE Loop(job'[w])
  <2>1. CASE Become(w, [job[w] EXCEPT !.pc = "latest", !.node = job[w].sel])
      BY <1>0, <1>b, <2>1 DEF JobType, UpdatePCs, Loop
  <2>2. CASE Become(w, [job[w] EXCEPT !.pc = "clear"])
      BY <1>0, <1>b, <2>2 DEF JobType, UpdatePCs, Loop
  <2> QED BY <1>19, <2>1, <2>2 DEF DeallocateGet
<1>20. ASSUME DeallocateLatest(w) PROVE Loop(job'[w])
    BY <1>0, <1>b, <1>20 DEF DeallocateLatest, JobType, UpdatePCs, Loop
<1>21. ASSUME DeallocateRelease(w) PROVE Loop(job'[w])
  <2>1. job[w].pod = None
      BY <1>0, <1>21 DEF DeallocateRelease, Shape, ClaimPCs
  <2> QED BY <1>0, <1>b, <1>21, <2>1 DEF DeallocateRelease, JobType, Loop
<1>22. ASSUME DeallocateDone(w) PROVE Loop(job'[w])
    BY <1>0, <1>b, <1>22 DEF DeallocateDone, JobType, UpdatePCs, Loop
<1>23. ASSUME ClearStatus(w) PROVE Loop(job'[w])
    BY <1>0, <1>b, <1>23 DEF ClearStatus, JobType, UpdatePCs, Loop
<1>24. ASSUME DeallocateFails(w) \/ RemoveFinalizer(w) \/ ClaimWriteFails(w) PROVE Loop(job'[w])
    BY <1>i, <1>24 DEF DeallocateFails, RemoveFinalizer, ClaimWriteFails, Return
<1> QED BY <1>1, <1>2, <1>3, <1>4, <1>5, <1>6, <1>7, <1>8, <1>9, <1>10, <1>11, <1>12, <1>13,
           <1>14, <1>15, <1>16, <1>17, <1>18, <1>19, <1>20, <1>21, <1>22, <1>23, <1>24
        DEF AllocateStep, UpdateStep, ClaimStep

LEMMA StepsLoop ==
    ASSUME TypeInv, BudgetInv, NEW w \in Workers, Loop(job[w]),
           Starts(w) \/ Continues(w), ~Panics(w)
    PROVE  Loop(job'[w])
BY StartsLoop, UnsuitableLoop, ContinuesLoop DEF Continues

\* No two pods use the same claim.
Own == \A p, q \in Pods : p # q => ClaimsOf(p) \cap ClaimsOf(q) = {}

\* The claims that job j is still to allocate are its pod's, and not allocated.
Unallocated(j) ==
    \A c \in j.cas : j.pod \in Pods /\ c \in ClaimsOf(j.pod) /\ claim[c].node = None

\* The queue has no second worker on a pod.
OnePod == \A v, w \in Workers : job[v].pod = job[w].pod /\ job[v].pod # None => v = w

PodInv ==
    /\ OnePod
    /\ \A w \in Workers : Loop(job[w]) /\ Unallocated(job[w])

\* Two workers never have the same claim to allocate.
LEMMA Disjoint ==
    ASSUME Own, OnePod, NEW v \in Workers, NEW w \in Workers,
           NEW c \in job[v].cas \cap job[w].cas, Unallocated(job[v]), Unallocated(job[w])
    PROVE  v = w
<1>1. job[v].pod \in Pods /\ job[w].pod \in Pods /\ c \in ClaimsOf(job[v].pod) \cap ClaimsOf(job[w].pod)
    BY DEF Unallocated
<1>2. job[v].pod = job[w].pod
    BY <1>1 DEF Own
<1> QED BY <1>1, <1>2, NoneAssumption DEF OnePod

\* A step of worker w keeps its pod and at most gives up claims; or the worker
\* takes a pod of its own, or has none.
PodTurn(w) ==
    \/ /\ job'[w].pod = job[w].pod /\ job'[w].cas \subseteq job[w].cas
       /\ \A c \in Claims : SetClaimStatus(w, c) => c \notin job'[w].cas
    \/ job'[w].pod = None /\ job'[w].cas = {}
    \/ /\ UNCHANGED claim
       /\ job'[w].pod \in Pods /\ \A v \in Workers : job[v].pod # job'[w].pod
       /\ \A c \in job'[w].cas : c \in ClaimsOf(job'[w].pod) /\ claim[c].node = None

LEMMA StepsPodTurn ==
    ASSUME TypeInv, NEW w \in Workers, Starts(w) \/ Continues(w), ~Panics(w)
    PROVE  PodTurn(w)
<1>0. job \in [Workers -> JobType] /\ job[w] \in JobType /\ Shape(job[w])
    BY DEF TypeInv, TypeOK, ShapeOK
<1>1. ASSUME NEW p \in Pods, SyncPod(w, p) PROVE PodTurn(w)
  <2> DEFINE cas == {c \in ClaimsOf(p) : claim[c].node = None}
             first(nodes, sel) ==
                [Idle EXCEPT !.pc = "unsuitable", !.pod = p, !.sel = sel, !.nodes = nodes,
                             !.cas = cas, !.finalized = {c \in cas : claim[c].finalizer}]
  <2>1. PICK nodes, sel : Become(w, first(nodes, sel))
      BY <1>1 DEF SyncPod
  <2>2. first(nodes, sel).pod = p /\ first(nodes, sel).cas = cas
      BY DEF Idle
  <2> HIDE DEF first
  <2>3. job'[w].pod = p /\ job'[w].cas = cas
      BY <2>1, <2>2, BecomeJob
  <2> QED BY <1>1, <2>3 DEF SyncPod, PodTurn
<1>2. ASSUME NEW c \in Claims, SyncClaim(w, c) PROVE PodTurn(w)
  <2> DEFINE pc == IF SelectedNode(c) = None THEN "unfinalize" ELSE "dealloc"
             j == [Idle EXCEPT !.pc = pc, !.claim = c, !.sel = SelectedNode(c)]
  <2>1. j.cas = {} /\ j.pod = None
      BY DEF Idle
  <2>2. Become(w, j)
      BY <1>2 DEF SyncClaim
  <2> HIDE DEF j
  <2> QED BY <2>1, <2>2, BecomeJob DEF PodTurn
<1>3. ASSUME Become(w, Idle) PROVE PodTurn(w)
  <2>1. Idle.cas = {} /\ Idle.pod = None
      BY DEF Idle
  <2> QED BY <1>3, <2>1, BecomeJob DEF PodTurn
<1>4. ASSUME Steady(w), ~(\E c \in Claims : SetClaimStatus(w, c)) PROVE PodTurn(w)
    BY <1>4 DEF Steady, PodTurn
<1>5. ASSUME NEW c \in Claims, SetClaimStatus(w, c) PROVE PodTurn(w)
  <2>1. job'[w].pod = job[w].pod /\ job'[w].cas = job[w].cas \ {c}
      BY <1>0, <1>5 DEF SetClaimStatus, Become, JobType
  <2>2. \A d \in Claims : SetClaimStatus(w, d) => d \notin job'[w].cas
    <3>1. ASSUME NEW d \in Claims, SetClaimStatus(w, d) PROVE d \notin job'[w].cas
        BY <1>0, <3>1 DEF SetClaimStatus, Become, JobType
    <3> QED BY <3>1
  <2> QED BY <2>1, <2>2 DEF PodTurn
<1>6. ASSUME NEW c \in Claims, AddFinalizer(w, c) PROVE PodTurn(w)
  <2>1. job'[w].pod = job[w].pod /\ job'[w].cas = job[w].cas /\ job[w].pc = "finalize"
      BY <1>0, <1>6 DEF AddFinalizer, Become, JobType
  <2> QED BY <2>1 DEF PodTurn, SetClaimStatus
<1>7. ASSUME ClearStatus(w) PROVE PodTurn(w)
  <2>1. job'[w].pod = job[w].pod /\ job'[w].cas = job[w].cas /\ job[w].pc = "clear"
      BY <1>0, <1>7 DEF ClearStatus, Become, JobType
  <2> QED BY <2>1 DEF PodTurn, SetClaimStatus
<1> QED BY <1>1, <1>2, <1>3, <1>4, <1>5, <1>6, <1>7, PodStepsSteady, ClaimStepsSteady
        DEF Starts, Continues, UnsuitableStep, AllocateStep, ClaimStep, Panics, SyncPodDone,
            DeallocateFails, RemoveFinalizer, ClaimWriteFails, Return

LEMMA RestartPod == Restart => PodInv'
<1> SUFFICES ASSUME Restart PROVE PodInv'
    OBVIOUS
<1>1. Idle.cas = {} /\ Idle.pod = None /\ \A w \in Workers : job'[w] = Idle
    BY DEF Restart, Idle
<1> QED BY <1>1, IdleLoop DEF PodInv, OnePod, Unallocated

LEMMA InitPod == Init => PodInv
<1> SUFFICES ASSUME Init PROVE PodInv
    OBVIOUS
<1>1. Idle.cas = {} /\ Idle.pod = None /\ \A w \in Workers : job[w] = Idle
    BY DEF Init, ControllerInit, Idle
<1> QED BY <1>1, IdleLoop DEF PodInv, OnePod, Unallocated

LEMMA NextPod ==
    ASSUME Own, TypeInv, LockInv, BudgetInv, PodInv, [Next]_vars
    PROVE  PodInv'
<1>0. \A v \in Workers : job[v].cas \subseteq Claims
    BY DEF TypeInv, TypeOK, JobType
<1>1. ASSUME NEW w \in Workers, Starts(w) \/ Continues(w) PROVE PodInv'
  <2>1. CASE Panics(w)
      BY <2>1, RestartPod DEF Panics, Panic
  <2>2. CASE ~Panics(w)
    <3>1. /\ \A v \in Workers \ {w} : job'[v] = job[v]
          /\ PodTurn(w) /\ ClaimTurn(w) /\ Loop(job'[w])
        BY <1>1, <2>2, StepsTurn, StepsPodTurn, StepsClaimTurn, StepsLoop DEF Turn, PodInv
    <3>2. ASSUME NEW v \in Workers, NEW u \in Workers, job'[v].pod = job'[u].pod, job'[v].pod # None
          PROVE  v = u
        BY <3>1, <3>2 DEF PodTurn, PodInv, OnePod
    <3>3. ASSUME NEW v \in Workers, NEW c \in job'[v].cas
          PROVE  job'[v].pod \in Pods /\ c \in ClaimsOf(job'[v].pod) /\ claim'[c].node = None
      <4>1. CASE /\ v = w /\ UNCHANGED claim /\ job'[w].pod \in Pods
                 /\ c \in ClaimsOf(job'[w].pod) /\ claim[c].node = None
          BY <4>1
      <4>2. CASE /\ job'[v].pod = job[v].pod /\ c \in job[v].cas
                 /\ v = w => ~SetClaimStatus(w, c)
        <5>1. /\ job[v].pod \in Pods /\ c \in ClaimsOf(job[v].pod) /\ claim[c].node = None
              /\ c \in Claims
            BY <1>0, <4>2 DEF PodInv, Unallocated
        <5>2. ~SetClaimStatus(w, c)
          <6>1. SetClaimStatus(w, c) => c \in job[w].cas
              BY DEF SetClaimStatus, IsNext
          <6> QED BY <4>2, <6>1, Disjoint DEF PodInv
        <5> QED BY <3>1, <4>2, <5>1, <5>2 DEF ClaimTurn
      <4> QED BY <1>0, <3>1, <3>3, <4>1, <4>2 DEF PodTurn
    <3> QED BY <3>1, <3>2, <3>3 DEF PodInv, OnePod, Unallocated
  <2> QED BY <2>1, <2>2
<1>2. ASSUME NEW c \in Claims, DeleteClaim(c) \/ RequestDeallocate(c) PROVE PodInv'
  <2>0. claim \in [Claims -> ClaimType]
      BY DEF TypeInv, TypeOK
  <2>1. UNCHANGED job /\ claim'[c].node = claim[c].node
      BY <1>2, <2>0 DEF DeleteClaim, RequestDeallocate, ClaimType
  <2>2. \A d \in Claims \ {c} : claim'[d] = claim[d]
      BY <1>2, <2>0 DEF DeleteClaim, RequestDeallocate
  <2> QED BY <1>0, <2>1, <2>2 DEF PodInv, OnePod, Unallocated
<1>3. ASSUME NEW n \in Nodes, SetStatus(n) PROVE PodInv'
    BY <1>3 DEF SetStatus, PodInv, OnePod, Unallocated
<1>4. ASSUME Crash PROVE PodInv'
    BY <1>4, RestartPod DEF Crash
<1>5. CASE UNCHANGED vars
    BY <1>5 DEF vars, PodInv, OnePod, Unallocated
<1> QED BY <1>1, <1>2, <1>3, <1>4, <1>5 DEF Next, Environment

----------------------------------------------------------------------------
(***************************************************************************)
(* What a worker that found a node suitable relies on, later.  With pods   *)
(* that do not share claims, and an API server that answers, a reservation *)
(* ends only when its worker has it in the NAS.                            *)
(***************************************************************************)

\* Claim c has CPUs on node n: recorded, or promised in memory.
Promised(c, n) == pending[c][n] # {} \/ c \in nas[n].spec.claims

\* The claims of job j that are to have CPUs on node n: on a selected node that
\* was found suitable, until each is allocated; while a node is examined, those
\* that were passed in the loop.
Owed(j, n) ==
    {c \in j.cas :
       \/ /\ j.pc \in {"unsuitable"} \cup Planning
          /\ n = j.sel /\ n \notin j.nodes \cup j.unsuitable
          /\ j.pc \in Planning => n # j.node
       \/ /\ j.pc \in Planning /\ n = j.node /\ c \in j.crd.claims
       \/ /\ j.pc = "place" /\ n = j.node /\ c \notin j.todo /\ j.plan[c] = {}
       \/ /\ j.pc = "finalize" /\ n = j.sel
       \/ /\ j.pc = "allocate" /\ n = j.sel /\ c \in j.todo
       \/ /\ j.pc \in {"exists", "take"} \cup UpdatePCs /\ n = j.sel
          /\ c \in j.todo \ {j.claim}}

\* What a job relies on.
Relies(j) ==
    /\ \A n \in Nodes : \A c \in Owed(j, n) : Promised(c, n)
    /\ j.pc \in {"exists", "take"} => pending[j.claim][j.node] # {}
    /\ j.pc \in ToStore /\ j.pod # None => j.crd.cpus[j.claim] # {}
    /\ j.pc = "visit" => j.crd.claims \subseteq nas[j.node].spec.claims \cup j.visited
    /\ j.pc # "remove"

\* A claim is recorded and pending on a node only between the two writes of the
\* worker that allocates it there.
Entered ==
    \A n \in Nodes, c \in Claims :
       c \in nas[n].spec.claims /\ pending[c][n] # {} =>
          \E w \in Workers : job[w].pc = "updated" /\ job[w].pod # None
                             /\ job[w].claim = c /\ job[w].node = n

\* No entry of a NAS is without CPUs.
Full == \A n \in Nodes : \A c \in nas[n].spec.claims : nas[n].spec.cpus[c] # {}

PromiseInv ==
    /\ Entered
    /\ Full
    /\ \A w \in Workers : Relies(job[w])

\* All that is used of the other invariants.
BasisInv ==
    TypeInv /\ LockInv /\ CopyInv /\ StatusInv /\ LedgerInv /\ BudgetInv /\ BackedInv /\ PodInv

LEMMA OwedAre == ASSUME NEW j, NEW n PROVE Owed(j, n) \subseteq j.cas
BY DEF Owed

\* Where pending allocations change.
LEMMA PendingSteps ==
    ASSUME TypeInv, NEW w \in Workers, Starts(w) \/ Continues(w), ~Panics(w)
    PROVE  \/ UNCHANGED pending
           \/ \E c \in Claims : PendingSet(w, c)
           \/ VisitRemove(w) \/ AllocateSuccess(w) \/ DeallocateRelease(w)
<1>1. CASE Starts(w)
    BY <1>1 DEF Starts, SyncPod, SyncClaim
<1>2. CASE UnsuitableStep(w)
    BY <1>2 DEF UnsuitableStep, Panics, UnsuitableGet, UnsuitableNotReady, VisitPending, PlaceClaim,
                PlaceFails, VisitDone, UnsuitableDone
<1>3. CASE AllocateStep(w)
    BY <1>3 DEF AllocateStep, StartAllocate, SyncPodDone, FinalizersAdded, AddFinalizer,
                AddFinalizerFails, AllocateGet, AllocateExists, AllocateNotReady, SetClaimStatus,
                SetClaimStatusFails, AllocatePending, AllocateNotPending, AllocateTake, AllocateFails
<1>4. CASE UpdateStep(w)
    BY <1>4 DEF UpdateStep, UpdateGet, UpdateGetFails, UpdatePut, UpdateConflict, UpdateError
<1>5. CASE ClaimStep(w)
    BY <1>5 DEF ClaimStep, DeallocateGet, DeallocateLatest, DeallocateFails, DeallocateDone,
                ClearStatus, RemoveFinalizer, ClaimWriteFails
<1> QED BY <1>1, <1>2, <1>3, <1>4, <1>5 DEF Continues

\* A step of worker w drops the pending allocations of a claim only once it has
\* allocated the claim, or deallocates it.
LEMMA PendingKept ==
    ASSUME BasisInv, PromiseInv, NEW w \in Workers, Starts(w) \/ Continues(w), ~Panics(w),
           NEW c \in Claims, NEW n \in Nodes, pending[c][n] # {}
    PROVE  \/ pending'[c][n] # {}
           \/ job[w].claim = c /\ (AllocateSuccess(w) \/ Dealloc(job[w]))
<1>0. pending \in [Claims -> [Nodes -> SUBSET Cpus]] /\ Shape(job[w]) /\ job[w].pc # "remove"
    BY DEF BasisInv, TypeInv, TypeOK, ShapeOK, PromiseInv, Relies
<1>1. CASE UNCHANGED pending
    BY <1>1
<1>2. ASSUME NEW d \in Claims, PendingSet(w, d) PROVE pending'[c][n] # {}
  <2>1. job[w].plan[d] # {}
      BY <1>2 DEF PendingSet, IsNext
  <2> QED BY <1>0, <1>2, <2>1 DEF PendingSet
<1>3. ASSUME AllocateSuccess(w), job[w].claim # c PROVE pending'[c][n] # {}
    BY <1>0, <1>3 DEF AllocateSuccess
<1>4. ASSUME DeallocateRelease(w), job[w].claim # c PROVE pending'[c][n] # {}
    BY <1>0, <1>4 DEF DeallocateRelease
<1>5. ASSUME DeallocateRelease(w) PROVE Dealloc(job[w])
    BY <1>0, <1>5 DEF DeallocateRelease, Dealloc, Shape, ClaimPCs
<1>6. ~VisitRemove(w)
    BY <1>0 DEF VisitRemove
<1>7. CASE UNCHANGED pending \/ (\E d \in Claims : PendingSet(w, d)) \/ AllocateSuccess(w)
           \/ DeallocateRelease(w)
    BY <1>1, <1>2, <1>3, <1>4, <1>5, <1>7
<1> QED BY <1>6, <1>7, PendingSteps DEF BasisInv

\* What is owed to a worker is kept by the others, and by its own steps as long
\* as they do not end the claim's allocation.
LEMMA PromisedKept ==
    ASSUME Own, BasisInv, PromiseInv, [Next]_vars,
           NEW w \in Workers, Starts(w) \/ Continues(w), ~Panics(w),
           NEW v \in Workers, NEW c \in job[v].cas, NEW n \in Nodes,
           v = w => ~(AllocateSuccess(w) /\ job[w].claim = c)
    PROVE  /\ pending[c][n] # {} => pending'[c][n] # {}
           /\ Promised(c, n) => Promised(c, n)'
<1>0. c \in Claims /\ claim[c].node = None
    BY DEF BasisInv, TypeInv, TypeOK, JobType, PodInv, Unallocated
<1>1. ASSUME NEW u \in Workers, Dealloc(job[u]) PROVE job[u].claim # c
    BY <1>0, <1>1 DEF BasisInv, StatusInv, DeallocInv, GivenUp
<1>2. ~(AllocateSuccess(w) /\ job[w].claim = c)
  <2>1. AllocateSuccess(w) => job[w].claim \in job[w].cas
      BY DEF AllocateSuccess, BasisInv, PodInv, Loop, UpdatePCs
  <2>2. job[w].claim = c /\ AllocateSuccess(w) => v = w
      BY <2>1, Disjoint DEF BasisInv, PodInv
  <2> QED BY <2>2
<1>3. pending[c][n] # {} => pending'[c][n] # {}
    BY <1>0, <1>1, <1>2, PendingKept
<1>4. c \in nas[n].spec.claims => c \in nas'[n].spec.claims
    BY <1>0, <1>1, EntryKept DEF BasisInv
<1> QED BY <1>3, <1>4 DEF Promised

\* Another worker's reliance.
LEMMA OthersRely ==
    ASSUME Own, BasisInv, PromiseInv, [Next]_vars,
           NEW w \in Workers, Starts(w) \/ Continues(w), ~Panics(w),
           NEW v \in Workers \ {w}
    PROVE  Relies(job[v])'
<1>1. job'[v] = job[v] /\ Relies(job[v]) /\ Turn(w)
    BY StepsTurn DEF Turn, PromiseInv, BasisInv
<1>2. ASSUME NEW n \in Nodes, NEW c \in Owed(job[v], n) PROVE Promised(c, n)'
  <2>1. c \in job[v].cas /\ Promised(c, n)
      BY <1>1, OwedAre DEF Relies
  <2> QED BY <2>1, PromisedKept
<1>3. ASSUME job[v].pc \in {"exists", "take"} PROVE pending'[job[v].claim][job[v].node] # {}
  <2>1. job[v].claim \in job[v].cas /\ job[v].node \in Nodes
    <3>1. job[v].pod # None
        BY <1>3, NoneAssumption DEF BasisInv, TypeInv, ShapeOK, Shape, PodPCs
    <3> QED BY <1>3, <3>1 DEF BasisInv, PodInv, Loop, TypeInv, ShapeOK, Shape, AtNode
  <2> QED BY <1>1, <1>3, <2>1, PromisedKept DEF Relies
<1>4. ASSUME job[v].pc = "visit" PROVE nas'[job[v].node].spec = nas[job[v].node].spec
    BY <1>1, <1>4, Undisturbed DEF AtNode, BasisInv
<1> QED BY <1>1, <1>2, <1>3, <1>4 DEF Relies

\* What worker w is owed after its own step: kept by the step, or owed before and
\* not what the step ends.
Keeps(w) ==
    \A n \in Nodes : \A c \in Owed(job'[w], n) :
       \/ Promised(c, n)'
       \/ c \in Owed(job[w], n) /\ ~(AllocateSuccess(w) /\ job[w].claim = c)

\* The rest of what it relies on.
Rests(w) ==
    /\ job'[w].pc \in {"exists", "take"} => pending'[job'[w].claim][job'[w].node] # {}
    /\ job'[w].pc \in ToStore /\ job'[w].pod # None => job'[w].crd.cpus[job'[w].claim] # {}
    /\ job'[w].pc = "visit" =>
          job'[w].crd.claims \subseteq nas'[job'[w].node].spec.claims \cup job'[w].visited
    /\ job'[w].pc # "remove"

\* A claim with CPUs has at least one.
LEMMA Placed ==
    ASSUME NEW util, NEW c \in Claims, NEW S \in WorstFit(util, Util(c), Request[c].count)
    PROVE  S # {}
<1>1. Cardinality(S) = Request[c].count /\ Request[c].count \in Nat \ {0}
    BY RequestAssumption DEF WorstFit
<1> QED BY <1>1, FS_EmptySet

\* The pending claim of a visit is not in the copy: it would be in the NAS, and
\* the worker that has just put it there would hold the mutex.
LEMMA NewlyVisited ==
    ASSUME BasisInv, PromiseInv, NEW w \in Workers, NEW c \in Claims, VisitPending(w, c)
    PROVE  c \notin job[w].crd.claims
<1> SUFFICES ASSUME c \in job[w].crd.claims PROVE FALSE
    OBVIOUS
<1>1. /\ job[w].pc = "visit" /\ c \notin job[w].visited /\ pending[c][job[w].node] # {}
      /\ job[w].node \in Nodes /\ lock[job[w].node] = w
    BY DEF VisitPending, BasisInv, TypeInv, ShapeOK, Shape, LockInv, AtNode
<1>2. c \in nas[job[w].node].spec.claims
    BY <1>1 DEF PromiseInv, Relies
<1>3. PICK u \in Workers : job[u].pc = "updated" /\ job[u].node = job[w].node
    BY <1>1, <1>2 DEF PromiseInv, Entered
<1>4. lock[job[w].node] = u
    BY <1>3 DEF BasisInv, LockInv, AtNode, UpdatePCs
<1> QED BY <1>1, <1>3, <1>4

\* UnsuitableNodes: the visit of a node.
LEMMA VisitKeeps ==
    ASSUME BasisInv, PromiseInv, NEW w \in Workers,
           \/ \E n \in Nodes : UnsuitableGet(w, n) \/ UnsuitableNotReady(w, n)
           \/ \E c \in Claims : VisitPending(w, c)
           \/ VisitRemove(w) \/ VisitDone(w)
    PROVE  Keeps(w) /\ Rests(w)
<1>0. /\ job \in [Workers -> JobType] /\ job[w] \in JobType /\ Shape(job[w])
      /\ job[w].pc # "remove"
    BY DEF BasisInv, TypeInv, TypeOK, ShapeOK, PromiseInv, Relies
<1>1. ASSUME NEW n \in Nodes, UnsuitableGet(w, n) PROVE Keeps(w) /\ Rests(w)
  <2>1. /\ job[w].pc = "unsuitable" /\ UNCHANGED <<nas, pending>>
        /\ job'[w].pc = "visit" /\ job'[w].node = n /\ job'[w].nodes = job[w].nodes \ {n}
        /\ job'[w].crd = nas[n].spec /\ job'[w].sel = job[w].sel /\ job'[w].cas = job[w].cas
        /\ job'[w].unsuitable = job[w].unsuitable
      BY <1>0, <1>1 DEF UnsuitableGet, Become, JobType
  <2>2. Rests(w)
      BY <2>1 DEF Rests, ToStore
  <2> QED BY <2>1, <2>2 DEF Keeps, Owed, Promised, Planning, UpdatePCs, AllocateSuccess
<1>2. ASSUME NEW n \in Nodes, UnsuitableNotReady(w, n) PROVE Keeps(w) /\ Rests(w)
  <2>1. /\ job[w].pc = "unsuitable" /\ job'[w].pc = "unsuitable"
        /\ job'[w].nodes = job[w].nodes \ {n}
        /\ job'[w].sel = job[w].sel /\ job'[w].cas = job[w].cas
        /\ job'[w].unsuitable = job[w].unsuitable \cup ({n} \cap {job[w].sel})
      BY <1>0, <1>2 DEF UnsuitableNotReady, Become, JobType
  <2>2. Rests(w)
      BY <2>1 DEF Rests, ToStore
  <2> QED BY <2>1, <2>2 DEF Keeps, Owed, Planning, UpdatePCs, AllocateSuccess
<1>3. ASSUME NEW c \in Claims, VisitPending(w, c) PROVE Keeps(w) /\ Rests(w)
  <2>1. /\ job[w].pc = "visit" /\ UNCHANGED <<nas, pending>> /\ pending[c][job[w].node] # {}
        /\ job'[w].pc = "visit" /\ job'[w].node = job[w].node /\ job'[w].nodes = job[w].nodes
        /\ job'[w].sel = job[w].sel /\ job'[w].cas = job[w].cas
        /\ job'[w].crd = AddClaim(job[w].crd, c, pending[c][job[w].node])
        /\ job'[w].unsuitable = job[w].unsuitable /\ job'[w].visited = job[w].visited \cup {c}
      BY <1>0, <1>3, NewlyVisited DEF VisitPending, Become, JobType
  <2>2. job'[w].crd.claims = job[w].crd.claims \cup {c}
      BY <2>1 DEF AddClaim
  <2>3. Rests(w)
      BY <2>1, <2>2 DEF Rests, ToStore, PromiseInv, Relies
  <2> QED BY <2>1, <2>2, <2>3 DEF Keeps, Owed, Promised, Planning, UpdatePCs, AllocateSuccess
<1>4. ~VisitRemove(w)
    BY <1>0 DEF VisitRemove
<1>5. ASSUME VisitDone(w) PROVE Keeps(w) /\ Rests(w)
  <2>1. /\ job[w].pc = "visit"
        /\ job'[w].pc = "place" /\ job'[w].node = job[w].node /\ job'[w].nodes = job[w].nodes
        /\ job'[w].sel = job[w].sel /\ job'[w].cas = job[w].cas /\ job'[w].todo = job[w].cas
        /\ job'[w].crd = job[w].crd /\ job'[w].unsuitable = job[w].unsuitable
      BY <1>0, <1>5 DEF VisitDone, Become, JobType
  <2>2. Rests(w)
      BY <2>1 DEF Rests, ToStore
  <2> QED BY <2>1, <2>2 DEF Keeps, Owed, Planning, UpdatePCs, AllocateSuccess
<1> QED BY <1>1, <1>2, <1>3, <1>4, <1>5

\* UnsuitableNodes: the choice of the CPUs, and its end.
LEMMA PlaceKeeps ==
    ASSUME BasisInv, PromiseInv, NEW w \in Workers,
           \/ \E c \in Claims : PlaceClaim(w, c) \/ PlaceFails(w, c) \/ PendingSet(w, c)
           \/ UnsuitableDone(w) \/ StartAllocate(w)
    PROVE  Keeps(w) /\ Rests(w)
<1>0. job \in [Workers -> JobType] /\ job[w] \in JobType /\ Shape(job[w])
    BY DEF BasisInv, TypeInv, TypeOK, ShapeOK
<1>1. ASSUME NEW c \in Claims, PlaceClaim(w, c) PROVE Keeps(w) /\ Rests(w)
  <2> DEFINE placed(S) == [job[w] EXCEPT !.todo = @ \ {c}, !.plan[c] = S]
             kept == [job[w] EXCEPT !.todo = @ \ {c}]
             Same1(j) == /\ j.pc = "place" /\ j.node = job[w].node /\ j.nodes = job[w].nodes
                         /\ j.sel = job[w].sel /\ j.cas = job[w].cas
                         /\ j.unsuitable = job[w].unsuitable
                         /\ j.crd = job[w].crd /\ j.todo = job[w].todo \ {c}
  <2>1. job[w].pc = "place"
      BY <1>1 DEF PlaceClaim
  <2>2. /\ Same1(kept) /\ kept.plan = job[w].plan
        /\ \A S : /\ Same1(placed(S)) /\ placed(S).plan[c] = S
                  /\ \A d \in Claims \ {c} : placed(S).plan[d] = job[w].plan[d]
      BY <1>0, <2>1 DEF JobType
  <2>3. \/ c \in job[w].crd.claims /\ Become(w, kept)
        \/ \E S \in WorstFit(PlannedUtil(job[w]), Util(c), Request[c].count) : Become(w, placed(S))
      BY <1>1, Zenon DEF PlaceClaim
  <2>4. job[w].cas \subseteq Claims
      BY <1>0 DEF JobType
  <2> HIDE DEF kept, placed
  <2>5. ASSUME c \in job[w].crd.claims, Become(w, kept) PROVE Keeps(w) /\ Rests(w)
    <3>1. job'[w] = kept
        BY <2>5, BecomeJob DEF BasisInv
    <3>2. Rests(w)
        BY <2>2, <3>1 DEF Rests, ToStore
    <3> QED BY <2>1, <2>2, <2>5, <3>1, <3>2 DEF Keeps, Owed, Planning, UpdatePCs, AllocateSuccess
  <2>6. ASSUME NEW S \in WorstFit(PlannedUtil(job[w]), Util(c), Request[c].count),
               Become(w, placed(S))
        PROVE  Keeps(w) /\ Rests(w)
    <3>1. job'[w] = placed(S) /\ S # {}
        BY <2>6, BecomeJob, Placed DEF BasisInv
    <3>2. Rests(w)
        BY <2>2, <3>1 DEF Rests, ToStore
    <3> QED BY <2>1, <2>2, <2>4, <3>1, <3>2
            DEF Keeps, Owed, Planning, UpdatePCs, AllocateSuccess
  <2> QED BY <2>3, <2>5, <2>6
<1>2. ASSUME NEW c \in Claims, PlaceFails(w, c) PROVE Keeps(w) /\ Rests(w)
  <2>1. /\ job[w].pc = "place" /\ job'[w].pc = "unsuitable" /\ job'[w].nodes = job[w].nodes
        /\ job'[w].sel = job[w].sel /\ job'[w].cas = job[w].cas
        /\ job'[w].unsuitable = job[w].unsuitable \cup ({job[w].node} \cap {job[w].sel})
      BY <1>0, <1>2 DEF PlaceFails, Become, JobType
  <2>2. Rests(w)
      BY <2>1 DEF Rests, ToStore
  <2> QED BY <2>1, <2>2 DEF Keeps, Owed, Planning, UpdatePCs, AllocateSuccess
<1>3. ASSUME NEW c \in Claims, PendingSet(w, c) PROVE Keeps(w) /\ Rests(w)
  <2>1. /\ job[w].pc = "place" /\ job'[w].pc = "place" /\ job'[w].nodes = job[w].nodes
        /\ job'[w].sel = job[w].sel /\ job'[w].cas = job[w].cas /\ job'[w].node = job[w].node
        /\ job'[w].unsuitable = job[w].unsuitable /\ job'[w].todo = job[w].todo
        /\ job'[w].crd = job[w].crd
        /\ \A d \in Claims \ {c} : job'[w].plan[d] = job[w].plan[d]
      BY <1>0, <1>3 DEF PendingSet, Become, JobType
  <2>2. pending'[c][job[w].node] = job[w].plan[c] /\ job[w].plan[c] # {}
    <3>1. job[w].node \in Nodes /\ pending \in [Claims -> [Nodes -> SUBSET Cpus]]
        BY <1>0, <2>1 DEF Shape, AtNode, BasisInv, TypeInv, TypeOK
    <3> QED BY <1>3, <3>1 DEF PendingSet, IsNext
  <2>3. Rests(w)
      BY <2>1 DEF Rests, ToStore
  <2>4. job[w].cas \subseteq Claims
      BY <1>0 DEF JobType
  <2> QED BY <2>1, <2>2, <2>3, <2>4
          DEF Keeps, Owed, Promised, Planning, UpdatePCs, AllocateSuccess
<1>4. ASSUME UnsuitableDone(w) PROVE Keeps(w) /\ Rests(w)
  <2>1. /\ job[w].pc = "place" /\ job'[w].pc = "unsuitable" /\ job'[w].nodes = job[w].nodes
        /\ job'[w].sel = job[w].sel /\ job'[w].cas = job[w].cas
        /\ job'[w].unsuitable = job[w].unsuitable
        /\ job[w].todo = {} /\ job[w].plan = NoCpus /\ job[w].cas \subseteq Claims
      BY <1>0, <1>4 DEF UnsuitableDone, Become, JobType
  <2>2. Rests(w)
      BY <2>1 DEF Rests, ToStore
  <2> QED BY <2>1, <2>2 DEF Keeps, Owed, NoCpus, Planning, UpdatePCs, AllocateSuccess
<1>5. ASSUME StartAllocate(w) PROVE Keeps(w) /\ Rests(w)
  <2>1. /\ job[w].pc = "unsuitable" /\ job'[w].pc = "finalize" /\ job[w].nodes = {}
        /\ job[w].sel \notin job[w].unsuitable
        /\ job'[w].sel = job[w].sel /\ job'[w].cas = job[w].cas
      BY <1>0, <1>5 DEF StartAllocate, Become, JobType
  <2>2. Rests(w)
      BY <2>1 DEF Rests, ToStore
  <2> QED BY <2>1, <2>2 DEF Keeps, Owed, Planning, UpdatePCs, AllocateSuccess
<1> QED BY <1>1, <1>2, <1>3, <1>4, <1>5

\* Nothing is owed to a worker without a pod, or with no claims left.
LEMMA NothingOwed ==
    ASSUME BasisInv, NEW w \in Workers, job'[w].cas = {} \/ (job'[w].pod = None /\
           job[w].pod = None /\ job'[w].cas \subseteq job[w].cas),
           job'[w].pc \notin {"exists", "take", "visit", "remove"},
           job'[w].pc \in ToStore => job'[w].pod = None
    PROVE  Keeps(w) /\ Rests(w)
<1>1. job'[w].cas = {}
    BY NoneAssumption DEF BasisInv, PodInv, Unallocated
<1> QED BY <1>1, OwedAre DEF Keeps, Rests

LEMMA StartsKeeps ==
    ASSUME BasisInv, NEW w \in Workers, Starts(w)
    PROVE  Keeps(w) /\ Rests(w)
<1>1. ASSUME NEW p \in Pods, SyncPod(w, p) PROVE Keeps(w) /\ Rests(w)
  <2> DEFINE cas == {c \in ClaimsOf(p) : claim[c].node = None}
             first(nodes, sel) ==
                [Idle EXCEPT !.pc = "unsuitable", !.pod = p, !.sel = sel, !.nodes = nodes,
                             !.cas = cas, !.finalized = {c \in cas : claim[c].finalizer}]
  <2>1. PICK nodes \in SUBSET Nodes \ {{}} :
           \E sel \in nodes \cup {None} : Become(w, first(nodes, sel))
      BY <1>1 DEF SyncPod
  <2>2. PICK sel \in nodes \cup {None} : Become(w, first(nodes, sel))
      BY <2>1
  <2>3. /\ first(nodes, sel).pc = "unsuitable" /\ first(nodes, sel).nodes = nodes
        /\ first(nodes, sel).sel = sel
      BY DEF Idle
  <2> HIDE DEF first
  <2>4. job'[w].pc = "unsuitable" /\ job'[w].nodes = nodes /\ job'[w].sel = sel
      BY <2>2, <2>3, BecomeJob DEF BasisInv
  <2> QED BY <2>4, NoneAssumption DEF Keeps, Rests, Owed, ToStore, UpdatePCs, Planning
<1>2. ASSUME NEW c \in Claims, SyncClaim(w, c) PROVE Keeps(w) /\ Rests(w)
  <2> DEFINE pc == IF SelectedNode(c) = None THEN "unfinalize" ELSE "dealloc"
             j == [Idle EXCEPT !.pc = pc, !.claim = c, !.sel = SelectedNode(c)]
  <2>1. j.cas = {} /\ j.pc \in {"unfinalize", "dealloc"}
      BY DEF Idle
  <2>2. Become(w, j)
      BY <1>2 DEF SyncClaim
  <2> HIDE DEF j
  <2>3. job'[w] = j
      BY <2>2, BecomeJob DEF BasisInv
  <2> QED BY <2>1, <2>3, NothingOwed DEF ToStore
<1> QED BY <1>1, <1>2 DEF Starts

LEMMA IdleKeeps ==
    ASSUME BasisInv, NEW w \in Workers, Become(w, Idle)
    PROVE  Keeps(w) /\ Rests(w)
<1>1. Idle.cas = {} /\ Idle.pc = "idle"
    BY DEF Idle
<1>2. job'[w] = Idle
    BY BecomeJob DEF BasisInv
<1> QED BY <1>1, <1>2, NothingOwed DEF ToStore

\* The finalizers, allocate and the statuses.
LEMMA AllocateKeeps ==
    ASSUME BasisInv, PromiseInv, NEW w \in Workers, AllocateStep(w)
    PROVE  Keeps(w) /\ Rests(w)
<1>0. job \in [Workers -> JobType] /\ job[w] \in JobType /\ Shape(job[w])
    BY DEF BasisInv, TypeInv, TypeOK, ShapeOK
<1>s. AtSelected(job[w]) /\ Relies(job[w]) /\ Loop(job[w])
    BY DEF BasisInv, BackedInv, PromiseInv, PodInv
<1>2. ASSUME SyncPodDone(w) PROVE Keeps(w) /\ Rests(w)
    BY <1>2, IdleKeeps DEF SyncPodDone, Return
<1>3. ASSUME FinalizersAdded(w) PROVE Keeps(w) /\ Rests(w)
  <2>1. /\ job[w].pc = "finalize" /\ job'[w].pc = "allocate"
        /\ job'[w].sel = job[w].sel /\ job'[w].cas = job[w].cas
      BY <1>0, <1>3 DEF FinalizersAdded, Become, JobType
  <2> QED BY <2>1 DEF Keeps, Rests, Owed, ToStore, Planning, UpdatePCs, AllocateSuccess
<1>4. ASSUME NEW c \in Claims, AddFinalizer(w, c) \/ AddFinalizerFails(w, c)
      PROVE Keeps(w) /\ Rests(w)
  <2>1. CASE AddFinalizer(w, c)
    <3>1. /\ job[w].pc = "finalize" /\ job'[w].pc = "finalize"
          /\ job'[w].sel = job[w].sel /\ job'[w].cas = job[w].cas
        BY <1>0, <2>1 DEF AddFinalizer, Become, JobType
    <3> QED BY <3>1 DEF Keeps, Rests, Owed, ToStore, Planning, UpdatePCs, AllocateSuccess
  <2>2. CASE AddFinalizerFails(w, c)
    <3>1. /\ job[w].pc = "finalize" /\ job'[w].pc = "finalize"
          /\ job'[w].sel = job[w].sel /\ job'[w].cas = job[w].cas \ {c}
        BY <1>0, <2>2 DEF AddFinalizerFails, Become, JobType
    <3> QED BY <3>1 DEF Keeps, Rests, Owed, ToStore, Planning, UpdatePCs, AllocateSuccess
  <2> QED BY <1>4, <2>1, <2>2
<1>5. ASSUME NEW c \in Claims, AllocateGet(w, c) PROVE Keeps(w) /\ Rests(w)
  <2> DEFINE j == [job[w] EXCEPT !.pc = "exists", !.node = job[w].sel, !.claim = c,
                                 !.crd = nas[job[w].sel].spec]
  <2>1. /\ j.pc = "exists" /\ j.sel = job[w].sel /\ j.node = job[w].sel /\ j.claim = c
        /\ j.cas = job[w].cas /\ j.todo = job[w].todo
      BY <1>0 DEF JobType
  <2>2. /\ Become(w, j) /\ job[w].pc = "allocate" /\ c \in job[w].todo
        /\ c \notin nas[job[w].sel].spec.claims /\ UNCHANGED pending
      BY <1>5 DEF AllocateGet, IsNext
  <2> HIDE DEF j
  <2>3. job'[w] = j
      BY <2>2, BecomeJob DEF BasisInv
  <2>4. job[w].sel \in Nodes /\ c \in Owed(job[w], job[w].sel)
      BY <1>0, <1>s, <2>2 DEF Shape, Owed, Loop
  <2>5. pending[c][job[w].sel] # {}
      BY <1>s, <2>2, <2>4 DEF Relies, Promised
  <2> QED BY <2>1, <2>2, <2>3, <2>5
          DEF Keeps, Rests, Owed, ToStore, Planning, UpdatePCs, AllocateSuccess
<1>6. ASSUME NEW c \in Claims, AllocateExists(w, c) \/ AllocateNotReady(w, c)
      PROVE Keeps(w) /\ Rests(w)
  <2>1. CASE AllocateExists(w, c)
    <3>1. /\ job[w].pc = "allocate" /\ job'[w].pc = "allocate" /\ job'[w].sel = job[w].sel
          /\ job'[w].cas = job[w].cas /\ job'[w].todo = job[w].todo \ {c}
        BY <1>0, <2>1 DEF AllocateExists, Become, JobType
    <3> QED BY <3>1 DEF Keeps, Rests, Owed, ToStore, Planning, UpdatePCs, AllocateSuccess
  <2>2. CASE AllocateNotReady(w, c)
    <3>1. /\ job[w].pc = "allocate" /\ job'[w].pc = "allocate" /\ job'[w].sel = job[w].sel
          /\ job'[w].cas = job[w].cas \ {c} /\ job'[w].todo = job[w].todo \ {c}
        BY <1>0, <2>2 DEF AllocateNotReady, Become, JobType
    <3> QED BY <3>1 DEF Keeps, Rests, Owed, ToStore, Planning, UpdatePCs, AllocateSuccess
  <2> QED BY <1>6, <2>1, <2>2
<1>7. ASSUME NEW c \in Claims, SetClaimStatus(w, c) \/ SetClaimStatusFails(w, c)
      PROVE Keeps(w) /\ Rests(w)
  <2>1. job'[w].pc = "allocate" /\ job'[w].todo = {}
      BY <1>0, <1>7 DEF SetClaimStatus, SetClaimStatusFails, Become, JobType
  <2> QED BY <2>1 DEF Keeps, Rests, Owed, ToStore, Planning, UpdatePCs
<1>8. ASSUME AllocatePending(w) PROVE Keeps(w) /\ Rests(w)
  <2>1. /\ job[w].pc = "exists" /\ job'[w].pc = "take" /\ job'[w].sel = job[w].sel
        /\ job'[w].cas = job[w].cas /\ job'[w].node = job[w].node
        /\ job'[w].todo = job[w].todo /\ job'[w].claim = job[w].claim
        /\ UNCHANGED pending
      BY <1>0, <1>8 DEF AllocatePending, Become, JobType
  <2> QED BY <1>s, <2>1
          DEF Keeps, Rests, Owed, Relies, ToStore, Planning, UpdatePCs, AllocateSuccess
<1>9. ASSUME AllocateTake(w) PROVE Keeps(w) /\ Rests(w)
  <2> DEFINE c == job[w].claim
             S == pending[c][job[w].node]
  <2>1. /\ job[w].pc = "take" /\ job'[w].pc = "updateGet" /\ job'[w].sel = job[w].sel
        /\ job'[w].cas = job[w].cas /\ job'[w].todo = job[w].todo /\ job'[w].claim = c
        /\ job'[w].crd = AddClaim(job[w].crd, c, S)
      BY <1>0, <1>9 DEF AllocateTake, Become, JobType
  <2>2. c \in Claims /\ job[w].crd.cpus \in [Claims -> SUBSET Cpus] /\ S # {}
      BY <1>0, <1>s, <2>1 DEF Shape, JobType, SpecType, Relies
  <2> HIDE DEF c, S
  <2>3. job'[w].crd.cpus[c] = S
      BY <2>1, <2>2 DEF AddClaim
  <2>4. Rests(w)
      BY <2>1, <2>2, <2>3 DEF Rests
  <2> QED BY <2>1, <2>4 DEF Keeps, Owed, Planning, UpdatePCs, AllocateSuccess, c
<1>10. ASSUME AllocateSuccess(w) PROVE Keeps(w) /\ Rests(w)
  <2>1. /\ job[w].pc = "updated" /\ job'[w].pc = "allocate" /\ job'[w].sel = job[w].sel
        /\ job'[w].cas = job[w].cas /\ job'[w].todo = job[w].todo \ {job[w].claim}
      BY <1>0, <1>10 DEF AllocateSuccess, Become, JobType
  <2> QED BY <2>1 DEF Keeps, Rests, Owed, ToStore, Planning, UpdatePCs
<1>11. ASSUME AllocateNotPending(w) \/ AllocateFails(w) PROVE Keeps(w) /\ Rests(w)
  <2>1. DropClaim(w) /\ job[w].pc \in {"exists", "updateFailed"}
      BY <1>11 DEF AllocateNotPending, AllocateFails
  <2>2. /\ job'[w].pc = "allocate" /\ job'[w].sel = job[w].sel
        /\ job'[w].cas \subseteq job[w].cas /\ job'[w].todo = job[w].todo \ {job[w].claim}
      BY <1>0, <2>1 DEF DropClaim, Become, JobType
  <2> QED BY <2>1, <2>2 DEF Keeps, Rests, Owed, ToStore, Planning, UpdatePCs, AllocateSuccess
<1> QED BY <1>2, <1>3, <1>4, <1>5, <1>6, <1>7, <1>8, <1>9, <1>10, <1>11, PlaceKeeps
        DEF AllocateStep

\* Client.Update keeps the claim and the copy.
LEMMA UpdateKeepsCopy ==
    ASSUME TypeInv, NEW w \in Workers, UpdateStep(w)
    PROVE  /\ job'[w].crd = job[w].crd /\ job'[w].claim = job[w].claim
           /\ job'[w].node = job[w].node
           /\ job'[w].pc \in ToStore => job[w].pc \in ToStore
<1>0. job \in [Workers -> JobType] /\ job[w] \in JobType
    BY DEF TypeInv, TypeOK
<1>1. CASE UpdateGet(w)
    BY <1>0, <1>1 DEF UpdateGet, Become, JobType, ToStore
<1>2. CASE UpdateGetFails(w)
    BY <1>0, <1>2 DEF UpdateGetFails, Become, JobType, ToStore
<1>3. CASE UpdatePut(w)
    BY <1>0, <1>3 DEF UpdatePut, Become, JobType, ToStore
<1>4. CASE UpdateConflict(w) \/ UpdateError(w)
  <2>1. CountTry(w) /\ job[w].pc = "updatePut"
      BY <1>4 DEF UpdateConflict, UpdateError
  <2> QED BY <1>0, <2>1 DEF CountTry, Become, JobType, ToStore
<1> QED BY <1>1, <1>2, <1>3, <1>4 DEF UpdateStep

LEMMA UpdateStepKeeps ==
    ASSUME BasisInv, PromiseInv, NEW w \in Workers, UpdateStep(w)
    PROVE  Keeps(w) /\ Rests(w)
<1>1. /\ job[w].pc \in UpdatePCs /\ job'[w].pc \in UpdatePCs
      /\ job'[w].pod = job[w].pod /\ job'[w].sel = job[w].sel
      /\ job'[w].cas = job[w].cas /\ job'[w].todo = job[w].todo
      /\ job'[w].crd = job[w].crd /\ job'[w].claim = job[w].claim
      /\ job'[w].pc \in ToStore => job[w].pc \in ToStore
    BY UpdateKeeps, UpdateKeepsCopy DEF BasisInv
<1>2. ~AllocateSuccess(w)
    BY DEF AllocateSuccess, UpdateStep, UpdateGet, UpdateGetFails, UpdatePut, UpdateConflict,
           UpdateError
<1>3. Rests(w)
    BY <1>1 DEF Rests, PromiseInv, Relies, UpdatePCs
<1> QED BY <1>1, <1>2, <1>3 DEF Keeps, Owed, Planning, UpdatePCs

LEMMA ClaimStepKeeps ==
    ASSUME BasisInv, NEW w \in Workers, ClaimStep(w)
    PROVE  Keeps(w) /\ Rests(w)
<1>0. job \in [Workers -> JobType] /\ job[w] \in JobType /\ Shape(job[w])
    BY DEF BasisInv, TypeInv, TypeOK, ShapeOK
<1>b. ASSUME NEW j, Become(w, j), j.cas = job[w].cas, j.pod = job[w].pod, job[w].pod = None,
             j.pc \notin {"exists", "take", "visit", "remove"}
      PROVE  Keeps(w) /\ Rests(w)
    BY <1>b, BecomeJob, NothingOwed DEF BasisInv
<1>1. ASSUME DeallocateGet(w) PROVE Keeps(w) /\ Rests(w)
  <2>0. job[w].pod = None
      BY <1>0, <1>1 DEF DeallocateGet, Shape, ClaimPCs
  <2>1. CASE Become(w, [job[w] EXCEPT !.pc = "latest", !.node = job[w].sel])
      BY <1>0, <1>b, <2>0, <2>1 DEF JobType
  <2>2. CASE Become(w, [job[w] EXCEPT !.pc = "clear"])
      BY <1>0, <1>b, <2>0, <2>2 DEF JobType
  <2> QED BY <1>1, <2>1, <2>2 DEF DeallocateGet
<1>2. ASSUME DeallocateLatest(w) PROVE Keeps(w) /\ Rests(w)
  <2>0. job[w].pod = None
      BY <1>0, <1>2 DEF DeallocateLatest, Shape, ClaimPCs
  <2> QED BY <1>0, <1>b, <1>2, <2>0 DEF DeallocateLatest, JobType
<1>3. ASSUME DeallocateRelease(w) PROVE Keeps(w) /\ Rests(w)
  <2>0. job[w].pod = None
      BY <1>0, <1>3 DEF DeallocateRelease, Shape, ClaimPCs
  <2> QED BY <1>0, <1>b, <1>3, <2>0 DEF DeallocateRelease, JobType
<1>4. ASSUME DeallocateDone(w) PROVE Keeps(w) /\ Rests(w)
    BY <1>0, <1>b, <1>4 DEF DeallocateDone, JobType
<1>5. ASSUME ClearStatus(w) PROVE Keeps(w) /\ Rests(w)
  <2>0. job[w].pod = None
      BY <1>0, <1>5 DEF ClearStatus, Shape, ClaimPCs
  <2> QED BY <1>0, <1>b, <1>5, <2>0 DEF ClearStatus, JobType
<1>6. ASSUME DeallocateFails(w) \/ RemoveFinalizer(w) \/ ClaimWriteFails(w)
      PROVE Keeps(w) /\ Rests(w)
    BY <1>6, IdleKeeps DEF DeallocateFails, RemoveFinalizer, ClaimWriteFails, Return
<1> QED BY <1>1, <1>2, <1>3, <1>4, <1>5, <1>6 DEF ClaimStep

LEMMA StepsKeeps ==
    ASSUME BasisInv, PromiseInv, NEW w \in Workers, Starts(w) \/ Continues(w), ~Panics(w)
    PROVE  Keeps(w) /\ Rests(w)
BY StartsKeeps, VisitKeeps, PlaceKeeps, AllocateKeeps, UpdateStepKeeps, ClaimStepKeeps
   DEF Continues, UnsuitableStep, Panics

\* Every worker's reliance after a step of worker w.
LEMMA StepsRely ==
    ASSUME Own, BasisInv, PromiseInv, [Next]_vars,
           NEW w \in Workers, Starts(w) \/ Continues(w), ~Panics(w), NEW v \in Workers
    PROVE  Relies(job[v])'
<1>1. CASE v # w
    BY <1>1, OthersRely
<1>2. CASE v = w
  <2>1. Keeps(w) /\ Rests(w)
      BY StepsKeeps
  <2>2. ASSUME NEW n \in Nodes, NEW c \in Owed(job'[w], n), ~Promised(c, n)' PROVE FALSE
    <3>1. c \in Owed(job[w], n) /\ ~(AllocateSuccess(w) /\ job[w].claim = c)
        BY <2>1, <2>2 DEF Keeps
    <3>2. c \in job[w].cas /\ Promised(c, n)
        BY <3>1, OwedAre DEF PromiseInv, Relies
    <3> QED BY <2>2, <3>1, <3>2, PromisedKept
  <2> QED BY <1>2, <2>1, <2>2 DEF Rests, Relies
<1> QED BY <1>1, <1>2

----------------------------------------------------------------------------
(***************************************************************************)
(* What is recorded, and the invariant as a whole.                         *)
(***************************************************************************)

\* A worker whose update for a pod succeeded ends the claim's allocation.
LEMMA UpdatedStep ==
    ASSUME NEW w \in Workers, Starts(w) \/ Continues(w), job[w].pc = "updated", job[w].pod # None
    PROVE  AllocateSuccess(w)
<1>1. ~Starts(w)
    BY DEF Starts, SyncPod, SyncClaim
<1>2. ~UnsuitableStep(w)
    BY DEF UnsuitableStep, UnsuitableGet, UnsuitableNotReady, VisitPending, PlaceClaim, PlaceFails,
           PendingSet, Panic, VisitRemove, VisitDone, UnsuitableDone
<1>3. ~UpdateStep(w)
    BY DEF UpdateStep, UpdateGet, UpdateGetFails, UpdatePut, UpdateConflict, UpdateError
<1>4. ~ClaimStep(w)
    BY DEF ClaimStep, DeallocateGet, DeallocateLatest, DeallocateFails, DeallocateRelease,
           DeallocateDone, ClearStatus, RemoveFinalizer, ClaimWriteFails
<1>5. AllocateStep(w) => AllocateSuccess(w)
    BY DEF AllocateStep, StartAllocate, SyncPodDone, FinalizersAdded, AddFinalizer,
           AddFinalizerFails, AllocateGet, AllocateExists, AllocateNotReady, SetClaimStatus,
           SetClaimStatusFails, AllocatePending, AllocateNotPending, AllocateTake, AllocateFails
<1> QED BY <1>1, <1>2, <1>3, <1>4, <1>5 DEF Continues

\* With an API server that answers, what a worker stores is stored once.
LEMMA NasSteps ==
    ASSUME "api" \notin Faults, NEW w \in Workers, Starts(w) \/ Continues(w), ~UpdatePut(w)
    PROVE  UNCHANGED nas
<1>1. CASE Starts(w)
    BY <1>1 DEF Starts, SyncPod, SyncClaim
<1>2. CASE UnsuitableStep(w)
    BY <1>2 DEF UnsuitableStep, UnsuitableGet, UnsuitableNotReady, VisitPending, PlaceClaim,
                PlaceFails, PendingSet, Panic, VisitRemove, VisitDone, UnsuitableDone, Restart
<1>3. CASE AllocateStep(w)
    BY <1>3 DEF AllocateStep, StartAllocate, SyncPodDone, FinalizersAdded, AddFinalizer,
                AddFinalizerFails, AllocateGet, AllocateExists, AllocateNotReady, SetClaimStatus,
                SetClaimStatusFails, AllocatePending, AllocateNotPending, AllocateTake,
                AllocateSuccess, AllocateFails
<1>4. CASE UpdateStep(w)
    BY <1>4 DEF UpdateStep, UpdateGet, UpdateGetFails, UpdateConflict, UpdateError
<1>5. CASE ClaimStep(w)
    BY <1>5 DEF ClaimStep, DeallocateGet, DeallocateLatest, DeallocateFails, DeallocateRelease,
                DeallocateDone, ClearStatus, RemoveFinalizer, ClaimWriteFails
<1> QED BY <1>1, <1>2, <1>3, <1>4, <1>5 DEF Continues

\* What UpdatePut stores: the spec as it was, without the worker's claim, or with
\* it and its CPUs.
LEMMA PutStores ==
    ASSUME BasisInv, PromiseInv, NEW w \in Workers, UpdatePut(w)
    PROVE  LET n == job[w].node
           IN  /\ n \in Nodes /\ job'[w].pc = "updated"
               /\ job'[w].pod = job[w].pod /\ job'[w].claim = job[w].claim
               /\ job'[w].node = n
               /\ \A m \in Nodes \ {n} : nas'[m].spec = nas[m].spec
               /\ \A c \in nas'[n].spec.claims :
                     \/ c \in nas[n].spec.claims /\ nas'[n].spec.cpus[c] = nas[n].spec.cpus[c]
                     \/ c = job[w].claim /\ job[w].pod # None /\ nas'[n].spec.cpus[c] # {}
<1> DEFINE n == job[w].node
           s == nas[n].spec
           c == job[w].claim
<1>0. /\ job \in [Workers -> JobType] /\ job[w] \in JobType /\ Shape(job[w])
      /\ nas \in [Nodes -> [ready : BOOLEAN, spec : SpecType]]
    BY DEF BasisInv, TypeInv, TypeOK, ShapeOK
<1>1. /\ job[w].pc = "updatePut" /\ nas' = [nas EXCEPT ![n].spec = job[w].crd]
      /\ job'[w].pc = "updated" /\ job'[w].pod = job[w].pod /\ job'[w].claim = c
      /\ job'[w].node = n
    BY <1>0 DEF UpdatePut, Become, JobType
<1>2. n \in Nodes /\ c \in Claims
    BY <1>0, <1>1 DEF Shape, AtNode, UpdatePCs
<1>3. s \in SpecType /\ nas'[n].spec = job[w].crd /\ \A m \in Nodes \ {n} : nas'[m].spec = nas[m].spec
    BY <1>0, <1>1, <1>2
<1>4. job[w].crd = s \/ Changed(job[w], s)
    BY <1>1 DEF BasisInv, CopyInv, Copy, AtNode, UpdatePCs, ToStore
<1>5. job[w].pod # None => job[w].crd.cpus[c] # {}
    BY <1>1 DEF PromiseInv, Relies, ToStore
<1>a. \A t \in SpecType : \A S :
         /\ AddClaim(t, c, S).claims = t.claims \cup {c}
         /\ \A e \in Claims \ {c} : AddClaim(t, c, S).cpus[e] = t.cpus[e]
    BY DEF AddClaim, SpecType
<1>r. \A t \in SpecType :
         /\ RemoveClaim(t, c).claims = t.claims \ {c}
         /\ \A e \in Claims \ {c} : RemoveClaim(t, c).cpus[e] = t.cpus[e]
    BY DEF RemoveClaim, SpecType
<1>6. ASSUME NEW d \in job[w].crd.claims
      PROVE  \/ d \in s.claims /\ job[w].crd.cpus[d] = s.cpus[d]
             \/ d = c /\ job[w].pod # None /\ job[w].crd.cpus[d] # {}
  <2>1. CASE job[w].crd = s
      BY <2>1
  <2>2. CASE job[w].pod # None /\ job[w].crd = AddClaim(s, c, job[w].crd.cpus[c])
    <3>1. /\ job[w].crd.claims = s.claims \cup {c}
          /\ \A e \in Claims \ {c} : job[w].crd.cpus[e] = s.cpus[e]
        BY <1>a, <1>3, <2>2
    <3> QED BY <1>3, <1>5, <2>2, <3>1 DEF SpecType
  <2>3. CASE job[w].crd = RemoveClaim(s, c)
    <3>1. /\ job[w].crd.claims = s.claims \ {c}
          /\ \A e \in Claims \ {c} : job[w].crd.cpus[e] = s.cpus[e]
        BY <1>r, <1>3, <2>3
    <3> QED BY <1>3, <3>1 DEF SpecType
  <2> QED BY <1>4, <2>1, <2>2, <2>3 DEF Changed
<1> QED BY <1>1, <1>2, <1>3, <1>6

LEMMA StepsFull ==
    ASSUME "api" \notin Faults, BasisInv, PromiseInv,
           NEW w \in Workers, Starts(w) \/ Continues(w)
    PROVE  Full'
<1>1. CASE UpdatePut(w)
    BY <1>1, PutStores DEF PromiseInv, Full
<1>2. CASE ~UpdatePut(w)
    BY <1>2, NasSteps DEF PromiseInv, Full
<1> QED BY <1>1, <1>2

LEMMA StepsEntered ==
    ASSUME "api" \notin Faults, BasisInv, PromiseInv,
           NEW w \in Workers, Starts(w) \/ Continues(w), ~Panics(w)
    PROVE  Entered'
<1>0. \A v \in Workers \ {w} : job'[v] = job[v]
    BY StepsTurn DEF Turn, BasisInv
<1>b. pending \in [Claims -> [Nodes -> SUBSET Cpus]] /\ job[w] \in JobType /\ Shape(job[w])
    BY DEF BasisInv, TypeInv, TypeOK, ShapeOK
<1> SUFFICES ASSUME NEW n \in Nodes, NEW c \in Claims,
                    c \in nas'[n].spec.claims, pending'[c][n] # {}
             PROVE  \E v \in Workers : /\ job'[v].pc = "updated" /\ job'[v].pod # None
                                       /\ job'[v].claim = c /\ job'[v].node = n
    BY DEF Entered
<1>1. CASE c \in nas[n].spec.claims /\ pending[c][n] # {}
  <2>1. PICK v \in Workers : /\ job[v].pc = "updated" /\ job[v].pod # None
                             /\ job[v].claim = c /\ job[v].node = n
      BY <1>1 DEF PromiseInv, Entered
  <2>2. v # w
    <3> SUFFICES ASSUME v = w PROVE FALSE
        OBVIOUS
    <3>1. AllocateSuccess(w)
        BY <2>1, UpdatedStep
    <3> QED BY <1>b, <2>1, <3>1 DEF AllocateSuccess, NotPending
  <2> QED BY <1>0, <2>1, <2>2
<1>2. CASE c \in nas[n].spec.claims /\ pending[c][n] = {}
  <2>1. pending' # pending
      BY <1>2
  <2>2. /\ VisitRemove(w) => pending'[c][n] = {}
        /\ AllocateSuccess(w) => pending'[c][n] = {}
        /\ DeallocateRelease(w) => pending'[c][n] = {}
      BY <1>b, <1>2 DEF VisitRemove, AllocateSuccess, DeallocateRelease, NotPending
  <2>3. PICK d \in Claims : PendingSet(w, d)
      BY <2>1, <2>2, PendingSteps DEF BasisInv
  <2>4. /\ job[w].pc = "place" /\ job[w].plan[d] # {} /\ job[w].node \in Nodes
        /\ pending' = [pending EXCEPT ![d][job[w].node] = job[w].plan[d]]
      BY <1>b, <2>3 DEF PendingSet, IsNext, Shape, AtNode
  <2>5. d = c /\ n = job[w].node
      BY <1>b, <1>2, <2>4
  <2>6. c \notin job[w].crd.claims
      BY <2>4, <2>5 DEF BasisInv, PodInv, Loop
  <2>7. nas[n].spec.claims \subseteq job[w].crd.claims
      BY <2>4, <2>5 DEF BasisInv, BudgetInv, Fit, Seen, Planning
  <2> QED BY <1>2, <2>6, <2>7
<1>3. CASE c \notin nas[n].spec.claims
  <2>1. UpdatePut(w)
      BY <1>3, NasSteps
  <2> QED BY <1>3, <2>1, PutStores
<1> QED BY <1>1, <1>2, <1>3

\* Nothing that the invariant is about changes.
LEMMA SamePromise ==
    ASSUME PromiseInv, UNCHANGED <<pending, job>>, \A n \in Nodes : nas'[n].spec = nas[n].spec,
           TypeInv
    PROVE  PromiseInv'
<1>1. Entered' /\ Full'
    BY DEF PromiseInv, Entered, Full
<1>2. ASSUME NEW w \in Workers PROVE Relies(job[w])'
  <2>1. job[w].pc = "visit" => job[w].node \in Nodes
      BY DEF TypeInv, ShapeOK, Shape, AtNode
  <2> QED BY <2>1 DEF PromiseInv, Relies, Promised
<1> QED BY <1>1, <1>2 DEF PromiseInv

\* An idle worker relies on nothing.
LEMMA IdleRelies == \A n : Owed(Idle, n) = {}
BY DEF Owed, Idle

LEMMA RestartPromise == Full /\ Restart => PromiseInv'
<1> SUFFICES ASSUME Full, Restart PROVE PromiseInv'
    OBVIOUS
<1>1. UNCHANGED nas /\ \A c \in Claims, n \in Nodes : pending'[c][n] = {}
    BY DEF Restart, NotPending
<1>2. ASSUME NEW w \in Workers PROVE Relies(job[w])'
  <2>1. job'[w] = Idle /\ Idle.pc = "idle"
      BY DEF Restart, Idle
  <2> QED BY <2>1, IdleRelies DEF Relies, ToStore
<1> QED BY <1>1, <1>2 DEF PromiseInv, Entered, Full

LEMMA InitPromise == Init => PromiseInv
<1> SUFFICES ASSUME Init PROVE PromiseInv
    OBVIOUS
<1>1. \A n \in Nodes : nas[n].spec.claims = {}
    BY DEF Init, EmptySpec
<1>2. ASSUME NEW w \in Workers PROVE Relies(job[w])
  <2>1. job[w] = Idle /\ Idle.pc = "idle"
      BY DEF Init, ControllerInit, Idle
  <2> QED BY <2>1, IdleRelies DEF Relies, ToStore
<1> QED BY <1>1, <1>2 DEF PromiseInv, Entered, Full

LEMMA NextPromise ==
    ASSUME Own, "api" \notin Faults, BasisInv, PromiseInv, [Next]_vars
    PROVE  PromiseInv'
<1>1. ASSUME NEW w \in Workers, Starts(w) \/ Continues(w) PROVE PromiseInv'
  <2>1. CASE Panics(w)
      BY <2>1, RestartPromise DEF Panics, Panic, PromiseInv
  <2>2. CASE ~Panics(w)
      BY <1>1, <2>2, StepsEntered, StepsFull, StepsRely DEF PromiseInv
  <2> QED BY <2>1, <2>2
<1>2. ASSUME NEW c \in Claims, DeleteClaim(c) \/ RequestDeallocate(c) PROVE PromiseInv'
    BY <1>2, SamePromise DEF DeleteClaim, RequestDeallocate, BasisInv
<1>3. ASSUME NEW n \in Nodes, SetStatus(n) PROVE PromiseInv'
  <2>1. nas \in [Nodes -> [ready : BOOLEAN, spec : SpecType]]
      BY DEF BasisInv, TypeInv, TypeOK
  <2>2. \A m \in Nodes : nas'[m].spec = nas[m].spec
      BY <1>3, <2>1 DEF SetStatus
  <2> QED BY <1>3, <2>2, SamePromise DEF SetStatus, BasisInv
<1>4. ASSUME Crash PROVE PromiseInv'
    BY <1>4, RestartPromise DEF Crash, PromiseInv
<1>5. CASE UNCHANGED vars
    BY <1>5, SamePromise DEF vars, BasisInv
<1> QED BY <1>1, <1>2, <1>3, <1>4, <1>5 DEF Next, Environment

\* No two pods share a claim, and no answer of the API server is lost: what a
\* worker relies on is there, in every reachable state.
THEOREM PromiseInvariant ==
    ASSUME Own, "api" \notin Faults
    PROVE  Spec => [](PodInv /\ PromiseInv)
<1> DEFINE Inv == PodInv /\ PromiseInv
           Given == TypeInv /\ LockInv /\ CopyInv /\ StatusInv /\ LedgerInv /\ BudgetInv /\ BackedInv
<1>1. Init => Inv
    BY InitPod, InitPromise
<1>2. Given /\ Inv /\ [Next]_vars => Inv'
    BY NextPod, NextPromise DEF BasisInv
<1>3. Spec => []Given
    BY TypeInvariant, LockInvariant, CopyInvariant, StatusInvariant, LedgerInvariant,
       BudgetInvariant, BackedInvariant, PTL
<1> HIDE DEF Inv, Given
<1>4. Spec => []Inv
    BY <1>1, <1>2, <1>3, PTL DEF Spec
<1> QED BY <1>4 DEF Inv

\* PromiseKept: the reservation of a node that UnsuitableNodes found suitable is
\* still there when allocate comes for it, however the other pods are scheduled
\* and claims deallocated in between, when no two pods share a claim and the API
\* server answers.
THEOREM ReservationsKept ==
    ASSUME Own, "api" \notin Faults
    PROVE  Spec => []PromiseKept
<1>1. PromiseInv => PromiseKept
    BY DEF PromiseInv, Relies, PromiseKept
<1> QED BY <1>1, PromiseInvariant, PTL

\* FullyAllocated: under the same conditions no claim is recorded with fewer CPUs
\* than it asked for, though allocate asks whether the reservation exists and
\* takes it in two separate critical sections.
THEOREM FullyAllocatedAlways ==
    ASSUME Own, "api" \notin Faults
    PROVE  Spec => []FullyAllocated
<1>1. TypeInv /\ BudgetInv /\ PromiseInv => FullyAllocated
  <2> SUFFICES ASSUME TypeInv, BudgetInv, PromiseInv,
                      NEW n \in Nodes, NEW c \in nas[n].spec.claims
               PROVE  Cardinality(nas[n].spec.cpus[c]) = Request[c].count
      BY DEF FullyAllocated
  <2>1. c \in Claims
      BY DEF TypeInv, TypeOK, SpecType
  <2> QED BY <2>1 DEF BudgetInv, Sized, PromiseInv, Full
<1> QED BY <1>1, TypeInvariant, BudgetInvariant, PromiseInvariant, PTL

----------------------------------------------------------------------------
(***************************************************************************)
(* The CPUs of a recorded claim, when pods share claims and answers are    *)
(* lost as well.                                                           *)
(***************************************************************************)

\* One node, or one worker: no worker is at another node while one is between the two
\* critical sections in which allocate asks for a reservation and takes it.
Alone == (\A m, n \in Nodes : m = n) \/ (\A v, w \in Workers : v = w)

\* Claim c has as many CPUs in S as it asked for.
Exact(S, c) == Cardinality(S) = Request[c].count

\* The claims of a spec have all their CPUs; or, where workers can get in each
\* other's way, all or none.
Whole(spec) ==
    \A c \in spec.claims : Exact(spec.cpus[c], c) \/ (~Alone /\ spec.cpus[c] = {})

\* What a worker has at hand, and the reservation it has found and is to take.
WholeJob(j) ==
    /\ Whole(j.crd)
    /\ Sized(j.plan)
    /\ j.pc = "take" => pending[j.claim][j.node] # {} \/ ~Alone

WholeInv ==
    /\ \A n \in Nodes : Whole(nas[n].spec) /\ Sized([c \in Claims |-> pending[c][n]])
    /\ \A w \in Workers : WholeJob(job[w])

\* The operations on a spec keep it whole.
LEMMA WholeParts ==
    /\ Whole(EmptySpec) /\ Sized(NoCpus)
    /\ \A s \in SpecType, c \in Claims, S \in SUBSET Cpus :
          Whole(s) /\ (Exact(S, c) \/ (~Alone /\ S = {})) => Whole(AddClaim(s, c, S))
    /\ \A s \in SpecType, c \in Claims : Whole(s) => Whole(RemoveClaim(s, c))
<1>1. Whole(EmptySpec) /\ Sized(NoCpus)
    BY DEF Whole, EmptySpec, Sized, NoCpus
<1>2. ASSUME NEW s \in SpecType, NEW c \in Claims, NEW S \in SUBSET Cpus, Whole(s),
             Exact(S, c) \/ (~Alone /\ S = {})
      PROVE  Whole(AddClaim(s, c, S))
  <2> DEFINE t == AddClaim(s, c, S)
  <2>1. /\ t.claims = s.claims \cup {c} /\ t.cpus[c] = S
        /\ \A d \in Claims \ {c} : t.cpus[d] = s.cpus[d]
        /\ s.claims \subseteq Claims
      BY <1>2 DEF AddClaim, SpecType
  <2> QED BY <1>2, <2>1 DEF Whole
<1>3. ASSUME NEW s \in SpecType, NEW c \in Claims, Whole(s) PROVE Whole(RemoveClaim(s, c))
  <2> DEFINE t == RemoveClaim(s, c)
  <2>1. /\ t.claims = s.claims \ {c} /\ s.claims \subseteq Claims
        /\ \A d \in Claims \ {c} : t.cpus[d] = s.cpus[d]
      BY DEF RemoveClaim, SpecType
  <2> QED BY <1>3, <2>1 DEF Whole
<1> QED BY <1>1, <1>2, <1>3

\* A worker goes on with a copy and a plan that are whole.
Mends(w) ==
    /\ Whole(job'[w].crd)
    /\ Sized(job'[w].plan)
    /\ job'[w].pc = "take" => AllocatePending(w)

\* Each part of a worker's job.
LEMMA UnsuitableMends ==
    ASSUME TypeInv, WholeInv, NEW w \in Workers, UnsuitableStep(w), ~Panics(w)
    PROVE  Mends(w)
<1>0. /\ job \in [Workers -> JobType] /\ job[w] \in JobType /\ Shape(job[w])
      /\ job[w].crd \in SpecType /\ job[w].plan \in [Claims -> SUBSET Cpus]
    BY DEF TypeInv, TypeOK, ShapeOK, JobType
<1>i. /\ Whole(job[w].crd) /\ Sized(job[w].plan) /\ Whole(EmptySpec) /\ Sized(NoCpus)
      /\ \A n \in Nodes : Whole(nas[n].spec)
    BY WholeParts DEF WholeInv, WholeJob
<1>b. ASSUME NEW j, Become(w, j), Whole(j.crd), Sized(j.plan), j.pc # "take"
      PROVE  Mends(w)
    BY <1>b, BecomeJob DEF Mends
<1>1. ASSUME NEW n \in Nodes, UnsuitableGet(w, n) PROVE Mends(w)
  <2> DEFINE j == [job[w] EXCEPT !.pc = "visit", !.node = n, !.nodes = @ \ {n}, !.crd = nas[n].spec]
  <2>1. j.pc = "visit" /\ j.crd = nas[n].spec /\ j.plan = job[w].plan
      BY <1>0 DEF JobType
  <2>2. Become(w, j)
      BY <1>1 DEF UnsuitableGet
  <2> HIDE DEF j
  <2> QED BY <1>b, <1>i, <2>1, <2>2
<1>2. ASSUME NEW n \in Nodes, UnsuitableNotReady(w, n) PROVE Mends(w)
    BY <1>0, <1>b, <1>i, <1>2 DEF UnsuitableNotReady, JobType
<1>3. ASSUME NEW c \in Claims, VisitPending(w, c) PROVE Mends(w)
  <2> DEFINE found == c \in job[w].crd.claims
             S == pending[c][job[w].node]
             j == [job[w] EXCEPT !.visited = @ \cup {c},
                                 !.pc = IF found THEN "remove" ELSE "visit",
                                 !.claim = IF found THEN c ELSE None,
                                 !.crd = IF found THEN @ ELSE AddClaim(@, c, S)]
  <2>1. Become(w, j) /\ job[w].node \in Nodes /\ S # {}
      BY <1>0, <1>3 DEF VisitPending, Shape, AtNode
  <2>2. Exact(S, c) /\ S \in SUBSET Cpus
      BY <2>1 DEF WholeInv, Sized, Exact, TypeInv, TypeOK
  <2>3. Whole(AddClaim(job[w].crd, c, S))
      BY <1>0, <1>i, <2>2, WholeParts
  <2>4. /\ j.pc \in {"remove", "visit"} /\ j.plan = job[w].plan
        /\ j.crd \in {job[w].crd, AddClaim(job[w].crd, c, S)}
      BY <1>0 DEF JobType
  <2> HIDE DEF j, S
  <2> QED BY <1>b, <1>i, <2>1, <2>3, <2>4
<1>4. ASSUME NEW c \in Claims, PlaceClaim(w, c) PROVE Mends(w)
  <2> DEFINE kept == [job[w] EXCEPT !.todo = @ \ {c}]
             placed(S) == [job[w] EXCEPT !.todo = @ \ {c}, !.plan[c] = S]
             fits == WorstFit(PlannedUtil(job[w]), Util(c), Request[c].count)
  <2>1. job[w].pc = "place"
      BY <1>4 DEF PlaceClaim
  <2>2. CASE Become(w, kept)
      BY <1>0, <1>b, <1>i, <2>1, <2>2 DEF JobType
  <2>3. ASSUME NEW S \in fits, Become(w, placed(S)) PROVE Mends(w)
    <3>1. Cardinality(S) = Request[c].count
        BY DEF WorstFit
    <3>2. /\ placed(S).pc = "place" /\ placed(S).crd = job[w].crd
          /\ placed(S).plan = [job[w].plan EXCEPT ![c] = S]
        BY <1>0, <2>1 DEF JobType
    <3>3. Sized([job[w].plan EXCEPT ![c] = S])
        BY <1>0, <1>i, <3>1 DEF Sized
    <3> HIDE DEF placed
    <3> QED BY <1>b, <1>i, <2>3, <3>2, <3>3
  <2>4. Become(w, kept) \/ \E S \in fits : Become(w, placed(S))
      BY <1>4, Zenon DEF PlaceClaim
  <2> QED BY <2>2, <2>3, <2>4
<1>5. ASSUME NEW c \in Claims, PlaceFails(w, c) PROVE Mends(w)
    BY <1>0, <1>b, <1>i, <1>5 DEF PlaceFails, JobType
<1>6. ASSUME NEW c \in Claims, PendingSet(w, c) PROVE Mends(w)
  <2> DEFINE j == [job[w] EXCEPT !.plan[c] = {}]
  <2>1. Become(w, j) /\ job[w].pc = "place"
      BY <1>6 DEF PendingSet
  <2>2. /\ j.pc = "place" /\ j.crd = job[w].crd /\ j.plan = [job[w].plan EXCEPT ![c] = {}]
      BY <1>0, <2>1 DEF JobType
  <2>3. Sized([job[w].plan EXCEPT ![c] = {}])
      BY <1>0, <1>i DEF Sized
  <2> HIDE DEF j
  <2> QED BY <1>b, <1>i, <2>1, <2>2, <2>3
<1>7. ASSUME VisitRemove(w) PROVE Mends(w)
    BY <1>0, <1>b, <1>i, <1>7 DEF VisitRemove, JobType
<1>8. ASSUME VisitDone(w) PROVE Mends(w)
    BY <1>0, <1>b, <1>i, <1>8 DEF VisitDone, JobType
<1>9. ASSUME UnsuitableDone(w) PROVE Mends(w)
    BY <1>0, <1>b, <1>i, <1>9 DEF UnsuitableDone, JobType
<1> QED BY <1>1, <1>2, <1>3, <1>4, <1>5, <1>6, <1>7, <1>8, <1>9 DEF UnsuitableStep, Panics

LEMMA StartsMends ==
    ASSUME TypeInv, NEW w \in Workers, Starts(w)
    PROVE  Mends(w)
<1>1. ASSUME NEW p \in Pods, SyncPod(w, p) PROVE Mends(w)
  <2> DEFINE cas == {c \in ClaimsOf(p) : claim[c].node = None}
             first(nodes, sel) ==
                [Idle EXCEPT !.pc = "unsuitable", !.pod = p, !.sel = sel, !.nodes = nodes,
                             !.cas = cas, !.finalized = {c \in cas : claim[c].finalizer}]
  <2>1. PICK nodes, sel : Become(w, first(nodes, sel))
      BY <1>1 DEF SyncPod
  <2>2. /\ first(nodes, sel).pc = "unsuitable" /\ first(nodes, sel).crd = EmptySpec
        /\ first(nodes, sel).plan = NoCpus
      BY DEF Idle
  <2> HIDE DEF first
  <2> QED BY <2>1, <2>2, BecomeJob, WholeParts DEF Mends
<1>2. ASSUME NEW c \in Claims, SyncClaim(w, c) PROVE Mends(w)
  <2> DEFINE pc == IF SelectedNode(c) = None THEN "unfinalize" ELSE "dealloc"
             j == [Idle EXCEPT !.pc = pc, !.claim = c, !.sel = SelectedNode(c)]
  <2>1. j.pc # "take" /\ j.crd = EmptySpec /\ j.plan = NoCpus
      BY DEF Idle
  <2>2. Become(w, j)
      BY <1>2 DEF SyncClaim
  <2> HIDE DEF j
  <2> QED BY <2>1, <2>2, BecomeJob, WholeParts DEF Mends
<1> QED BY <1>1, <1>2 DEF Starts

LEMMA ContinuesMends ==
    ASSUME TypeInv, WholeInv, NEW w \in Workers, AllocateStep(w) \/ UpdateStep(w) \/ ClaimStep(w)
    PROVE  Mends(w)
<1>0. /\ job \in [Workers -> JobType] /\ job[w] \in JobType /\ Shape(job[w])
      /\ job[w].crd \in SpecType
    BY DEF TypeInv, TypeOK, ShapeOK, JobType
<1>i. /\ Whole(job[w].crd) /\ Sized(job[w].plan) /\ Whole(EmptySpec) /\ Sized(NoCpus)
      /\ \A n \in Nodes : Whole(nas[n].spec)
    BY WholeParts DEF WholeInv, WholeJob
<1>n. ASSUME Become(w, Idle) PROVE Mends(w)
  <2>1. Idle.pc = "idle" /\ Idle.crd = EmptySpec /\ Idle.plan = NoCpus
      BY DEF Idle
  <2> QED BY <1>i, <1>n, <2>1, BecomeJob DEF Mends
<1>b. ASSUME NEW j, Become(w, j), Whole(j.crd), j.plan = job[w].plan, j.pc # "take"
      PROVE  Mends(w)
    BY <1>b, <1>i, BecomeJob DEF Mends
<1>1. ASSUME StartAllocate(w) PROVE Mends(w)
    BY <1>0, <1>b, <1>i, <1>1 DEF StartAllocate, JobType
<1>2. ASSUME SyncPodDone(w) PROVE Mends(w)
    BY <1>n, <1>2 DEF SyncPodDone, Return
<1>3. ASSUME FinalizersAdded(w) PROVE Mends(w)
    BY <1>0, <1>b, <1>i, <1>3 DEF FinalizersAdded, JobType
<1>4. ASSUME NEW c \in Claims, AddFinalizer(w, c) PROVE Mends(w)
    BY <1>0, <1>b, <1>i, <1>4 DEF AddFinalizer, JobType
<1>5. ASSUME NEW c \in Claims, AddFinalizerFails(w, c) PROVE Mends(w)
    BY <1>0, <1>b, <1>i, <1>5 DEF AddFinalizerFails, JobType
<1>6. ASSUME NEW c \in Claims, AllocateGet(w, c) PROVE Mends(w)
  <2> DEFINE j == [job[w] EXCEPT !.pc = "exists", !.node = job[w].sel, !.claim = c,
                                 !.crd = nas[job[w].sel].spec]
  <2>1. j.pc = "exists" /\ j.crd = nas[job[w].sel].spec /\ j.plan = job[w].plan
      BY <1>0 DEF JobType
  <2>2. Become(w, j) /\ job[w].sel \in Nodes
      BY <1>0, <1>6 DEF AllocateGet, Shape
  <2> HIDE DEF j
  <2> QED BY <1>b, <1>i, <2>1, <2>2
<1>7. ASSUME NEW c \in Claims, AllocateExists(w, c) PROVE Mends(w)
    BY <1>0, <1>b, <1>i, <1>7 DEF AllocateExists, JobType
<1>8. ASSUME NEW c \in Claims, AllocateNotReady(w, c) PROVE Mends(w)
    BY <1>0, <1>b, <1>i, <1>8 DEF AllocateNotReady, JobType
<1>9. ASSUME NEW c \in Claims, SetClaimStatus(w, c) PROVE Mends(w)
    BY <1>0, <1>b, <1>i, <1>9 DEF SetClaimStatus, JobType
<1>10. ASSUME NEW c \in Claims, SetClaimStatusFails(w, c) PROVE Mends(w)
    BY <1>0, <1>b, <1>i, <1>10 DEF SetClaimStatusFails, JobType
<1>11. ASSUME AllocatePending(w) PROVE Mends(w)
  <2>1. job'[w].crd = job[w].crd /\ job'[w].plan = job[w].plan
      BY <1>0, <1>11 DEF AllocatePending, Become, JobType
  <2> QED BY <1>11, <1>i, <2>1 DEF Mends
<1>12. ASSUME AllocateTake(w) PROVE Mends(w)
  <2> DEFINE S == pending[job[w].claim][job[w].node]
             t == AddClaim(job[w].crd, job[w].claim, S)
             j == [job[w] EXCEPT !.pc = "updateGet", !.tries = 0, !.crd = t]
  <2>1. Become(w, j) /\ job[w].pc = "take" /\ job[w].node \in Nodes /\ job[w].claim \in Claims
      BY <1>0, <1>12 DEF AllocateTake, Shape, AtNode
  <2>2. (Exact(S, job[w].claim) \/ (~Alone /\ S = {})) /\ S \in SUBSET Cpus
      BY <2>1 DEF WholeInv, WholeJob, Sized, Exact, TypeInv, TypeOK
  <2>3. Whole(t)
      BY <1>0, <1>i, <2>1, <2>2, WholeParts
  <2>4. j.pc = "updateGet" /\ j.plan = job[w].plan /\ j.crd = t
      BY <1>0 DEF JobType
  <2> HIDE DEF j, t
  <2> QED BY <1>b, <2>1, <2>3, <2>4
<1>13. ASSUME AllocateNotPending(w) \/ AllocateFails(w) PROVE Mends(w)
  <2>1. DropClaim(w)
      BY <1>13 DEF AllocateNotPending, AllocateFails
  <2> QED BY <1>0, <1>b, <1>i, <2>1 DEF DropClaim, JobType
<1>14. ASSUME AllocateSuccess(w) PROVE Mends(w)
    BY <1>0, <1>b, <1>i, <1>14 DEF AllocateSuccess, JobType
<1>15. ASSUME UpdateGet(w) PROVE Mends(w)
    BY <1>0, <1>b, <1>i, <1>15 DEF UpdateGet, JobType
<1>16. ASSUME UpdateGetFails(w) PROVE Mends(w)
    BY <1>0, <1>b, <1>i, <1>16 DEF UpdateGetFails, JobType
<1>17. ASSUME UpdatePut(w) PROVE Mends(w)
    BY <1>0, <1>b, <1>i, <1>17 DEF UpdatePut, JobType
<1>18. ASSUME UpdateConflict(w) \/ UpdateError(w) PROVE Mends(w)
  <2>1. CountTry(w)
      BY <1>18 DEF UpdateConflict, UpdateError
  <2> QED BY <1>0, <1>b, <1>i, <2>1 DEF CountTry, JobType
<1>19. ASSUME DeallocateGet(w) PROVE Mends(w)
  <2>1. CASE Become(w, [job[w] EXCEPT !.pc = "latest", !.node = job[w].sel])
      BY <1>0, <1>b, <1>i, <2>1 DEF JobType
  <2>2. CASE Become(w, [job[w] EXCEPT !.pc = "clear"])
      BY <1>0, <1>b, <1>i, <2>2 DEF JobType
  <2> QED BY <1>19, <2>1, <2>2 DEF DeallocateGet
<1>20. ASSUME DeallocateLatest(w) PROVE Mends(w)
  <2> DEFINE j == [job[w] EXCEPT !.pc = "release", !.crd = nas[job[w].node].spec]
  <2>1. j.pc = "release" /\ j.crd = nas[job[w].node].spec /\ j.plan = job[w].plan
      BY <1>0 DEF JobType
  <2>2. Become(w, j) /\ job[w].node \in Nodes
      BY <1>0, <1>20 DEF DeallocateLatest, Shape, AtNode
  <2> HIDE DEF j
  <2> QED BY <1>b, <1>i, <2>1, <2>2
<1>21. ASSUME DeallocateRelease(w) PROVE Mends(w)
  <2> DEFINE t == RemoveClaim(job[w].crd, job[w].claim)
             j == [job[w] EXCEPT !.pc = "updateGet", !.tries = 0, !.crd = t]
  <2>1. Become(w, j) /\ job[w].claim \in Claims
      BY <1>0, <1>21 DEF DeallocateRelease, Shape, ClaimPCs
  <2>2. Whole(t)
      BY <1>0, <1>i, <2>1, WholeParts
  <2>3. j.pc = "updateGet" /\ j.plan = job[w].plan /\ j.crd = t
      BY <1>0 DEF JobType
  <2> HIDE DEF j, t
  <2> QED BY <1>b, <2>1, <2>2, <2>3
<1>22. ASSUME DeallocateDone(w) PROVE Mends(w)
    BY <1>0, <1>b, <1>i, <1>22 DEF DeallocateDone, JobType
<1>23. ASSUME ClearStatus(w) PROVE Mends(w)
    BY <1>0, <1>b, <1>i, <1>23 DEF ClearStatus, JobType
<1>24. ASSUME DeallocateFails(w) \/ RemoveFinalizer(w) \/ ClaimWriteFails(w) PROVE Mends(w)
    BY <1>n, <1>24 DEF DeallocateFails, RemoveFinalizer, ClaimWriteFails, Return
<1> QED BY <1>1, <1>2, <1>3, <1>4, <1>5, <1>6, <1>7, <1>8, <1>9, <1>10, <1>11, <1>12, <1>13,
           <1>14, <1>15, <1>16, <1>17, <1>18, <1>19, <1>20, <1>21, <1>22, <1>23, <1>24
        DEF AllocateStep, UpdateStep, ClaimStep

LEMMA StepsMend ==
    ASSUME TypeInv, WholeInv, NEW w \in Workers, Starts(w) \/ Continues(w), ~Panics(w)
    PROVE  Mends(w)
BY StartsMends, UnsuitableMends, ContinuesMends DEF Continues

\* A worker that is to take a reservation keeps it: who drops one holds the mutex of
\* a node, and there is no other node, or no other worker.
LEMMA ReservationStays ==
    ASSUME Alone, TypeInv, LockInv, WholeInv,
           NEW w \in Workers, Starts(w) \/ Continues(w), ~Panics(w),
           NEW v \in Workers, v # w, job[v].pc = "take"
    PROVE  pending'[job[v].claim][job[v].node] # {}
<1> DEFINE c == job[v].claim
           n == job[v].node
<1>0. /\ pending \in [Claims -> [Nodes -> SUBSET Cpus]]
      /\ c \in Claims /\ n \in Nodes /\ pending[c][n] # {} /\ job[v].pc \in AtNode
    BY DEF TypeInv, TypeOK, ShapeOK, Shape, AtNode, WholeInv, WholeJob
<1>1. job[w].pc \notin AtNode
  <2>1. job[w].pc \in AtNode => job[w].node \in Nodes
      BY DEF TypeInv, ShapeOK, Shape
  <2>2. job[w].pc \in AtNode => lock[job[w].node] = w /\ lock[n] = v
      BY <1>0 DEF LockInv
  <2> QED BY <1>0, <2>1, <2>2 DEF Alone
<1>2. ~VisitRemove(w) /\ ~AllocateSuccess(w) /\ ~DeallocateRelease(w)
      /\ \A d \in Claims : ~PendingSet(w, d)
    BY <1>1 DEF VisitRemove, AllocateSuccess, DeallocateRelease, PendingSet, AtNode, UpdatePCs
<1>3. UNCHANGED pending
    BY <1>2, PendingSteps
<1> QED BY <1>0, <1>3

\* What is pending still has the right size.
LEMMA PendingSized ==
    ASSUME TypeInv, WholeInv, NEW w \in Workers, Starts(w) \/ Continues(w), ~Panics(w),
           NEW n \in Nodes
    PROVE  Sized([c \in Claims |-> pending'[c][n]])
<1>0. /\ pending \in [Claims -> [Nodes -> SUBSET Cpus]] /\ Sized(job[w].plan)
      /\ \A c \in Claims : pending[c][n] = {} \/ Cardinality(pending[c][n]) = Request[c].count
    BY DEF TypeInv, TypeOK, WholeInv, WholeJob, Sized
<1>1. ASSUME NEW c \in Claims
      PROVE  pending'[c][n] \in {pending[c][n], {}, job[w].plan[c]}
  <2>1. CASE UNCHANGED pending
      BY <2>1
  <2>2. ASSUME NEW d \in Claims, PendingSet(w, d)
        PROVE  pending'[c][n] \in {pending[c][n], {}, job[w].plan[c]}
      BY <1>0, <2>2 DEF PendingSet
  <2>3. ASSUME NEW d \in Claims, pending' = [pending EXCEPT ![d] = NotPending]
        PROVE  pending'[c][n] \in {pending[c][n], {}, job[w].plan[c]}
      BY <1>0, <2>3 DEF NotPending
  <2>4. VisitRemove(w) \/ AllocateSuccess(w) \/ DeallocateRelease(w)
            => job[w].claim \in Claims /\ pending' = [pending EXCEPT ![job[w].claim] = NotPending]
      BY DEF VisitRemove, AllocateSuccess, DeallocateRelease, TypeInv, ShapeOK, Shape, ClaimPCs, UpdatePCs
  <2> QED BY <2>1, <2>2, <2>3, <2>4, PendingSteps
<1> QED BY <1>0, <1>1 DEF Sized

\* The end of the process forgets reservations and copies.
LEMMA RestartWhole == WholeInv /\ Restart => WholeInv'
<1> SUFFICES ASSUME WholeInv, Restart PROVE WholeInv'
    OBVIOUS
<1>1. Idle.pc = "idle" /\ Idle.crd = EmptySpec /\ Idle.plan = NoCpus
    BY DEF Idle
<1>2. ASSUME NEW w \in Workers PROVE WholeJob(job[w])'
    BY <1>1, WholeParts DEF Restart, WholeJob
<1>3. ASSUME NEW n \in Nodes PROVE Sized([c \in Claims |-> pending'[c][n]])
    BY DEF Restart, NotPending, Sized
<1> QED BY <1>2, <1>3 DEF Restart, WholeInv

LEMMA WorkerWhole ==
    ASSUME TypeInv, LockInv, WholeInv, NEW w \in Workers, Starts(w) \/ Continues(w)
    PROVE  WholeInv'
<1>1. CASE Panics(w)
    BY <1>1, RestartWhole DEF Panics, Panic
<1>2. CASE ~Panics(w)
  <2>1. Mends(w) /\ \A v \in Workers \ {w} : job'[v] = job[v]
      BY <1>2, StepsMend, StepsTurn DEF Turn
  <2>2. ASSUME NEW n \in Nodes PROVE Whole(nas'[n].spec)
    <3>1. nas'[n].spec = nas[n].spec \/ \E v \in Workers : nas'[n].spec = job[v].crd
        BY SpecChanges DEF Stores, Next
    <3> QED BY <3>1 DEF WholeInv, WholeJob
  <2>3. WholeJob(job[w])'
    <3>1. /\ job \in [Workers -> JobType] /\ job[w] \in JobType
          /\ pending \in [Claims -> [Nodes -> SUBSET Cpus]]
        BY DEF TypeInv, TypeOK
    <3>2. AllocatePending(w) => pending'[job'[w].claim][job'[w].node] # {}
        BY <3>1 DEF AllocatePending, Become, JobType
    <3> QED BY <2>1, <3>2 DEF Mends, WholeJob
  <2>4. ASSUME NEW v \in Workers, v # w PROVE WholeJob(job[v])'
    <3>1. job'[v] = job[v]
        BY <2>1, <2>4
    <3>2. Alone /\ job[v].pc = "take" => pending'[job[v].claim][job[v].node] # {}
        BY <1>2, <2>4, ReservationStays
    <3> QED BY <3>1, <3>2 DEF WholeInv, WholeJob
  <2>5. \A n \in Nodes : Sized([c \in Claims |-> pending'[c][n]])
      BY <1>2, PendingSized
  <2> QED BY <2>2, <2>3, <2>4, <2>5 DEF WholeInv
<1> QED BY <1>1, <1>2

\* Users, the scheduler, the plugins' status and the end of the process.
LEMMA EnvironmentWhole ==
    ASSUME TypeInv, WholeInv, Environment
    PROVE  WholeInv'
<1>1. CASE Crash
    BY <1>1, RestartWhole DEF Crash
<1>2. CASE ~Crash
  <2>1. (\A n \in Nodes : nas'[n].spec = nas[n].spec) /\ UNCHANGED <<pending, job>>
      BY <1>2 DEF Environment, DeleteClaim, RequestDeallocate, SetStatus, TypeInv, TypeOK
  <2> QED BY <2>1 DEF WholeInv, WholeJob
<1> QED BY <1>1, <1>2

LEMMA InitWhole == Init => WholeInv
<1> SUFFICES ASSUME Init PROVE WholeInv
    OBVIOUS
<1>1. Idle.pc = "idle" /\ Idle.crd = EmptySpec /\ Idle.plan = NoCpus
    BY DEF Idle
<1>2. \A w \in Workers : WholeJob(job[w])
    BY <1>1, WholeParts DEF Init, ControllerInit, WholeJob
<1>3. \A n \in Nodes : Whole(nas[n].spec) /\ Sized([c \in Claims |-> pending[c][n]])
    BY WholeParts DEF Init, ControllerInit, NotPending, Sized
<1> QED BY <1>2, <1>3 DEF WholeInv

\* Whatever pods share and whatever fails: the claims of every spec that is stored,
\* or on its way, have all their CPUs; or, with several nodes and workers, all or none.
THEOREM WholeInvariant == Spec => []WholeInv
<1>1. TypeInv /\ LockInv /\ WholeInv /\ [Next]_vars => WholeInv'
  <2> SUFFICES ASSUME TypeInv, LockInv, WholeInv, [Next]_vars PROVE WholeInv'
      OBVIOUS
  <2>1. CASE UNCHANGED vars
      BY <2>1 DEF vars, WholeInv, WholeJob
  <2> QED BY <2>1, WorkerWhole, EnvironmentWhole DEF Next
<1> QED BY <1>1, InitWhole, TypeInvariant, LockInvariant, PTL DEF Spec

\* FullyAllocated without the conditions of FullyAllocatedAlways, shared claims and
\* lost answers included, where there is one node, or one worker: the worker that drops
\* the reservation between its two critical sections is another, at another node.
THEOREM FullyAllocatedAlone ==
    ASSUME Alone
    PROVE  Spec => []FullyAllocated
<1>1. WholeInv => FullyAllocated
    BY DEF WholeInv, Whole, Exact, FullyAllocated
<1> QED BY <1>1, WholeInvariant, PTL
=============================================================================
