------------------------ MODULE ControllerLedger_proofs ------------------------
(***************************************************************************)
(* What a node's mutex protects, for any nodes, claims, workers and        *)
(* faults: the copy of a NAS that a worker is about to store, the CPUs     *)
(* that it counted as free, and so the ledger that module NodeLedger       *)
(* describes.                                                              *)
(***************************************************************************)
EXTENDS Controller_proofs

----------------------------------------------------------------------------
(***************************************************************************)
(* The mutex of a node.                                                    *)
(***************************************************************************)

\* Wherever a worker has a node's NAS at hand, it holds the node's mutex.
LockInv == \A w \in Workers : job[w].pc \in AtNode => lock[job[w].node] = w

\* The steps of worker w that leave it without a NAS at hand.
StepsAway(w) ==
    \/ Starts(w)
    \/ \E n \in Nodes : UnsuitableNotReady(w, n)
    \/ \E c \in Claims : PlaceFails(w, c)
    \/ UnsuitableDone(w) \/ StartAllocate(w) \/ SyncPodDone(w) \/ FinalizersAdded(w)
    \/ \E c \in Claims : \/ AddFinalizer(w, c) \/ AddFinalizerFails(w, c)
                         \/ AllocateExists(w, c) \/ AllocateNotReady(w, c)
                         \/ SetClaimStatus(w, c) \/ SetClaimStatusFails(w, c)
    \/ AllocateNotPending(w) \/ AllocateSuccess(w) \/ AllocateFails(w)
    \/ DeallocateFails(w) \/ DeallocateDone(w)
    \/ ClearStatus(w) \/ RemoveFinalizer(w) \/ ClaimWriteFails(w)
    \/ DeallocateGet(w) /\ job[w].claim \notin nas[job[w].sel].spec.claims

\* What they have in common.
Away(w) ==
    /\ \A v \in Workers \ {w} : job'[v] = job[v]
    /\ job'[w].pc \notin AtNode
    /\ UNCHANGED nas
    /\ \A c \in Claims, n \in Nodes : pending'[c][n] \in {pending[c][n], {}}
    /\ \/ UNCHANGED lock
       \/ job[w].pc \in AtNode /\ lock' = [lock EXCEPT ![job[w].node] = None]

LEMMA AwayPCs ==
    AtNode \cap {"idle", "unsuitable", "finalize", "allocate", "dealloc", "clear", "unfinalize"} = {}
BY DEF AtNode, UpdatePCs

LEMMA BecomeJob ==
    ASSUME TypeInv, NEW w \in Workers, NEW j, Become(w, j)
    PROVE  job'[w] = j /\ \A v \in Workers \ {w} : job'[v] = job[v]
BY DEF Become, TypeInv, TypeOK

\* A step that goes on somewhere without a NAS and releases no mutex.
LEMMA GoAway ==
    ASSUME TypeInv, NEW w \in Workers, NEW j, Become(w, j), j.pc \notin AtNode,
           UNCHANGED <<nas, pending>>,
           \/ UNCHANGED lock
           \/ job[w].pc \in AtNode /\ lock' = [lock EXCEPT ![job[w].node] = None]
    PROVE  Away(w)
BY BecomeJob DEF Away

LEMMA StartsAway ==
    ASSUME TypeInv, NEW w \in Workers, Starts(w)
    PROVE  Away(w)
<1>1. ASSUME NEW p \in Pods, SyncPod(w, p) PROVE Away(w)
  <2> DEFINE cas == {c \in ClaimsOf(p) : claim[c].node = None}
             first(nodes, sel) ==
                [Idle EXCEPT !.pc = "unsuitable", !.pod = p, !.sel = sel, !.nodes = nodes,
                             !.cas = cas, !.finalized = {c \in cas : claim[c].finalizer}]
  <2>1. PICK nodes, sel : Become(w, first(nodes, sel))
      BY <1>1 DEF SyncPod
  <2>2. first(nodes, sel).pc = "unsuitable"
      BY DEF Idle
  <2> HIDE DEF first
  <2> QED BY <1>1, <2>1, <2>2, GoAway, AwayPCs DEF SyncPod
<1>2. ASSUME NEW c \in Claims, SyncClaim(w, c) PROVE Away(w)
  <2> DEFINE j == [Idle EXCEPT !.pc = IF SelectedNode(c) = None THEN "unfinalize" ELSE "dealloc",
                               !.claim = c, !.sel = SelectedNode(c)]
  <2>1. j.pc \in {"unfinalize", "dealloc"}
      BY DEF Idle
  <2>2. Become(w, j)
      BY <1>2 DEF SyncClaim
  <2> HIDE DEF j
  <2> QED BY <1>2, <2>1, <2>2, GoAway, AwayPCs DEF SyncClaim
<1> QED BY <1>1, <1>2 DEF Starts

LEMMA ReturnAway ==
    ASSUME TypeInv, NEW w \in Workers, Become(w, Idle), UNCHANGED <<nas, pending>>,
           \/ UNCHANGED lock
           \/ job[w].pc \in AtNode /\ lock' = [lock EXCEPT ![job[w].node] = None]
    PROVE  Away(w)
<1>1. Idle.pc = "idle"
    BY DEF Idle
<1> QED BY <1>1, GoAway, AwayPCs

LEMMA ContinuesAway ==
    ASSUME TypeInv, NEW w \in Workers, StepsAway(w), ~Starts(w)
    PROVE  Away(w)
<1>0. job[w] \in JobType /\ Shape(job[w])
    BY DEF TypeInv, TypeOK, ShapeOK
<1>1. ASSUME NEW n \in Nodes, UnsuitableNotReady(w, n) PROVE Away(w)
  <2>1. job[w].pc = "unsuitable"
      BY <1>1 DEF UnsuitableNotReady
  <2> QED BY <1>0, <1>1, <2>1, GoAway, AwayPCs DEF UnsuitableNotReady, JobType
<1>2. ASSUME NEW c \in Claims, PlaceFails(w, c) PROVE Away(w)
  <2>1. job[w].pc \in AtNode
      BY <1>2 DEF PlaceFails, AtNode
  <2> QED BY <1>0, <1>2, <2>1, GoAway, AwayPCs DEF PlaceFails, JobType
<1>3. ASSUME UnsuitableDone(w) PROVE Away(w)
  <2>1. job[w].pc \in AtNode
      BY <1>3 DEF UnsuitableDone, AtNode
  <2> QED BY <1>0, <1>3, <2>1, GoAway, AwayPCs DEF UnsuitableDone, JobType
<1>4. ASSUME StartAllocate(w) \/ FinalizersAdded(w) PROVE Away(w)
    BY <1>0, <1>4, GoAway, AwayPCs DEF StartAllocate, FinalizersAdded, JobType
<1>5. ASSUME SyncPodDone(w) PROVE Away(w)
    BY <1>5, ReturnAway DEF SyncPodDone, Return
<1>6. ASSUME NEW c \in Claims, AddFinalizer(w, c) \/ AddFinalizerFails(w, c) PROVE Away(w)
  <2>1. job[w].pc = "finalize"
      BY <1>6 DEF AddFinalizer, AddFinalizerFails
  <2> QED BY <1>0, <1>6, <2>1, GoAway, AwayPCs DEF AddFinalizer, AddFinalizerFails, JobType
<1>7. ASSUME NEW c \in Claims,
             \/ AllocateExists(w, c) \/ AllocateNotReady(w, c)
             \/ SetClaimStatus(w, c) \/ SetClaimStatusFails(w, c)
      PROVE Away(w)
  <2>1. job[w].pc = "allocate"
      BY <1>7 DEF AllocateExists, AllocateNotReady, SetClaimStatus, SetClaimStatusFails
  <2> QED BY <1>0, <1>7, <2>1, GoAway, AwayPCs
          DEF AllocateExists, AllocateNotReady, SetClaimStatus, SetClaimStatusFails, JobType
<1>8. ASSUME AllocateNotPending(w) \/ AllocateFails(w) PROVE Away(w)
  <2>1. job[w].pc \in AtNode /\ DropClaim(w) /\ UNCHANGED <<nas, pending>>
      BY <1>8 DEF AllocateNotPending, AllocateFails, AtNode, UpdatePCs
  <2> QED BY <1>0, <2>1, GoAway, AwayPCs DEF DropClaim, JobType
<1>9. ASSUME AllocateSuccess(w) PROVE Away(w)
  <2> DEFINE j == [job[w] EXCEPT !.pc = "allocate", !.node = None, !.claim = None,
                                 !.crd = EmptySpec, !.tries = 0, !.todo = @ \ {job[w].claim}]
  <2>1. job[w].pc \in AtNode /\ job[w].claim \in Claims
      BY <1>0, <1>9 DEF AllocateSuccess, AtNode, UpdatePCs, Shape
  <2>2. j.pc = "allocate" /\ Become(w, j)
      BY <1>0, <1>9 DEF AllocateSuccess, JobType
  <2> HIDE DEF j
  <2>3. job'[w].pc \notin AtNode /\ \A v \in Workers \ {w} : job'[v] = job[v]
      BY <2>2, BecomeJob, AwayPCs
  <2>4. \A c \in Claims, n \in Nodes : pending'[c][n] \in {pending[c][n], {}}
      BY <1>9, <2>1 DEF AllocateSuccess, NotPending, TypeInv, TypeOK
  <2> QED BY <1>9, <2>1, <2>3, <2>4 DEF Away, AllocateSuccess
<1>10. ASSUME DeallocateFails(w) PROVE Away(w)
  <2>1. job[w].pc \in AtNode
      BY <1>10 DEF DeallocateFails, AtNode, UpdatePCs
  <2> QED BY <1>10, <2>1, ReturnAway DEF DeallocateFails, Return
<1>11. ASSUME DeallocateDone(w) PROVE Away(w)
  <2>1. job[w].pc \in AtNode
      BY <1>11 DEF DeallocateDone, AtNode, UpdatePCs
  <2> QED BY <1>0, <1>11, <2>1, GoAway, AwayPCs DEF DeallocateDone, JobType
<1>12. ASSUME ClearStatus(w) PROVE Away(w)
    BY <1>0, <1>12, GoAway, AwayPCs DEF ClearStatus, JobType
<1>13. ASSUME RemoveFinalizer(w) PROVE Away(w)
    BY <1>13, ReturnAway DEF RemoveFinalizer
<1>14. ASSUME ClaimWriteFails(w) PROVE Away(w)
    BY <1>14, ReturnAway DEF ClaimWriteFails, Return
<1>15. ASSUME DeallocateGet(w), job[w].claim \notin nas[job[w].sel].spec.claims PROVE Away(w)
    BY <1>0, <1>15, GoAway, AwayPCs DEF DeallocateGet, JobType
<1> QED BY <1>1, <1>2, <1>3, <1>4, <1>5, <1>6, <1>7, <1>8, <1>9, <1>10, <1>11, <1>12,
           <1>13, <1>14, <1>15 DEF StepsAway

LEMMA StepsAwayAre == ASSUME TypeInv, NEW w \in Workers, StepsAway(w) PROVE Away(w)
BY StartsAway, ContinuesAway

----------------------------------------------------------------------------
\* The steps with a NAS at hand: the first takes the mutex, the others keep it.
StepsAt(w) ==
    \/ \E n \in Nodes : UnsuitableGet(w, n)
    \/ \E c \in Claims : VisitPending(w, c) \/ PlaceClaim(w, c) \/ PendingSet(w, c)
    \/ VisitRemove(w) \/ VisitDone(w)
    \/ \E c \in Claims : AllocateGet(w, c)
    \/ AllocatePending(w) \/ AllocateTake(w)
    \/ UpdateStep(w)
    \/ DeallocateGet(w) /\ job[w].claim \in nas[job[w].sel].spec.claims
    \/ DeallocateLatest(w) \/ DeallocateRelease(w)

Panics(w) == \E c \in Claims : Panic(w, c)

LEMMA StepKinds ==
    ASSUME NEW w \in Workers, Starts(w) \/ Continues(w)
    PROVE  StepsAway(w) \/ StepsAt(w) \/ Panics(w)
BY DEF StepsAway, StepsAt, Panics, Continues, UnsuitableStep, AllocateStep, ClaimStep

\* What a step of worker w leaves alone: the other workers' jobs, and of the
\* nodes whose mutex it does not hold everything but pending allocations,
\* which it may drop.
Turn(w) ==
    /\ \A v \in Workers \ {w} : job'[v] = job[v]
    /\ \A n \in Nodes : nas'[n].spec = nas[n].spec \/ (job[w].pc \in AtNode /\ n = job[w].node)
    /\ \A c \in Claims, n \in Nodes :
          pending'[c][n] \in {pending[c][n], {}} \/ (job[w].pc \in AtNode /\ n = job[w].node)
    /\ \A n \in Nodes :
          \/ lock'[n] = lock[n]
          \/ lock[n] = None /\ lock'[n] = w
          \/ job[w].pc \in AtNode /\ n = job[w].node /\ lock'[n] = None
    /\ job'[w].pc \in AtNode => lock'[job'[w].node] = w

LEMMA AwayTurn ==
    ASSUME TypeInv, NEW w \in Workers, Away(w)
    PROVE  Turn(w)
BY DEF Away, Turn, TypeInv, TypeOK

\* A step of worker w alone that stays at its node.
Same(w) ==
    /\ \A v \in Workers \ {w} : job'[v] = job[v]
    /\ job'[w].node = job[w].node

\* A step at a node that keeps its mutex.
LEMMA KeepTurn ==
    ASSUME TypeInv, LockInv, NEW w \in Workers, Same(w), job[w].pc \in AtNode,
           UNCHANGED lock,
           \A n \in Nodes : nas'[n].spec = nas[n].spec \/ n = job[w].node,
           \A c \in Claims, n \in Nodes :
              pending'[c][n] \in {pending[c][n], {}} \/ n = job[w].node
    PROVE  Turn(w)
BY DEF Turn, Same, LockInv

\* A step that takes the mutex of node n.
LEMMA TakeTurn ==
    ASSUME TypeInv, NEW w \in Workers, NEW n \in Nodes, NEW j, Become(w, j),
           lock[n] = None, lock' = [lock EXCEPT ![n] = w], j.node = n,
           UNCHANGED <<nas, pending>>
    PROVE  Turn(w)
<1>1. job'[w] = j /\ \A v \in Workers \ {w} : job'[v] = job[v]
    BY BecomeJob
<1>2. lock' \in [Nodes -> Workers \cup {None}] /\ lock'[n] = w
    BY DEF TypeInv, TypeOK
<1>3. \A m \in Nodes : lock'[m] = lock[m] \/ (lock[m] = None /\ lock'[m] = w)
    BY DEF TypeInv, TypeOK
<1> QED BY <1>1, <1>2, <1>3 DEF Turn

LEMMA StepsAtTurn ==
    ASSUME TypeInv, LockInv, NEW w \in Workers, StepsAt(w)
    PROVE  Turn(w)
<1>0. job \in [Workers -> JobType] /\ job[w] \in JobType /\ Shape(job[w])
    BY DEF TypeInv, TypeOK, ShapeOK
<1>1. ASSUME NEW n \in Nodes, UnsuitableGet(w, n) PROVE Turn(w)
  <2> DEFINE j == [job[w] EXCEPT !.pc = "visit", !.node = n, !.nodes = @ \ {n},
                                 !.crd = nas[n].spec]
  <2>1. j.node = n
      BY <1>0 DEF JobType
  <2>2. Become(w, j)
      BY <1>1 DEF UnsuitableGet
  <2> HIDE DEF j
  <2> QED BY <1>1, <2>1, <2>2, TakeTurn DEF UnsuitableGet
<1>2. ASSUME NEW c \in Claims, VisitPending(w, c) PROVE Turn(w)
  <2>1. job[w].pc \in AtNode
      BY <1>2 DEF VisitPending, AtNode
  <2>2. Same(w)
      BY <1>0, <1>2 DEF VisitPending, JobType, Become, Same
  <2> QED BY <1>2, <2>1, <2>2, KeepTurn DEF VisitPending
<1>3. ASSUME NEW c \in Claims, PlaceClaim(w, c) PROVE Turn(w)
  <2>1. job[w].pc \in AtNode
      BY <1>3 DEF PlaceClaim, AtNode
  <2> DEFINE placed(S) == [job[w] EXCEPT !.todo = @ \ {c}, !.plan[c] = S]
             kept == [job[w] EXCEPT !.todo = @ \ {c}]
  <2>2. kept.node = job[w].node /\ \A S : placed(S).node = job[w].node
      BY <1>0 DEF JobType
  <2>3. Become(w, kept) \/ \E S : Become(w, placed(S))
      BY <1>3, Zenon DEF PlaceClaim
  <2>5. ASSUME NEW j, Become(w, j), j.node = job[w].node PROVE Same(w)
      BY <2>5, BecomeJob DEF Same
  <2> HIDE DEF placed, kept
  <2>4. Same(w)
      BY <2>2, <2>3, <2>5, Zenon
  <2> QED BY <1>3, <2>1, <2>4, KeepTurn DEF PlaceClaim
<1>4. ASSUME NEW c \in Claims, PendingSet(w, c) PROVE Turn(w)
  <2>1. job[w].pc \in AtNode
      BY <1>4 DEF PendingSet, AtNode
  <2>2. Same(w)
      BY <1>0, <1>4 DEF PendingSet, JobType, Become, Same
  <2>3. \A d \in Claims, n \in Nodes : pending'[d][n] = pending[d][n] \/ n = job[w].node
      BY <1>4 DEF PendingSet, TypeInv, TypeOK
  <2> QED BY <1>4, <2>1, <2>2, <2>3, KeepTurn DEF PendingSet
<1>5. ASSUME VisitRemove(w) PROVE Turn(w)
  <2>1. job[w].pc \in AtNode
      BY <1>5 DEF VisitRemove, AtNode
  <2>2. Same(w)
      BY <1>0, <1>5 DEF VisitRemove, JobType, Become, Same
  <2>3. \A c \in Claims, n \in Nodes : pending'[c][n] \in {pending[c][n], {}}
      BY <1>5 DEF VisitRemove, NotPending, TypeInv, TypeOK
  <2> QED BY <1>5, <2>1, <2>2, <2>3, KeepTurn DEF VisitRemove
<1>6. ASSUME VisitDone(w) PROVE Turn(w)
  <2>1. job[w].pc \in AtNode
      BY <1>6 DEF VisitDone, AtNode
  <2>2. Same(w)
      BY <1>0, <1>6 DEF VisitDone, JobType, Become, Same
  <2> QED BY <1>6, <2>1, <2>2, KeepTurn DEF VisitDone
<1>7. ASSUME NEW c \in Claims, AllocateGet(w, c) PROVE Turn(w)
  <2> DEFINE n == job[w].sel
             j == [job[w] EXCEPT !.pc = "exists", !.node = n, !.claim = c,
                                 !.crd = nas[n].spec]
  <2>1. n \in Nodes
      BY <1>0, <1>7 DEF AllocateGet, Shape
  <2>2. Become(w, j) /\ j.node = n
      BY <1>0, <1>7 DEF AllocateGet, JobType
  <2> HIDE DEF j
  <2> QED BY <1>7, <2>1, <2>2, TakeTurn DEF AllocateGet
<1>8. ASSUME AllocatePending(w) \/ AllocateTake(w) PROVE Turn(w)
  <2>1. job[w].pc \in AtNode
      BY <1>8 DEF AllocatePending, AllocateTake, AtNode
  <2>2. Same(w)
    <3>1. ASSUME AllocatePending(w) PROVE Same(w)
        BY <1>0, <3>1 DEF AllocatePending, JobType, Become, Same
    <3>2. ASSUME AllocateTake(w) PROVE Same(w)
        BY <1>0, <3>2 DEF AllocateTake, JobType, Become, Same
    <3> QED BY <1>8, <3>1, <3>2
  <2> QED BY <1>8, <2>1, <2>2, KeepTurn DEF AllocatePending, AllocateTake
<1>9. ASSUME UpdateStep(w) PROVE Turn(w)
  <2>1. job[w].pc \in AtNode
      BY <1>9 DEF UpdateStep, UpdateGet, UpdateGetFails, UpdatePut, UpdateConflict, UpdateError,
                  AtNode, UpdatePCs
  <2>2. Same(w)
    <3>1. ASSUME UpdateGet(w) \/ UpdateGetFails(w) PROVE Same(w)
        BY <1>0, <3>1 DEF UpdateGet, UpdateGetFails, JobType, Become, Same
    <3>2. ASSUME UpdatePut(w) PROVE Same(w)
        BY <1>0, <3>2 DEF UpdatePut, JobType, Become, Same
    <3>3. ASSUME CountTry(w) PROVE Same(w)
        BY <1>0, <3>3 DEF CountTry, JobType, Become, Same
    <3> QED BY <1>9, <3>1, <3>2, <3>3 DEF UpdateStep, UpdateConflict, UpdateError
  <2>3. \A n \in Nodes : nas'[n].spec = nas[n].spec \/ n = job[w].node
      BY <1>9 DEF UpdateStep, UpdateGet, UpdateGetFails, UpdatePut, UpdateConflict, UpdateError,
                  TypeInv, TypeOK
  <2>4. UNCHANGED <<pending, lock>>
      BY <1>9 DEF UpdateStep, UpdateGet, UpdateGetFails, UpdatePut, UpdateConflict, UpdateError
  <2> QED BY <2>1, <2>2, <2>3, <2>4, KeepTurn
<1>10. ASSUME DeallocateGet(w), job[w].claim \in nas[job[w].sel].spec.claims PROVE Turn(w)
  <2> DEFINE n == job[w].sel
             j == [job[w] EXCEPT !.pc = "latest", !.node = n]
  <2>1. n \in Nodes
      BY <1>0, <1>10 DEF DeallocateGet, Shape
  <2>2. Become(w, j) /\ j.node = n
      BY <1>0, <1>10 DEF DeallocateGet, JobType
  <2> HIDE DEF j
  <2> QED BY <1>10, <2>1, <2>2, TakeTurn DEF DeallocateGet
<1>11. ASSUME DeallocateLatest(w) PROVE Turn(w)
  <2>1. job[w].pc \in AtNode
      BY <1>11 DEF DeallocateLatest, AtNode
  <2>2. Same(w)
      BY <1>0, <1>11 DEF DeallocateLatest, JobType, Become, Same
  <2> QED BY <1>11, <2>1, <2>2, KeepTurn DEF DeallocateLatest
<1>12. ASSUME DeallocateRelease(w) PROVE Turn(w)
  <2>1. job[w].pc \in AtNode
      BY <1>12 DEF DeallocateRelease, AtNode
  <2>2. Same(w)
      BY <1>0, <1>12 DEF DeallocateRelease, JobType, Become, Same
  <2>3. \A c \in Claims, n \in Nodes : pending'[c][n] \in {pending[c][n], {}}
      BY <1>12 DEF DeallocateRelease, NotPending, TypeInv, TypeOK
  <2> QED BY <1>12, <2>1, <2>2, <2>3, KeepTurn DEF DeallocateRelease
<1> QED BY <1>1, <1>2, <1>3, <1>4, <1>5, <1>6, <1>7, <1>8, <1>9, <1>10, <1>11, <1>12
        DEF StepsAt

LEMMA StepsTurn ==
    ASSUME TypeInv, LockInv, NEW w \in Workers, Starts(w) \/ Continues(w), ~Panics(w)
    PROVE  Turn(w)
BY StepKinds, StepsAwayAre, AwayTurn, StepsAtTurn

\* The mutex protects what a worker has at hand from the steps of the others.
LEMMA Undisturbed ==
    ASSUME TypeInv, LockInv, NEW w \in Workers, Turn(w),
           NEW v \in Workers \ {w}, job[v].pc \in AtNode
    PROVE  /\ job'[v] = job[v] /\ job[v].node \in Nodes
           /\ lock'[job[v].node] = v
           /\ nas'[job[v].node].spec = nas[job[v].node].spec
           /\ \A c \in Claims : pending'[c][job[v].node] \in {pending[c][job[v].node], {}}
<1>1. job'[v] = job[v] /\ job[v].node \in Nodes
    BY DEF Turn, TypeInv, ShapeOK, Shape
<1>2. lock[job[v].node] = v /\ v # None /\ (job[w].pc \in AtNode => lock[job[w].node] = w)
    BY NoneAssumption DEF LockInv
<1>3. ~(job[w].pc \in AtNode /\ job[v].node = job[w].node)
    BY <1>2
<1> QED BY <1>1, <1>2, <1>3 DEF Turn

LEMMA InitLock == Init => LockInv
BY AwayPCs DEF Init, ControllerInit, LockInv, Idle

LEMMA RestartLock == Restart => LockInv'
<1>1. Idle.pc \notin AtNode
    BY AwayPCs DEF Idle
<1> QED BY <1>1 DEF Restart, LockInv

LEMMA NextLock == TypeInv /\ LockInv /\ [Next]_vars => LockInv'
<1> SUFFICES ASSUME TypeInv, LockInv, [Next]_vars PROVE LockInv'
    OBVIOUS
<1>1. ASSUME NEW w \in Workers, Starts(w) \/ Continues(w) PROVE LockInv'
  <2>1. CASE Panics(w)
      BY <2>1, RestartLock DEF Panics, Panic
  <2>2. CASE ~Panics(w)
    <3>1. Turn(w)
        BY <1>1, <2>2, StepsTurn
    <3>2. job'[w].pc \in AtNode => lock'[job'[w].node] = w
        BY <3>1 DEF Turn
    <3>3. ASSUME NEW v \in Workers \ {w}, job'[v].pc \in AtNode PROVE lock'[job'[v].node] = v
      <4>1. job[v].pc \in AtNode
          BY <3>1, <3>3 DEF Turn
      <4> QED BY <3>1, <4>1, Undisturbed
    <3> QED BY <3>2, <3>3 DEF LockInv
  <2> QED BY <2>1, <2>2
<1>2. CASE Environment
    BY <1>2, RestartLock
       DEF Environment, DeleteClaim, RequestDeallocate, SetStatus, Crash, LockInv
<1>3. CASE UNCHANGED vars
    BY <1>3 DEF vars, LockInv
<1> QED BY <1>1, <1>2, <1>3 DEF Next

THEOREM LockInvariant == Spec => []LockInv
<1> QED BY InitLock, NextLock, TypeInvariant, PTL DEF Spec

----------------------------------------------------------------------------
(***************************************************************************)
(* The copy of a spec that a worker stores.                                *)
(***************************************************************************)

\* Where a worker is about to store its copy.
ToStore == {"updateGet", "updatePut"}

\* Copy j.crd is spec s with the worker's own claim entered, or taken out.
Changed(j, s) ==
    IF j.pod # None
      THEN j.claim \notin s.claims /\ j.crd = AddClaim(s, j.claim, j.crd.cpus[j.claim])
      ELSE j.claim \in s.claims /\ j.crd = RemoveClaim(s, j.claim)

\* How a worker's copy compares with the spec s of its node, at each point: equal
\* until it is changed, and equal again once it is stored (an update whose answer
\* was lost is stored a second time).
Copy(j, s) ==
    /\ j.pc \in {"exists", "take", "release", "updated"} => j.crd = s
    /\ j.pc \in {"exists", "take"} => j.claim \notin s.claims
    /\ j.pc \in {"latest", "release"} => j.claim \in s.claims
    /\ j.pc \in ToStore => j.crd = s \/ Changed(j, s)
    /\ j.pc \in ToStore \cup {"updated"} => (j.claim \in j.crd.claims <=> j.pod # None)

CopyInv == \A w \in Workers : job[w].pc \in AtNode => Copy(job[w], nas[job[w].node].spec)

\* The steps of UnsuitableNodes with a NAS at hand.
PlanSteps(w) ==
    \/ \E n \in Nodes : UnsuitableGet(w, n)
    \/ \E c \in Claims : VisitPending(w, c) \/ PlaceClaim(w, c) \/ PendingSet(w, c)
    \/ VisitRemove(w) \/ VisitDone(w)

Planning == {"visit", "remove", "place"}

\* They lead to each other and leave the specs alone.
LEMMA PlanStepsPCs ==
    ASSUME TypeInv, NEW w \in Workers, PlanSteps(w)
    PROVE  job'[w].pc \in Planning /\ UNCHANGED nas
<1>0. job \in [Workers -> JobType] /\ job[w] \in JobType
    BY DEF TypeInv, TypeOK
<1>1. ASSUME NEW n \in Nodes, UnsuitableGet(w, n) PROVE job'[w].pc \in Planning
    BY <1>0, <1>1 DEF UnsuitableGet, Become, JobType, Planning
<1>2. ASSUME NEW c \in Claims, VisitPending(w, c) PROVE job'[w].pc \in Planning
    BY <1>0, <1>2 DEF VisitPending, Become, JobType, Planning
<1>3. ASSUME NEW c \in Claims, PlaceClaim(w, c) PROVE job'[w].pc \in Planning
  <2> DEFINE placed(S) == [job[w] EXCEPT !.todo = @ \ {c}, !.plan[c] = S]
             kept == [job[w] EXCEPT !.todo = @ \ {c}]
  <2>1. job[w].pc = "place"
      BY <1>3 DEF PlaceClaim
  <2>2. kept.pc = "place" /\ \A S : placed(S).pc = "place"
      BY <1>0, <2>1 DEF JobType
  <2>3. Become(w, kept) \/ \E S : Become(w, placed(S))
      BY <1>3, Zenon DEF PlaceClaim
  <2>4. ASSUME NEW j, Become(w, j), j.pc = "place" PROVE job'[w].pc \in Planning
      BY <2>4, BecomeJob DEF Planning
  <2> HIDE DEF placed, kept
  <2> QED BY <2>2, <2>3, <2>4, Zenon
<1>4. ASSUME NEW c \in Claims, PendingSet(w, c) PROVE job'[w].pc \in Planning
    BY <1>0, <1>4 DEF PendingSet, Become, JobType, Planning
<1>5. ASSUME VisitRemove(w) PROVE job'[w].pc \in Planning
    BY <1>0, <1>5 DEF VisitRemove, Become, JobType, Planning
<1>6. ASSUME VisitDone(w) PROVE job'[w].pc \in Planning
    BY <1>0, <1>6 DEF VisitDone, Become, JobType, Planning
<1>7. UNCHANGED nas
    BY DEF PlanSteps, UnsuitableGet, VisitPending, PlaceClaim, PendingSet, VisitRemove, VisitDone
<1> QED BY <1>1, <1>2, <1>3, <1>4, <1>5, <1>6, <1>7 DEF PlanSteps

LEMMA PlanningCopy == ASSUME NEW j, j.pc \in Planning, NEW s PROVE Copy(j, s)
BY DEF Copy, Planning, ToStore

\* The worker's own copy after a step at its node.
LEMMA StepsAtCopy ==
    ASSUME TypeInv, CopyInv, NEW w \in Workers, StepsAt(w)
    PROVE  Copy(job'[w], nas'[job'[w].node].spec)
<1>0. job \in [Workers -> JobType] /\ job[w] \in JobType /\ Shape(job[w])
    BY DEF TypeInv, TypeOK, ShapeOK
<1> DEFINE s == nas[job[w].node].spec
<1>a. job[w].pc \in AtNode => job[w].node \in Nodes /\ Copy(job[w], s)
    BY <1>0 DEF CopyInv, Shape
<1>b. \A n \in Nodes : nas[n].spec \in SpecType
    BY DEF TypeInv, TypeOK
<1>c. None \notin Pods
    BY NoneAssumption
<1>1. CASE PlanSteps(w)
    BY <1>1, PlanStepsPCs, PlanningCopy
<1>2. ASSUME NEW c \in Claims, AllocateGet(w, c) PROVE Copy(job'[w], nas'[job'[w].node].spec)
  <2>1. /\ job'[w].pc = "exists" /\ job'[w].node = job[w].sel /\ job'[w].claim = c
        /\ job'[w].crd = nas[job[w].sel].spec
      BY <1>0, <1>2 DEF AllocateGet, Become, JobType
  <2> QED BY <1>2, <2>1 DEF AllocateGet, Copy, ToStore
<1>3. ASSUME AllocatePending(w) PROVE Copy(job'[w], nas'[job'[w].node].spec)
  <2>1. /\ job'[w].pc = "take" /\ job'[w].node = job[w].node /\ job'[w].claim = job[w].claim
        /\ job'[w].crd = job[w].crd /\ job[w].pc = "exists"
      BY <1>0, <1>3 DEF AllocatePending, Become, JobType
  <2>2. Copy(job[w], s)
      BY <1>a, <2>1 DEF AtNode
  <2> QED BY <1>3, <2>1, <2>2 DEF AllocatePending, Copy, ToStore
<1>4. ASSUME AllocateTake(w) PROVE Copy(job'[w], nas'[job'[w].node].spec)
  <2> DEFINE c == job[w].claim
             S == pending[c][job[w].node]
  <2>1. /\ job'[w].pc = "updateGet" /\ job'[w].node = job[w].node /\ job'[w].claim = c
        /\ job'[w].pod = job[w].pod /\ job'[w].crd = AddClaim(job[w].crd, c, S)
        /\ job[w].pc = "take"
      BY <1>0, <1>4 DEF AllocateTake, Become, JobType
  <2>2. Copy(job[w], s) /\ s \in SpecType /\ c \in Claims
      BY <1>0, <1>a, <1>b, <2>1 DEF AtNode, Shape
  <2>3. s.claims \in SUBSET Claims /\ s.cpus \in [Claims -> SUBSET Cpus]
      BY <2>2 DEF SpecType
  <2>4. job[w].crd = s /\ c \notin s.claims /\ job[w].pod # None
      BY <1>0, <1>c, <2>1, <2>2 DEF Copy, Shape, PodPCs
  <2> HIDE DEF s, S, c
  <2>5. AddClaim(s, c, S).claims = s.claims \cup {c} /\ AddClaim(s, c, S).cpus[c] = S
      BY <2>2, <2>3 DEF AddClaim
  <2>6. nas'[job'[w].node].spec = s
      BY <1>4, <2>1 DEF AllocateTake, s
  <2> QED BY <2>1, <2>4, <2>5, <2>6 DEF Copy, ToStore, Changed
<1>5. ASSUME UpdateGet(w) PROVE Copy(job'[w], nas'[job'[w].node].spec)
  <2>1. /\ job'[w].pc = "updatePut" /\ job'[w].node = job[w].node /\ job'[w].claim = job[w].claim
        /\ job'[w].crd = job[w].crd /\ job'[w].pod = job[w].pod /\ job[w].pc = "updateGet"
      BY <1>0, <1>5 DEF UpdateGet, Become, JobType
  <2>2. Copy(job[w], s)
      BY <1>a, <2>1 DEF AtNode, UpdatePCs
  <2> QED BY <1>5, <2>1, <2>2 DEF UpdateGet, Copy, ToStore, Changed
<1>6. ASSUME UpdateGetFails(w) PROVE Copy(job'[w], nas'[job'[w].node].spec)
  <2>1. job'[w].pc = "updateFailed"
      BY <1>0, <1>6 DEF UpdateGetFails, Become, JobType
  <2> QED BY <2>1 DEF Copy, ToStore
<1>7. ASSUME UpdatePut(w) PROVE Copy(job'[w], nas'[job'[w].node].spec)
  <2>1. /\ job'[w].pc = "updated" /\ job'[w].node = job[w].node /\ job'[w].claim = job[w].claim
        /\ job'[w].crd = job[w].crd /\ job'[w].pod = job[w].pod /\ job[w].pc = "updatePut"
      BY <1>0, <1>7 DEF UpdatePut, Become, JobType
  <2>2. Copy(job[w], s) /\ job[w].node \in Nodes
      BY <1>a, <2>1 DEF AtNode, UpdatePCs
  <2>3. nas'[job[w].node].spec = job[w].crd
      BY <1>7, <2>2 DEF UpdatePut, TypeInv, TypeOK
  <2> QED BY <2>1, <2>2, <2>3 DEF Copy, ToStore
<1>8. ASSUME UpdateConflict(w) \/ UpdateError(w) PROVE Copy(job'[w], nas'[job'[w].node].spec)
  <2>0. CountTry(w) /\ job[w].pc = "updatePut"
      BY <1>8 DEF UpdateConflict, UpdateError
  <2>1. /\ job'[w].pc \in {"updateGet", "updateFailed"}
        /\ job'[w].node = job[w].node /\ job'[w].claim = job[w].claim
        /\ job'[w].crd = job[w].crd /\ job'[w].pod = job[w].pod
      BY <1>0, <2>0 DEF CountTry, Become, JobType
  <2>2. Copy(job[w], s) /\ job[w].node \in Nodes
      BY <1>a, <2>0 DEF AtNode, UpdatePCs
  <2>3. nas'[job[w].node].spec \in {s, job[w].crd}
    <3>1. CASE UNCHANGED nas
        BY <3>1
    <3>2. CASE nas' = [nas EXCEPT ![job[w].node].spec = job[w].crd]
        BY <2>2, <3>2 DEF TypeInv, TypeOK
    <3> QED BY <1>8, <3>1, <3>2 DEF UpdateConflict, UpdateError
  <2> QED BY <2>0, <2>1, <2>2, <2>3 DEF Copy, ToStore, Changed
<1>9. ASSUME DeallocateGet(w), job[w].claim \in nas[job[w].sel].spec.claims
      PROVE Copy(job'[w], nas'[job'[w].node].spec)
  <2>0. Become(w, [job[w] EXCEPT !.pc = "latest", !.node = job[w].sel])
      BY <1>9 DEF DeallocateGet
  <2>1. job'[w].pc = "latest" /\ job'[w].node = job[w].sel /\ job'[w].claim = job[w].claim
      BY <1>0, <2>0 DEF Become, JobType
  <2> QED BY <1>9, <2>1 DEF DeallocateGet, Copy, ToStore
<1>10. ASSUME DeallocateLatest(w) PROVE Copy(job'[w], nas'[job'[w].node].spec)
  <2>1. /\ job'[w].pc = "release" /\ job'[w].node = job[w].node /\ job'[w].claim = job[w].claim
        /\ job'[w].crd = s /\ job[w].pc = "latest"
      BY <1>0, <1>10 DEF DeallocateLatest, Become, JobType
  <2>2. Copy(job[w], s)
      BY <1>a, <2>1 DEF AtNode
  <2> QED BY <1>10, <2>1, <2>2 DEF DeallocateLatest, Copy, ToStore
<1>11. ASSUME DeallocateRelease(w) PROVE Copy(job'[w], nas'[job'[w].node].spec)
  <2> DEFINE c == job[w].claim
  <2>1. /\ job'[w].pc = "updateGet" /\ job'[w].node = job[w].node /\ job'[w].claim = c
        /\ job'[w].pod = job[w].pod /\ job'[w].crd = RemoveClaim(job[w].crd, c)
        /\ job[w].pc = "release"
      BY <1>0, <1>11 DEF DeallocateRelease, Become, JobType
  <2>2. Copy(job[w], s)
      BY <1>a, <2>1 DEF AtNode
  <2>3. job[w].crd = s /\ c \in s.claims /\ job[w].pod = None
      BY <1>0, <2>1, <2>2 DEF Copy, Shape, ClaimPCs
  <2> HIDE DEF s, c
  <2>4. RemoveClaim(s, c).claims = s.claims \ {c}
      BY DEF RemoveClaim
  <2>5. nas'[job'[w].node].spec = s
      BY <1>11, <2>1 DEF DeallocateRelease, s
  <2> QED BY <2>1, <2>3, <2>4, <2>5 DEF Copy, ToStore, Changed
<1> QED BY <1>1, <1>2, <1>3, <1>4, <1>5, <1>6, <1>7, <1>8, <1>9, <1>10, <1>11
        DEF StepsAt, PlanSteps, UpdateStep

LEMMA InitCopy == Init => CopyInv
BY AwayPCs DEF Init, ControllerInit, CopyInv, Idle

LEMMA RestartCopy == Restart => CopyInv'
<1>1. Idle.pc \notin AtNode
    BY AwayPCs DEF Idle
<1> QED BY <1>1 DEF Restart, CopyInv

LEMMA NextCopy == TypeInv /\ LockInv /\ CopyInv /\ [Next]_vars => CopyInv'
<1> SUFFICES ASSUME TypeInv, LockInv, CopyInv, [Next]_vars PROVE CopyInv'
    OBVIOUS
<1>1. ASSUME NEW w \in Workers, Starts(w) \/ Continues(w) PROVE CopyInv'
  <2>1. CASE Panics(w)
      BY <2>1, RestartCopy DEF Panics, Panic
  <2>2. CASE ~Panics(w)
    <3>1. Turn(w)
        BY <1>1, <2>2, StepsTurn
    <3>2. job'[w].pc \in AtNode => Copy(job'[w], nas'[job'[w].node].spec)
      <4>1. CASE StepsAway(w)
          BY <4>1, StepsAwayAre DEF Away
      <4>2. CASE StepsAt(w)
          BY <4>2, StepsAtCopy
      <4> QED BY <1>1, <2>2, <4>1, <4>2, StepKinds
    <3>3. ASSUME NEW v \in Workers \ {w}, job'[v].pc \in AtNode
          PROVE  Copy(job'[v], nas'[job'[v].node].spec)
      <4>1. job'[v] = job[v] /\ job[v].pc \in AtNode
          BY <3>1, <3>3 DEF Turn
      <4>2. nas'[job[v].node].spec = nas[job[v].node].spec
          BY <3>1, <4>1, Undisturbed
      <4> QED BY <4>1, <4>2 DEF CopyInv
    <3> QED BY <3>2, <3>3 DEF CopyInv
  <2> QED BY <2>1, <2>2
<1>2. CASE Environment
  <2>1. CASE Crash
      BY <2>1, RestartCopy DEF Crash
  <2>2. ASSUME NEW c \in Claims, DeleteClaim(c) \/ RequestDeallocate(c) PROVE CopyInv'
      BY <2>2 DEF DeleteClaim, RequestDeallocate, CopyInv
  <2>3. ASSUME NEW n \in Nodes, SetStatus(n) PROVE CopyInv'
    <3>1. \A m \in Nodes : nas'[m].spec = nas[m].spec
        BY <2>3 DEF SetStatus, TypeInv, TypeOK
    <3>2. \A v \in Workers : job[v].pc \in AtNode => job[v].node \in Nodes
        BY DEF TypeInv, ShapeOK, Shape
    <3> QED BY <2>3, <3>1, <3>2 DEF SetStatus, CopyInv
  <2> QED BY <1>2, <2>1, <2>2, <2>3 DEF Environment
<1>3. CASE UNCHANGED vars
    BY <1>3 DEF vars, CopyInv
<1> QED BY <1>1, <1>2, <1>3 DEF Next

\* The copy a worker holds is the spec of its node, but for the worker's own
\* change, as long as it holds the node's mutex.
THEOREM CopyInvariant == Spec => []CopyInv
<1> QED BY InitCopy, NextCopy, LockInvariant, TypeInvariant, InitTypeInv, InitLock, PTL DEF Spec

\* Client.Update overwrites the spec in every attempt with the copy made before
\* the first one, and no other worker's claim is lost.
THEOREM NoUpdateLost == Spec => []NoLostUpdate
<1>1. ASSUME TypeInv, CopyInv PROVE NoLostUpdate
  <2> SUFFICES ASSUME NEW w \in Workers, job[w].pc \in {"updateGet", "updatePut"}
               PROVE  LET mine == job[w].claim
                          stored == nas[job[w].node].spec
                      IN  /\ job[w].crd.claims \ {mine} = stored.claims \ {mine}
                          /\ \A c \in Claims \ {mine} : job[w].crd.cpus[c] = stored.cpus[c]
      BY DEF NoLostUpdate
  <2> DEFINE mine == job[w].claim
             s == nas[job[w].node].spec
             S == job[w].crd.cpus[mine]
  <2>0. job[w].pc \in AtNode
      BY DEF AtNode, UpdatePCs
  <2>1. job[w].node \in Nodes /\ s \in SpecType
      BY <1>1, <2>0 DEF TypeInv, TypeOK, ShapeOK, Shape
  <2>2. job[w].crd \in {s, AddClaim(s, mine, S), RemoveClaim(s, mine)}
      BY <1>1, <2>0 DEF CopyInv, Copy, ToStore, Changed
  <2>3. s.cpus \in [Claims -> SUBSET Cpus]
      BY <2>1 DEF SpecType
  <2> HIDE DEF s, S, mine
  <2>4. /\ AddClaim(s, mine, S).claims \ {mine} = s.claims \ {mine}
        /\ RemoveClaim(s, mine).claims \ {mine} = s.claims \ {mine}
        /\ \A c \in Claims \ {mine} : /\ AddClaim(s, mine, S).cpus[c] = s.cpus[c]
                                      /\ RemoveClaim(s, mine).cpus[c] = s.cpus[c]
      BY <2>3 DEF AddClaim, RemoveClaim
  <2>5. /\ job[w].crd.claims \ {mine} = s.claims \ {mine}
        /\ \A c \in Claims \ {mine} : job[w].crd.cpus[c] = s.cpus[c]
      BY <2>2, <2>4
  <2> QED BY <2>5 DEF s, mine
<1> QED BY <1>1, CopyInvariant, TypeInvariant, PTL

----------------------------------------------------------------------------
(***************************************************************************)
(* What the worker of a deallocation knows of its claim.                   *)
(***************************************************************************)

\* Deallocating, until the claim's status is cleared.
Dealloc(j) == j.pod = None /\ j.pc \in {"dealloc", "latest", "release", "clear"} \cup UpdatePCs

\* A current copy of a claim that is still to be allocated says so.
FreshInv ==
    \A w \in Workers : \A c \in job[w].cas : w \in claimFresh[c] => claim[c].node = None

\* The claim that j deallocates is not wanted any more, allocated where it was
\* when the worker read it, and kept from disappearing.
GivenUp(j) ==
    Dealloc(j) =>
       /\ j.sel # None /\ j.claim # None
       /\ claim[j.claim].phase \in {"deallocate", "delete"}
       /\ claim[j.claim].node = j.sel
       /\ claim[j.claim].finalizer

\* Two jobs that sync the same claim.
SameClaim(i, j) == i.pod = None /\ j.pod = None /\ i.claim = j.claim /\ i.claim # None

\* The queue has no second worker on a claim, and the status can only be set
\* from a copy in which the claim is not allocated.
DeallocInv ==
    /\ \A w \in Workers : GivenUp(job[w])
    /\ \A v, w \in Workers : SameClaim(job[v], job[w]) => v = w

StatusInv == FreshInv /\ DeallocInv

\* Steps of worker w that change neither the claims nor what it is about.
Steady(w) ==
    /\ \A v \in Workers \ {w} : job'[v] = job[v]
    /\ UNCHANGED <<claim, claimFresh>>
    /\ job'[w].cas \subseteq job[w].cas
    /\ job'[w].pod = job[w].pod
    /\ job[w].pod = None =>
          /\ job'[w].claim = job[w].claim /\ job'[w].sel = job[w].sel
          /\ Dealloc(job'[w]) => Dealloc(job[w])

\* The steps of a pod's sync that write no claim.
LEMMA PodStepsSteady ==
    ASSUME TypeInv, NEW w \in Workers,
           \/ \E n \in Nodes : UnsuitableGet(w, n) \/ UnsuitableNotReady(w, n)
           \/ \E c \in Claims : \/ VisitPending(w, c) \/ PlaceClaim(w, c) \/ PlaceFails(w, c)
                                \/ PendingSet(w, c)
           \/ VisitRemove(w) \/ VisitDone(w) \/ UnsuitableDone(w)
           \/ StartAllocate(w) \/ FinalizersAdded(w)
           \/ \E c \in Claims : \/ AddFinalizerFails(w, c)
                                \/ AllocateGet(w, c) \/ AllocateExists(w, c)
                                \/ AllocateNotReady(w, c) \/ SetClaimStatusFails(w, c)
           \/ AllocatePending(w) \/ AllocateNotPending(w) \/ AllocateTake(w)
           \/ AllocateSuccess(w) \/ AllocateFails(w)
    PROVE  Steady(w)
<1>0. job \in [Workers -> JobType] /\ job[w] \in JobType /\ Shape(job[w])
    BY DEF TypeInv, TypeOK, ShapeOK
<1>a. job[w].pc \in PodPCs => job[w].pod # None
    BY <1>0, NoneAssumption DEF Shape
<1>b. ASSUME NEW j, Become(w, j), j.cas \subseteq job[w].cas, j.pod = job[w].pod,
             job[w].pod # None, UNCHANGED <<claim, claimFresh>>
      PROVE  Steady(w)
    BY <1>b, BecomeJob DEF Steady
<1>1. ASSUME NEW n \in Nodes, UnsuitableGet(w, n) PROVE Steady(w)
    BY <1>0, <1>a, <1>b, <1>1 DEF UnsuitableGet, JobType, PodPCs
<1>2. ASSUME NEW n \in Nodes, UnsuitableNotReady(w, n) PROVE Steady(w)
    BY <1>0, <1>a, <1>b, <1>2 DEF UnsuitableNotReady, JobType, PodPCs
<1>3. ASSUME NEW c \in Claims, VisitPending(w, c) PROVE Steady(w)
    BY <1>0, <1>a, <1>b, <1>3 DEF VisitPending, JobType, PodPCs
<1>4. ASSUME NEW c \in Claims, PlaceClaim(w, c) PROVE Steady(w)
  <2> DEFINE placed(S) == [job[w] EXCEPT !.todo = @ \ {c}, !.plan[c] = S]
             kept == [job[w] EXCEPT !.todo = @ \ {c}]
  <2>1. job[w].pod # None /\ UNCHANGED <<claim, claimFresh>>
      BY <1>a, <1>4 DEF PlaceClaim, PodPCs
  <2>2. /\ kept.cas = job[w].cas /\ kept.pod = job[w].pod
        /\ \A S : placed(S).cas = job[w].cas /\ placed(S).pod = job[w].pod
      BY <1>0 DEF JobType
  <2>3. Become(w, kept) \/ \E S : Become(w, placed(S))
      BY <1>4, Zenon DEF PlaceClaim
  <2> HIDE DEF placed, kept
  <2>4. PICK j : Become(w, j) /\ j.cas = job[w].cas /\ j.pod = job[w].pod
      BY <2>2, <2>3, Zenon
  <2> QED BY <1>b, <2>1, <2>4
<1>5. ASSUME NEW c \in Claims, PlaceFails(w, c) PROVE Steady(w)
    BY <1>0, <1>a, <1>b, <1>5 DEF PlaceFails, JobType, PodPCs
<1>6. ASSUME NEW c \in Claims, PendingSet(w, c) PROVE Steady(w)
    BY <1>0, <1>a, <1>b, <1>6 DEF PendingSet, JobType, PodPCs
<1>7. ASSUME VisitRemove(w) PROVE Steady(w)
    BY <1>0, <1>a, <1>b, <1>7 DEF VisitRemove, JobType, PodPCs
<1>8. ASSUME VisitDone(w) PROVE Steady(w)
    BY <1>0, <1>a, <1>b, <1>8 DEF VisitDone, JobType, PodPCs
<1>9. ASSUME UnsuitableDone(w) PROVE Steady(w)
    BY <1>0, <1>a, <1>b, <1>9 DEF UnsuitableDone, JobType, PodPCs
<1>10. ASSUME StartAllocate(w) PROVE Steady(w)
    BY <1>0, <1>a, <1>b, <1>10 DEF StartAllocate, JobType, PodPCs
<1>11. ASSUME FinalizersAdded(w) PROVE Steady(w)
    BY <1>0, <1>a, <1>b, <1>11 DEF FinalizersAdded, JobType, PodPCs
<1>12. ASSUME NEW c \in Claims, AddFinalizerFails(w, c) PROVE Steady(w)
    BY <1>0, <1>a, <1>b, <1>12 DEF AddFinalizerFails, JobType, PodPCs
<1>13. ASSUME NEW c \in Claims, AllocateGet(w, c) PROVE Steady(w)
    BY <1>0, <1>a, <1>b, <1>13 DEF AllocateGet, JobType, PodPCs
<1>14. ASSUME NEW c \in Claims, AllocateExists(w, c) PROVE Steady(w)
    BY <1>0, <1>a, <1>b, <1>14 DEF AllocateExists, JobType, PodPCs
<1>15. ASSUME NEW c \in Claims, AllocateNotReady(w, c) PROVE Steady(w)
    BY <1>0, <1>a, <1>b, <1>15 DEF AllocateNotReady, JobType, PodPCs
<1>16. ASSUME NEW c \in Claims, SetClaimStatusFails(w, c) PROVE Steady(w)
    BY <1>0, <1>a, <1>b, <1>16 DEF SetClaimStatusFails, JobType, PodPCs
<1>17. ASSUME AllocatePending(w) PROVE Steady(w)
    BY <1>0, <1>a, <1>b, <1>17 DEF AllocatePending, JobType, PodPCs
<1>18. ASSUME AllocateNotPending(w) PROVE Steady(w)
    BY <1>0, <1>a, <1>b, <1>18 DEF AllocateNotPending, DropClaim, JobType, PodPCs
<1>19. ASSUME AllocateTake(w) PROVE Steady(w)
    BY <1>0, <1>a, <1>b, <1>19 DEF AllocateTake, JobType, PodPCs
<1>20. ASSUME AllocateSuccess(w) PROVE Steady(w)
    BY <1>0, <1>b, <1>20 DEF AllocateSuccess, JobType
<1>21. ASSUME AllocateFails(w) PROVE Steady(w)
    BY <1>0, <1>b, <1>21 DEF AllocateFails, DropClaim, JobType
<1> QED BY <1>1, <1>2, <1>3, <1>4, <1>5, <1>6, <1>7, <1>8, <1>9, <1>10, <1>11, <1>12, <1>13,
           <1>14, <1>15, <1>16, <1>17, <1>18, <1>19, <1>20, <1>21

\* The steps of Client.Update and of Deallocate.
LEMMA ClaimStepsSteady ==
    ASSUME TypeInv, NEW w \in Workers,
           \/ UpdateStep(w)
           \/ DeallocateGet(w) \/ DeallocateLatest(w) \/ DeallocateRelease(w) \/ DeallocateDone(w)
    PROVE  Steady(w)
<1>0. job \in [Workers -> JobType] /\ job[w] \in JobType /\ Shape(job[w])
    BY DEF TypeInv, TypeOK, ShapeOK
<1>b. ASSUME NEW j, Become(w, j), j.cas = job[w].cas, j.pod = job[w].pod,
             j.claim = job[w].claim, j.sel = job[w].sel,
             job[w].pc \in {"dealloc", "latest", "release"} \cup UpdatePCs,
             UNCHANGED <<claim, claimFresh>>
      PROVE  Steady(w)
    BY <1>b, BecomeJob DEF Steady, Dealloc
<1>1. ASSUME UpdateGet(w) PROVE Steady(w)
    BY <1>0, <1>b, <1>1 DEF UpdateGet, JobType, UpdatePCs
<1>2. ASSUME UpdateGetFails(w) PROVE Steady(w)
    BY <1>0, <1>b, <1>2 DEF UpdateGetFails, JobType, UpdatePCs
<1>3. ASSUME UpdatePut(w) PROVE Steady(w)
    BY <1>0, <1>b, <1>3 DEF UpdatePut, JobType, UpdatePCs
<1>4. ASSUME UpdateConflict(w) \/ UpdateError(w) PROVE Steady(w)
  <2>1. CountTry(w) /\ job[w].pc = "updatePut" /\ UNCHANGED <<claim, claimFresh>>
      BY <1>4 DEF UpdateConflict, UpdateError
  <2> QED BY <1>0, <1>b, <2>1 DEF CountTry, JobType, UpdatePCs
<1>5. ASSUME DeallocateGet(w) PROVE Steady(w)
  <2>1. CASE Become(w, [job[w] EXCEPT !.pc = "latest", !.node = job[w].sel])
      BY <1>0, <1>b, <1>5, <2>1 DEF DeallocateGet, JobType
  <2>2. CASE Become(w, [job[w] EXCEPT !.pc = "clear"])
      BY <1>0, <1>b, <1>5, <2>2 DEF DeallocateGet, JobType
  <2> QED BY <1>5, <2>1, <2>2 DEF DeallocateGet
<1>6. ASSUME DeallocateLatest(w) PROVE Steady(w)
    BY <1>0, <1>b, <1>6 DEF DeallocateLatest, JobType
<1>7. ASSUME DeallocateRelease(w) PROVE Steady(w)
    BY <1>0, <1>b, <1>7 DEF DeallocateRelease, JobType
<1>8. ASSUME DeallocateDone(w) PROVE Steady(w)
    BY <1>0, <1>b, <1>8 DEF DeallocateDone, JobType, UpdatePCs
<1> QED BY <1>1, <1>2, <1>3, <1>4, <1>5, <1>6, <1>7, <1>8 DEF UpdateStep

LEMMA SteadyStatus ==
    ASSUME StatusInv, NEW w \in Workers, Steady(w)
    PROVE  StatusInv'
<1>1. FreshInv'
    BY DEF StatusInv, FreshInv, Steady
<1>2. ASSUME NEW v \in Workers PROVE GivenUp(job[v])' /\ (Dealloc(job'[v]) => Dealloc(job[v]))
    BY DEF Steady, Dealloc, StatusInv, DeallocInv, GivenUp
<1>3. ASSUME NEW v \in Workers, NEW u \in Workers, SameClaim(job'[v], job'[u]) PROVE v = u
  <2>1. SameClaim(job[v], job[u])
      BY <1>3 DEF Steady, SameClaim
  <2> QED BY <2>1 DEF StatusInv, DeallocInv
<1> QED BY <1>1, <1>2, <1>3 DEF StatusInv, DeallocInv

\* A worker that becomes idle.
LEMMA IdleStatus ==
    ASSUME TypeInv, StatusInv, NEW w \in Workers, Become(w, Idle), UNCHANGED claim,
           \A c \in Claims : claimFresh'[c] \subseteq claimFresh[c]
    PROVE  StatusInv'
<1>1. job'[w] = Idle /\ \A v \in Workers \ {w} : job'[v] = job[v]
    BY BecomeJob
<1>2. Idle.cas = {} /\ ~Dealloc(Idle) /\ Idle.claim = None
    BY DEF Idle, Dealloc, UpdatePCs
<1>5. \A v \in Workers : job[v].cas \subseteq Claims
    BY DEF TypeInv, TypeOK, JobType
<1>3. FreshInv'
    BY <1>1, <1>2, <1>5 DEF StatusInv, FreshInv
<1>4. ASSUME NEW v \in Workers PROVE GivenUp(job[v])'
    BY <1>1, <1>2 DEF StatusInv, DeallocInv, GivenUp
<1>6. ASSUME NEW v \in Workers, NEW u \in Workers, SameClaim(job'[v], job'[u]) PROVE v = u
  <2>1. SameClaim(job[v], job[u])
      BY <1>1, <1>2, <1>6 DEF SameClaim
  <2> QED BY <2>1 DEF StatusInv, DeallocInv
<1> QED BY <1>3, <1>4, <1>6 DEF StatusInv, DeallocInv

\* A worker's write of claim c, which no other worker is deallocating then.
LEMMA WriteStatus ==
    ASSUME TypeInv, StatusInv, NEW w \in Workers, NEW c \in Claims,
           \A v \in Workers \ {w} : job'[v] = job[v],
           \A d \in Claims \ {c} : claim'[d] = claim[d] /\ claimFresh'[d] = claimFresh[d],
           claimFresh'[c] \subseteq {w},
           job'[w].cas \subseteq job[w].cas,
           c \in job'[w].cas => claim'[c].node \in {claim[c].node, None},
           job'[w].pod = job[w].pod \/ job'[w].claim = None,
           job'[w].claim \in {job[w].claim, None}, ~Dealloc(job'[w]),
           \/ /\ claim'[c].phase = claim[c].phase /\ claim'[c].node = claim[c].node
              /\ claim[c].finalizer => claim'[c].finalizer
           \/ \A v \in Workers \ {w} : ~(Dealloc(job[v]) /\ job[v].claim = c),
           w \in claimFresh[c]
    PROVE  StatusInv'
<1>0. \A v \in Workers : /\ job[v].cas \subseteq Claims /\ job[v].claim \in Claims \cup {None}
    BY DEF TypeInv, TypeOK, JobType
<1>1. FreshInv'
  <2> SUFFICES ASSUME NEW v \in Workers, NEW d \in job'[v].cas, v \in claimFresh'[d]
               PROVE  claim'[d].node = None
      BY DEF FreshInv
  <2>1. d \in job[v].cas /\ d \in Claims
      BY <1>0
  <2>2. CASE d # c
      BY <2>1, <2>2 DEF StatusInv, FreshInv
  <2>3. CASE d = c
      BY <2>1, <2>3 DEF StatusInv, FreshInv
  <2> QED BY <2>2, <2>3
<1>2. ASSUME NEW v \in Workers, NEW u \in Workers, SameClaim(job'[v], job'[u]) PROVE v = u
  <2>1. SameClaim(job[v], job[u])
      BY <1>2 DEF SameClaim
  <2> QED BY <2>1 DEF StatusInv, DeallocInv
<1>3. ASSUME NEW v \in Workers PROVE GivenUp(job[v])'
  <2>1. CASE v = w
      BY <2>1 DEF GivenUp
  <2>2. CASE v # w
      BY <1>0, <2>2 DEF StatusInv, DeallocInv, GivenUp
  <2> QED BY <2>1, <2>2
<1> QED BY <1>1, <1>2, <1>3 DEF StatusInv, DeallocInv

LEMMA StartsStatus ==
    ASSUME TypeInv, StatusInv, NEW w \in Workers, Starts(w)
    PROVE  StatusInv'
<1>0. \A v \in Workers : job[v].cas \subseteq Claims
    BY DEF TypeInv, TypeOK, JobType
<1>a. Idle.cas = {} /\ Idle.claim = None /\ Idle.pod = None
    BY DEF Idle
<1>1. ASSUME NEW p \in Pods, SyncPod(w, p) PROVE StatusInv'
  <2> DEFINE cas == {c \in ClaimsOf(p) : claim[c].node = None}
             first(nodes, sel) ==
                [Idle EXCEPT !.pc = "unsuitable", !.pod = p, !.sel = sel, !.nodes = nodes,
                             !.cas = cas, !.finalized = {c \in cas : claim[c].finalizer}]
  <2>1. PICK nodes, sel : Become(w, first(nodes, sel))
      BY <1>1 DEF SyncPod
  <2>2. first(nodes, sel).cas = cas /\ first(nodes, sel).pod = p
      BY DEF Idle
  <2> HIDE DEF first
  <2>3. job'[w].cas = cas /\ job'[w].pod = p /\ \A v \in Workers \ {w} : job'[v] = job[v]
      BY <2>1, <2>2, BecomeJob
  <2>4. p # None /\ ~Dealloc(job'[w])
      BY <2>3, NoneAssumption DEF Dealloc
  <2>5. \A d \in Claims, v \in Workers \ {w} : v \in claimFresh'[d] => v \in claimFresh[d]
      BY <1>1 DEF SyncPod
  <2>6. FreshInv'
      BY <1>0, <1>1, <2>3, <2>5 DEF SyncPod, StatusInv, FreshInv
  <2>7. ASSUME NEW v \in Workers PROVE GivenUp(job[v])'
      BY <1>1, <2>3, <2>4 DEF SyncPod, StatusInv, DeallocInv, GivenUp
  <2>8. ASSUME NEW v \in Workers, NEW u \in Workers, SameClaim(job'[v], job'[u]) PROVE v = u
    <3>1. SameClaim(job[v], job[u])
        BY <2>3, <2>4, <2>8 DEF SameClaim
    <3> QED BY <3>1 DEF StatusInv, DeallocInv
  <2> QED BY <2>6, <2>7, <2>8 DEF StatusInv, DeallocInv
<1>2. ASSUME NEW c \in Claims, SyncClaim(w, c) PROVE StatusInv'
  <2> DEFINE n == claim[c].node
             pc == IF n = None THEN "unfinalize" ELSE "dealloc"
             j == [Idle EXCEPT !.pc = pc, !.claim = c, !.sel = n]
  <2>1. Become(w, j)
      BY <1>2 DEF SyncClaim, SelectedNode
  <2>2. j.cas = {} /\ j.claim = c /\ j.sel = n /\ j.pc = pc
      BY DEF Idle
  <2> HIDE DEF j
  <2>3. job'[w] = j /\ \A v \in Workers \ {w} : job'[v] = job[v]
      BY <2>1, BecomeJob
  <2>4. \A d \in Claims, v \in Workers \ {w} : v \in claimFresh'[d] => v \in claimFresh[d]
      BY <1>2 DEF SyncClaim, TypeInv, TypeOK
  <2>5. FreshInv'
      BY <1>0, <1>2, <2>2, <2>3, <2>4 DEF SyncClaim, StatusInv, FreshInv
  <2>6. ASSUME NEW v \in Workers PROVE GivenUp(job[v])'
    <3>1. CASE v = w
      <4>1. Dealloc(j) => n # None
          BY <2>2 DEF Dealloc, UpdatePCs
      <4> QED BY <1>2, <2>2, <2>3, <3>1, <4>1, NoneAssumption DEF SyncClaim, GivenUp
    <3>2. CASE v # w
        BY <1>2, <2>3, <3>2 DEF SyncClaim, StatusInv, DeallocInv, GivenUp
    <3> QED BY <3>1, <3>2
  <2>7. ASSUME NEW v \in Workers, NEW u \in Workers, SameClaim(job'[v], job'[u]) PROVE v = u
    <3>1. CASE v # w /\ u # w
      <4>1. SameClaim(job[v], job[u])
          BY <2>3, <2>7, <3>1
      <4> QED BY <4>1 DEF StatusInv, DeallocInv
    <3>2. CASE v = w \/ u = w
        BY <1>2, <2>2, <2>3, <2>7, <3>2 DEF SyncClaim, SameClaim
    <3> QED BY <3>1, <3>2
  <2> QED BY <2>5, <2>6, <2>7 DEF StatusInv, DeallocInv
<1> QED BY <1>1, <1>2 DEF Starts

\* The framework's writes of a claim.
LEMMA WritesStatus ==
    ASSUME TypeInv, StatusInv, NEW w \in Workers,
           \/ \E c \in Claims : AddFinalizer(w, c) \/ SetClaimStatus(w, c)
           \/ ClearStatus(w) \/ RemoveFinalizer(w)
    PROVE  StatusInv'
<1>0. job \in [Workers -> JobType] /\ job[w] \in JobType /\ Shape(job[w])
    BY DEF TypeInv, TypeOK, ShapeOK
<1>a. job[w].pc \in PodPCs => job[w].pod # None
    BY <1>0, NoneAssumption DEF Shape
<1>b. claim \in [Claims -> ClaimType] /\ claimFresh \in [Claims -> SUBSET Workers]
    BY DEF TypeInv, TypeOK
<1>1. ASSUME NEW c \in Claims, AddFinalizer(w, c) PROVE StatusInv'
  <2>1. /\ job[w].pod # None /\ job'[w].pod = job[w].pod /\ job'[w].claim = job[w].claim
        /\ job'[w].cas = job[w].cas /\ \A v \in Workers \ {w} : job'[v] = job[v]
      BY <1>0, <1>a, <1>1 DEF AddFinalizer, Become, JobType, PodPCs
  <2>2. CASE UNCHANGED <<claim, claimFresh>>
      BY <2>1, <2>2, SteadyStatus DEF Steady
  <2>3. CASE w \in claimFresh[c] /\ WriteClaim(w, c, [claim[c] EXCEPT !.finalizer = TRUE])
    <3> DEFINE r == [claim[c] EXCEPT !.finalizer = TRUE]
    <3>1. r.phase = claim[c].phase /\ r.node = claim[c].node
        BY <1>b DEF ClaimType
    <3>4. r.finalizer
        BY <1>b DEF ClaimType
    <3> HIDE DEF r
    <3>2. /\ claim'[c] = r /\ claimFresh'[c] = {w}
          /\ \A d \in Claims \ {c} : claim'[d] = claim[d] /\ claimFresh'[d] = claimFresh[d]
        BY <1>b, <2>3 DEF WriteClaim, r
    <3>3. ~Dealloc(job'[w])
        BY <2>1 DEF Dealloc
    <3> QED BY <2>1, <2>3, <3>1, <3>2, <3>3, <3>4, WriteStatus
  <2> QED BY <1>1, <2>2, <2>3 DEF AddFinalizer
<1>2. ASSUME NEW c \in Claims, SetClaimStatus(w, c) PROVE StatusInv'
  <2>1. /\ job[w].pod # None /\ job'[w].pod = job[w].pod /\ job'[w].claim = job[w].claim
        /\ job'[w].cas = job[w].cas \ {c} /\ \A v \in Workers \ {w} : job'[v] = job[v]
      BY <1>0, <1>a, <1>2 DEF SetClaimStatus, Become, JobType, PodPCs
  <2>2. /\ claimFresh'[c] = {w}
        /\ \A d \in Claims \ {c} : claim'[d] = claim[d] /\ claimFresh'[d] = claimFresh[d]
      BY <1>b, <1>2 DEF SetClaimStatus, WriteClaim
  <2>3. w \in claimFresh[c] /\ claim[c].node = None
      BY <1>2 DEF SetClaimStatus, IsNext, StatusInv, FreshInv
  <2>4. \A v \in Workers \ {w} : ~(Dealloc(job[v]) /\ job[v].claim = c)
      BY <2>3 DEF StatusInv, DeallocInv, GivenUp
  <2>5. ~Dealloc(job'[w])
      BY <2>1 DEF Dealloc
  <2> QED BY <2>1, <2>2, <2>3, <2>4, <2>5, WriteStatus
<1>3. ASSUME ClearStatus(w) PROVE StatusInv'
  <2> DEFINE c == job[w].claim
             r == [claim[c] EXCEPT !.node = None, !.phase = IF @ = "deallocate" THEN "live" ELSE @]
  <2>0. c \in Claims /\ job[w].pod = None /\ c # None
      BY <1>0, <1>3, NoneAssumption DEF ClearStatus, Shape, ClaimPCs
  <2>1. /\ job'[w].pod = job[w].pod /\ job'[w].claim = c /\ job'[w].pc = "unfinalize"
        /\ job'[w].cas = job[w].cas /\ \A v \in Workers \ {w} : job'[v] = job[v]
      BY <1>0, <1>3 DEF ClearStatus, Become, JobType
  <2>2. r.node = None
      BY <1>b, <2>0 DEF ClaimType
  <2>6. WriteClaim(w, c, r) /\ w \in claimFresh[c]
      BY <1>3 DEF ClearStatus
  <2> HIDE DEF r, c
  <2>3. /\ claim'[c].node = None /\ claimFresh'[c] = {w}
        /\ \A d \in Claims \ {c} : claim'[d] = claim[d] /\ claimFresh'[d] = claimFresh[d]
      BY <1>b, <2>0, <2>2, <2>6 DEF WriteClaim
  <2>4. \A v \in Workers \ {w} : ~(Dealloc(job[v]) /\ job[v].claim = c)
      BY <2>0 DEF StatusInv, DeallocInv, Dealloc, SameClaim, c
  <2>5. ~Dealloc(job'[w])
      BY <2>1 DEF Dealloc, UpdatePCs
  <2>7. job'[w].claim = job[w].claim
      BY <2>1 DEF c
  <2> QED BY <2>0, <2>1, <2>3, <2>4, <2>5, <2>6, <2>7, WriteStatus
<1>4. ASSUME RemoveFinalizer(w) PROVE StatusInv'
  <2> DEFINE c == job[w].claim
  <2>0. c \in Claims /\ job[w].pod = None /\ c # None
      BY <1>0, <1>4, NoneAssumption DEF RemoveFinalizer, Shape, ClaimPCs
  <2>1. /\ job'[w] = Idle /\ \A v \in Workers \ {w} : job'[v] = job[v]
      BY <1>4, BecomeJob DEF RemoveFinalizer
  <2>2. Idle.cas = {} /\ ~Dealloc(Idle) /\ Idle.claim = None
      BY DEF Idle, Dealloc, UpdatePCs
  <2>3. /\ claimFresh'[c] = {} /\ w \in claimFresh[c]
        /\ \A d \in Claims \ {c} : claim'[d] = claim[d] /\ claimFresh'[d] = claimFresh[d]
      BY <1>b, <1>4, <2>0 DEF RemoveFinalizer
  <2> HIDE DEF c
  <2>4. \A v \in Workers \ {w} : ~(Dealloc(job[v]) /\ job[v].claim = c)
      BY <2>0 DEF StatusInv, DeallocInv, Dealloc, SameClaim, c
  <2> QED BY <2>0, <2>1, <2>2, <2>3, <2>4, WriteStatus
<1> QED BY <1>1, <1>2, <1>3, <1>4

LEMMA InitStatus == Init => StatusInv
<1> SUFFICES ASSUME Init PROVE StatusInv
    OBVIOUS
<1>1. Idle.cas = {} /\ ~Dealloc(Idle) /\ Idle.claim = None
    BY DEF Idle, Dealloc, UpdatePCs
<1>2. \A w \in Workers : job[w] = Idle
    BY DEF Init, ControllerInit
<1> QED BY <1>1, <1>2 DEF StatusInv, FreshInv, DeallocInv, GivenUp, SameClaim

LEMMA RestartStatus == Restart => StatusInv'
<1> SUFFICES ASSUME Restart PROVE StatusInv'
    OBVIOUS
<1>1. Idle.cas = {} /\ ~Dealloc(Idle) /\ Idle.claim = None
    BY DEF Idle, Dealloc, UpdatePCs
<1>2. \A w \in Workers : job'[w] = Idle
    BY DEF Restart
<1> QED BY <1>1, <1>2 DEF StatusInv, FreshInv, DeallocInv, GivenUp, SameClaim

LEMMA EnvironmentStatus ==
    ASSUME TypeInv, StatusInv, Environment
    PROVE  StatusInv'
<1>0. \A v \in Workers : job[v].cas \subseteq Claims /\ job[v].claim \in Claims \cup {None}
    BY DEF TypeInv, TypeOK, JobType
<1>b. claim \in [Claims -> ClaimType] /\ claimFresh \in [Claims -> SUBSET Workers]
    BY DEF TypeInv, TypeOK
<1>1. ASSUME NEW c \in Claims, DeleteClaim(c) \/ RequestDeallocate(c) PROVE StatusInv'
  <2>1. /\ claimFresh'[c] = {} /\ UNCHANGED job
        /\ \A d \in Claims \ {c} : claim'[d] = claim[d] /\ claimFresh'[d] = claimFresh[d]
      BY <1>b, <1>1 DEF DeleteClaim, RequestDeallocate
  <2>2. claim'[c].node = claim[c].node
      BY <1>b, <1>1 DEF DeleteClaim, RequestDeallocate, ClaimType
  <2>3. FreshInv'
      BY <1>0, <2>1 DEF StatusInv, FreshInv
  <2>4. ASSUME NEW v \in Workers PROVE GivenUp(job[v])'
    <3>1. CASE job[v].claim # c
        BY <1>0, <2>1, <3>1 DEF StatusInv, DeallocInv, GivenUp
    <3>2. CASE job[v].claim = c /\ Dealloc(job[v])
      <4>1. claim[c].phase \in {"deallocate", "delete"} /\ claim[c].finalizer
          BY <3>2 DEF StatusInv, DeallocInv, GivenUp
      <4>2. DeleteClaim(c)
          BY <1>1, <4>1 DEF RequestDeallocate
      <4>3. claim'[c].phase = "delete"
          BY <1>b, <4>1, <4>2 DEF DeleteClaim, ClaimType
      <4>4. claim'[c].finalizer
          BY <1>b, <4>1, <4>2 DEF DeleteClaim, ClaimType
      <4> QED BY <2>1, <2>2, <3>2, <4>3, <4>4 DEF StatusInv, DeallocInv, GivenUp
    <3> QED BY <2>1, <3>1, <3>2 DEF GivenUp
  <2> QED BY <2>1, <2>3, <2>4 DEF StatusInv, DeallocInv
<1>2. ASSUME NEW n \in Nodes, SetStatus(n) PROVE StatusInv'
    BY <1>2 DEF SetStatus, StatusInv, FreshInv, DeallocInv, GivenUp
<1>3. ASSUME Crash PROVE StatusInv'
    BY <1>3, RestartStatus DEF Crash
<1> QED BY <1>1, <1>2, <1>3 DEF Environment

\* A step of a worker changes neither the claims nor what it is about, or starts,
\* ends or writes.
LEMMA ContinuesStatus ==
    ASSUME TypeInv, StatusInv, NEW w \in Workers, Continues(w)
    PROVE  StatusInv'
<1>1. CASE Steady(w)
    BY <1>1, SteadyStatus
<1>2. CASE SyncPodDone(w)
    BY <1>2, IdleStatus DEF SyncPodDone, Return
<1>3. CASE DeallocateFails(w)
    BY <1>3, IdleStatus DEF DeallocateFails, Return
<1>4. CASE ClaimWriteFails(w)
    BY <1>4, IdleStatus DEF ClaimWriteFails, Return
<1>5. CASE Panics(w)
    BY <1>5, RestartStatus DEF Panics, Panic
<1>6. CASE \/ \E c \in Claims : AddFinalizer(w, c) \/ SetClaimStatus(w, c)
           \/ ClearStatus(w) \/ RemoveFinalizer(w)
    BY <1>6, WritesStatus
<1> QED BY <1>1, <1>2, <1>3, <1>4, <1>5, <1>6, PodStepsSteady, ClaimStepsSteady
        DEF Continues, UnsuitableStep, AllocateStep, ClaimStep, Panics

LEMMA NextStatus == TypeInv /\ StatusInv /\ [Next]_vars => StatusInv'
<1> SUFFICES ASSUME TypeInv, StatusInv, [Next]_vars PROVE StatusInv'
    OBVIOUS
<1>1. CASE UNCHANGED vars
    BY <1>1 DEF vars, StatusInv, FreshInv, DeallocInv, GivenUp
<1> QED BY <1>1, StartsStatus, ContinuesStatus, EnvironmentStatus DEF Next

\* While a worker deallocates a claim nobody can want it again, and nobody else
\* deallocates it.
THEOREM StatusInvariant == Spec => []StatusInv
<1> QED BY InitStatus, NextStatus, TypeInvariant, PTL DEF Spec

----------------------------------------------------------------------------
(***************************************************************************)
(* Every write of a spec.                                                  *)
(***************************************************************************)

\* Worker w stores its copy.
Stores(w) ==
    /\ job[w].pc = "updatePut"
    /\ nas'[job[w].node].spec = job[w].crd
    /\ \A n \in Nodes \ {job[w].node} : nas'[n].spec = nas[n].spec

\* Only Client.Update changes a spec.
LEMMA SpecChanges ==
    ASSUME TypeInv, [Next]_vars
    PROVE  (\A n \in Nodes : nas'[n].spec = nas[n].spec) \/ \E w \in Workers : Stores(w)
<1>1. ASSUME NEW w \in Workers, Starts(w) \/ Continues(w)
      PROVE  UNCHANGED nas \/ Stores(w)
  <2>1. ASSUME UpdateStep(w) PROVE UNCHANGED nas \/ Stores(w)
    <3>1. ASSUME job[w].pc = "updatePut", nas' = [nas EXCEPT ![job[w].node].spec = job[w].crd]
          PROVE  Stores(w)
      <4>1. job[w].node \in Nodes
          BY <3>1 DEF TypeInv, ShapeOK, Shape, AtNode, UpdatePCs
      <4> QED BY <3>1, <4>1 DEF Stores, TypeInv, TypeOK
    <3> QED BY <2>1, <3>1
            DEF UpdateStep, UpdateGet, UpdateGetFails, UpdatePut, UpdateConflict, UpdateError
  <2>2. ASSUME StepsAway(w) PROVE UNCHANGED nas
      BY <2>2, StepsAwayAre DEF Away
  <2>3. ASSUME StepsAt(w), ~UpdateStep(w) PROVE UNCHANGED nas
      BY <2>3, PlanStepsPCs
         DEF StepsAt, PlanSteps, AllocateGet, AllocatePending, AllocateTake, DeallocateGet,
             DeallocateLatest, DeallocateRelease
  <2>4. ASSUME Panics(w) PROVE UNCHANGED nas
      BY <2>4 DEF Panics, Panic, Restart
  <2> QED BY <1>1, <2>1, <2>2, <2>3, <2>4, StepKinds
<1>2. ASSUME Environment PROVE \A n \in Nodes : nas'[n].spec = nas[n].spec
    BY <1>2 DEF Environment, DeleteClaim, RequestDeallocate, SetStatus, Crash, Restart,
                TypeInv, TypeOK
<1> QED BY <1>1, <1>2 DEF Next, vars

\* A claim stays recorded as it is but for the worker that deallocates it.
LEMMA EntryKept ==
    ASSUME TypeInv, CopyInv, [Next]_vars, NEW n \in Nodes, NEW c \in Claims,
           c \in nas[n].spec.claims
    PROVE  \/ c \in nas'[n].spec.claims /\ nas'[n].spec.cpus[c] = nas[n].spec.cpus[c]
           \/ /\ c \notin nas'[n].spec.claims
              /\ \E w \in Workers : Stores(w) /\ Dealloc(job[w]) /\ job[w].claim = c
<1> DEFINE s == nas[n].spec
<1>1. s.cpus \in [Claims -> SUBSET Cpus]
    BY DEF TypeInv, TypeOK, SpecType
<1>2. CASE nas'[n].spec = s
    BY <1>2
<1>3. ASSUME NEW w \in Workers, Stores(w), n = job[w].node
      PROVE  \/ c \in nas'[n].spec.claims /\ nas'[n].spec.cpus[c] = nas[n].spec.cpus[c]
             \/ /\ c \notin nas'[n].spec.claims
                /\ Dealloc(job[w]) /\ job[w].claim = c
  <2> DEFINE d == job[w].claim
             S == job[w].crd.cpus[d]
  <2>1. nas'[n].spec = job[w].crd /\ job[w].pc \in ToStore /\ job[w].pc \in AtNode
      BY <1>3 DEF Stores, ToStore, AtNode, UpdatePCs
  <2>2. job[w].crd = s \/ Changed(job[w], s)
      BY <1>3, <2>1 DEF CopyInv, Copy
  <2>3. job[w].pod = None => Dealloc(job[w])
      BY <2>1 DEF Dealloc, ToStore, UpdatePCs
  <2> HIDE DEF s, S, d
  <2>4. CASE job[w].crd = s
      BY <2>1, <2>4 DEF s
  <2>5. CASE d \notin s.claims /\ job[w].crd = AddClaim(s, d, S)
      BY <1>1, <2>1, <2>5 DEF s, AddClaim
  <2>6. CASE job[w].pod = None /\ job[w].crd = RemoveClaim(s, d)
    <3>1. /\ job[w].crd.claims = s.claims \ {d}
          /\ c # d => job[w].crd.cpus[c] = s.cpus[c]
        BY <1>1, <2>6 DEF RemoveClaim
    <3> QED BY <2>1, <2>3, <2>6, <3>1 DEF s, d
  <2> QED BY <2>2, <2>4, <2>5, <2>6 DEF Changed, d, S
<1> QED BY <1>2, <1>3, SpecChanges DEF Stores

\* The CPUs of a claim that is recorded and still wanted stay recorded as they
\* are, whatever workers, retries and crashes write.
THEOREM AllocationsKept == Spec => AllocationKept
<1>1. ASSUME TypeInv, CopyInv, StatusInv, [Next]_vars, NEW n \in Nodes, NEW c \in Claims,
             c \in nas[n].spec.claims
      PROVE  \/ c \in nas'[n].spec.claims /\ nas'[n].spec.cpus[c] = nas[n].spec.cpus[c]
             \/ c \notin nas'[n].spec.claims /\ claim[c].phase # "live"
    BY <1>1, EntryKept DEF StatusInv, DeallocInv, GivenUp
<1>2. TypeInv /\ CopyInv /\ StatusInv /\ [Next]_vars
         => [\A n \in Nodes, c \in Claims :
               c \in nas[n].spec.claims =>
                  \/ c \in nas'[n].spec.claims /\ nas'[n].spec.cpus[c] = nas[n].spec.cpus[c]
                  \/ c \notin nas'[n].spec.claims /\ claim[c].phase # "live"]_vars
    BY <1>1
<1> QED BY <1>2, TypeInvariant, CopyInvariant, StatusInvariant, PTL DEF Spec, AllocationKept

----------------------------------------------------------------------------
(***************************************************************************)
(* The CPUs that a worker counts as free.                                  *)
(***************************************************************************)

\* Every claim has as many CPUs as it asked for, or none.
Sized(cpus) == \A c \in Claims : cpus[c] = {} \/ Cardinality(cpus[c]) = Request[c].count

\* The pending claims that a worker has merged into its copy, or dropped.
Passed(j) ==
    {c \in Claims : \/ j.pc = "visit" /\ c \in j.visited
                    \/ j.pc = "remove" /\ c \in j.visited \ {j.claim}
                    \/ j.pc = "place" /\ j.todo # {}}

\* The copy in which UnsuitableNodes looks for CPUs has all that the NAS records,
\* and what is pending as far as it was visited.
Seen(j) ==
    /\ nas[j.node].spec.claims \subseteq j.crd.claims
    /\ \A c \in Claims : nas[j.node].spec.cpus[c] \subseteq j.crd.cpus[c]
    /\ \A c \in Passed(j) : pending[c][j.node] \subseteq j.crd.cpus[c]

\* Where a worker's copy or plan may still become an allocation or a promise.
BudgetPCs == Planning \cup {"exists", "take", "release"} \cup ToStore

\* The claims on CPU x of the worker's node, if it stored its copy and promised
\* what it planned.
Budget(j, x) == Reserved(j.node, x) \cup On(j.crd.cpus, x) \cup On(j.plan, x)

\* The part of a worker.
Fit(j) ==
    /\ j.pc # "place" => j.plan = NoCpus
    /\ j.pc \notin {"visit", "remove"} => j.visited = {}
    /\ j.pc \in Planning => Consistent(j.crd) /\ Seen(j)
    /\ Sized(j.plan) /\ Sized(j.crd.cpus)
    /\ j.pc \in BudgetPCs => \A x \in Cpus : Load[Budget(j, x)] < Threshold

BudgetInv ==
    /\ NoOvercommit
    /\ \A n \in Nodes : Sized(nas[n].spec.cpus) /\ Sized([c \in Claims |-> pending[c][n]])
    /\ \A w \in Workers : Fit(job[w])

\* Each set of claims in question is one.
LEMMA BudgetType ==
    ASSUME NEW j, NEW x
    PROVE  /\ Budget(j, x) \in SUBSET Claims
           /\ \A n : Reserved(n, x) \in SUBSET Claims
BY DEF Budget, Reserved, On

\* Away from the nodes a worker has no plan, and no copy but an old one.
LEMMA AwayFields ==
    ASSUME TypeInv, NEW w \in Workers, StepsAway(w), Fit(job[w])
    PROVE  /\ job'[w].plan = NoCpus /\ job'[w].visited = {}
           /\ job'[w].crd \in {job[w].crd, EmptySpec}
<1>0. job \in [Workers -> JobType] /\ job[w] \in JobType /\ Shape(job[w])
    BY DEF TypeInv, TypeOK, ShapeOK
<1> DEFINE Done == /\ job'[w].plan = NoCpus /\ job'[w].visited = {}
                   /\ job'[w].crd \in {job[w].crd, EmptySpec}
<1>a. ASSUME NEW j, Become(w, j), j.plan = job[w].plan, j.visited = job[w].visited,
             j.crd \in {job[w].crd, EmptySpec},
             job[w].pc \notin {"visit", "remove"}, job[w].pc # "place" \/ job[w].plan = NoCpus
      PROVE  Done
    BY <1>a, BecomeJob DEF Fit
<1>b. ASSUME Become(w, Idle) PROVE Done
    BY <1>b, BecomeJob DEF Idle
<1>1. ASSUME Starts(w) PROVE Done
  <2>1. ASSUME NEW p \in Pods, SyncPod(w, p) PROVE Done
    <3> DEFINE cas == {c \in ClaimsOf(p) : claim[c].node = None}
               first(nodes, sel) ==
                  [Idle EXCEPT !.pc = "unsuitable", !.pod = p, !.sel = sel, !.nodes = nodes,
                               !.cas = cas, !.finalized = {c \in cas : claim[c].finalizer}]
    <3>1. PICK nodes, sel : Become(w, first(nodes, sel))
        BY <2>1 DEF SyncPod
    <3>2. /\ first(nodes, sel).plan = NoCpus /\ first(nodes, sel).visited = {}
          /\ first(nodes, sel).crd = EmptySpec
        BY DEF Idle
    <3> HIDE DEF first
    <3> QED BY <3>1, <3>2, BecomeJob
  <2>2. ASSUME NEW c \in Claims, SyncClaim(w, c) PROVE Done
    <3> DEFINE j == [Idle EXCEPT !.pc = IF SelectedNode(c) = None THEN "unfinalize" ELSE "dealloc",
                                 !.claim = c, !.sel = SelectedNode(c)]
    <3>1. Become(w, j)
        BY <2>2 DEF SyncClaim
    <3>2. j.plan = NoCpus /\ j.visited = {} /\ j.crd = EmptySpec
        BY DEF Idle
    <3> HIDE DEF j
    <3> QED BY <3>1, <3>2, BecomeJob
  <2> QED BY <1>1, <2>1, <2>2 DEF Starts
<1>2. ASSUME NEW n \in Nodes, UnsuitableNotReady(w, n) PROVE Done
    BY <1>0, <1>a, <1>2 DEF UnsuitableNotReady, JobType
<1>3. ASSUME NEW c \in Claims, PlaceFails(w, c) PROVE Done
  <2> DEFINE j == [job[w] EXCEPT !.pc = "unsuitable", !.node = None, !.todo = {},
                                 !.crd = EmptySpec, !.plan = NoCpus,
                                 !.unsuitable = @ \cup ({job[w].node} \cap {job[w].sel})]
  <2>1. Become(w, j) /\ job[w].pc = "place"
      BY <1>3 DEF PlaceFails
  <2>2. j.plan = NoCpus /\ j.visited = job[w].visited /\ j.crd = EmptySpec
      BY <1>0 DEF JobType
  <2> HIDE DEF j
  <2> QED BY <2>1, <2>2, BecomeJob DEF Fit
<1>4. ASSUME UnsuitableDone(w) PROVE Done
    BY <1>0, <1>a, <1>4 DEF UnsuitableDone, JobType
<1>5. ASSUME StartAllocate(w) \/ FinalizersAdded(w) PROVE Done
    BY <1>0, <1>a, <1>5 DEF StartAllocate, FinalizersAdded, JobType
<1>6. ASSUME SyncPodDone(w) \/ DeallocateFails(w) \/ ClaimWriteFails(w) \/ RemoveFinalizer(w)
      PROVE  Done
    BY <1>b, <1>6 DEF SyncPodDone, DeallocateFails, ClaimWriteFails, RemoveFinalizer, Return
<1>7. ASSUME NEW c \in Claims, AddFinalizer(w, c) \/ AddFinalizerFails(w, c) PROVE Done
  <2>1. CASE Become(w, [job[w] EXCEPT !.todo = @ \ {c}])
      BY <1>0, <1>a, <1>7, <2>1 DEF AddFinalizer, AddFinalizerFails, JobType
  <2>2. CASE Become(w, [job[w] EXCEPT !.todo = @ \ {c}, !.cas = @ \ {c}])
      BY <1>0, <1>a, <1>7, <2>2 DEF AddFinalizer, AddFinalizerFails, JobType
  <2> QED BY <1>7, <2>1, <2>2 DEF AddFinalizer, AddFinalizerFails
<1>8. ASSUME NEW c \in Claims, AllocateExists(w, c) \/ AllocateNotReady(w, c) PROVE Done
  <2>1. CASE Become(w, [job[w] EXCEPT !.todo = @ \ {c}])
      BY <1>0, <1>a, <1>8, <2>1 DEF AllocateExists, AllocateNotReady, JobType
  <2>2. CASE Become(w, [job[w] EXCEPT !.todo = @ \ {c}, !.cas = @ \ {c}])
      BY <1>0, <1>a, <1>8, <2>2 DEF AllocateExists, AllocateNotReady, JobType
  <2> QED BY <1>8, <2>1, <2>2 DEF AllocateExists, AllocateNotReady
<1>9. ASSUME NEW c \in Claims, SetClaimStatus(w, c) \/ SetClaimStatusFails(w, c) PROVE Done
    BY <1>0, <1>a, <1>9 DEF SetClaimStatus, SetClaimStatusFails, JobType
<1>10. ASSUME DropClaim(w), job[w].pc \in {"exists", "updateFailed"} PROVE Done
    BY <1>0, <1>a, <1>10 DEF DropClaim, JobType
<1>11. ASSUME AllocateNotPending(w) \/ AllocateFails(w) PROVE Done
    BY <1>10, <1>11 DEF AllocateNotPending, AllocateFails
<1>12. ASSUME AllocateSuccess(w) PROVE Done
    BY <1>0, <1>a, <1>12 DEF AllocateSuccess, JobType
<1>13. ASSUME DeallocateDone(w) PROVE Done
    BY <1>0, <1>a, <1>13 DEF DeallocateDone, JobType
<1>14. ASSUME ClearStatus(w) PROVE Done
    BY <1>0, <1>a, <1>14 DEF ClearStatus, JobType
<1>15. ASSUME DeallocateGet(w), job[w].claim \notin nas[job[w].sel].spec.claims PROVE Done
    BY <1>0, <1>a, <1>15 DEF DeallocateGet, JobType
<1> QED BY <1>1, <1>2, <1>3, <1>4, <1>5, <1>6, <1>7, <1>8, <1>9, <1>11, <1>12, <1>13, <1>14,
           <1>15 DEF StepsAway

\* Without a NAS at hand there is little to show.
LEMMA AwayFit ==
    ASSUME TypeInv, NEW w \in Workers, StepsAway(w), Fit(job[w])
    PROVE  Fit(job[w])'
<1>1. job'[w].pc \notin AtNode
    BY StepsAwayAre DEF Away
<1>2. Sized(NoCpus) /\ Sized(EmptySpec.cpus)
    BY DEF Sized, NoCpus, EmptySpec
<1>3. job'[w].pc \notin BudgetPCs \cup Planning \cup {"place", "visit", "remove"}
    BY <1>1 DEF BudgetPCs, Planning, ToStore, AtNode, UpdatePCs
<1> QED BY <1>2, <1>3, AwayFields DEF Fit

\* What a worker's step may do to the claims of a CPU: nothing grows but at its
\* own node, and there by what it had budgeted.
Grows(w) ==
    \A n \in Nodes, x \in Cpus :
       \/ Reserved(n, x)' \subseteq Reserved(n, x)
       \/ /\ job[w].pc \in BudgetPCs /\ n = job[w].node
          /\ Reserved(n, x)' \subseteq Budget(job[w], x)

\* Specs stay and pending allocations at most disappear.
LEMMA ShrinkGrows ==
    ASSUME TypeInv, NEW w \in Workers,
           \A n \in Nodes : nas'[n].spec = nas[n].spec,
           \A c \in Claims, n \in Nodes : pending'[c][n] \in {pending[c][n], {}}
    PROVE  Grows(w)
BY DEF Grows, Reserved, On

LEMMA StepGrows ==
    ASSUME TypeInv, LockInv, NEW w \in Workers, Starts(w) \/ Continues(w)
    PROVE  Grows(w)
<1>1. CASE StepsAway(w)
    BY <1>1, StepsAwayAre, ShrinkGrows DEF Away
<1>2. CASE Panics(w)
  <2>1. \A n \in Nodes : nas'[n].spec = nas[n].spec
      BY <1>2 DEF Panics, Panic, Restart
  <2>2. \A c \in Claims, n \in Nodes : pending'[c][n] = {}
      BY <1>2 DEF Panics, Panic, Restart, NotPending
  <2> QED BY <2>1, <2>2, ShrinkGrows
<1>3. ASSUME NEW c \in Claims, PendingSet(w, c) PROVE Grows(w)
  <2>1. job[w].pc \in BudgetPCs /\ UNCHANGED nas
      BY <1>3 DEF PendingSet, BudgetPCs, Planning
  <2>2. /\ \A n \in Nodes \ {job[w].node} : pending'[c][n] = pending[c][n]
        /\ pending'[c][job[w].node] \in {pending[c][job[w].node], job[w].plan[c]}
        /\ \A d \in Claims \ {c} : pending'[d] = pending[d]
      BY <1>3 DEF PendingSet, TypeInv, TypeOK
  <2> QED BY <2>1, <2>2 DEF Grows, Reserved, Budget, On
<1>4. ASSUME Stores(w), UNCHANGED pending PROVE Grows(w)
  <2>1. job[w].pc \in BudgetPCs
      BY <1>4 DEF Stores, BudgetPCs, ToStore
  <2> QED BY <1>4, <2>1 DEF Stores, Grows, Reserved, Budget, On
<1>5. CASE UpdateStep(w)
  <2>1. UNCHANGED pending
      BY <1>5 DEF UpdateStep, UpdateGet, UpdateGetFails, UpdatePut, UpdateConflict, UpdateError
  <2>2. CASE UNCHANGED nas
      BY <2>1, <2>2, ShrinkGrows
  <2>3. CASE job[w].pc = "updatePut" /\ nas' = [nas EXCEPT ![job[w].node].spec = job[w].crd]
    <3>1. job[w].node \in Nodes
        BY <2>3 DEF TypeInv, ShapeOK, Shape, AtNode, UpdatePCs
    <3>2. Stores(w)
        BY <2>3, <3>1 DEF Stores, TypeInv, TypeOK
    <3> QED BY <1>4, <2>1, <3>2
  <2> QED BY <1>5, <2>2, <2>3
          DEF UpdateStep, UpdateGet, UpdateGetFails, UpdatePut, UpdateConflict, UpdateError
<1>6. ASSUME UNCHANGED nas,
             \/ UNCHANGED pending
             \/ \E c : pending' = [pending EXCEPT ![c] = NotPending]
      PROVE Grows(w)
  <2>1. \A c \in Claims, n \in Nodes : pending'[c][n] \in {pending[c][n], {}}
      BY <1>6 DEF NotPending, TypeInv, TypeOK
  <2> QED BY <1>6, <2>1, ShrinkGrows
<1>7. CASE StepsAt(w) /\ ~UpdateStep(w) /\ ~(\E c \in Claims : PendingSet(w, c))
    BY <1>6, <1>7
       DEF StepsAt, UnsuitableGet, VisitPending, PlaceClaim, VisitRemove, VisitDone, AllocateGet,
           AllocatePending, AllocateTake, DeallocateGet, DeallocateLatest, DeallocateRelease
<1> QED BY <1>1, <1>2, <1>3, <1>5, <1>7, StepKinds

\* No CPU is overcommitted by a step that grows in this way.
LEMMA GrowsWithin ==
    ASSUME BudgetInv, NEW w \in Workers, Grows(w)
    PROVE  NoOvercommit'
<1> SUFFICES ASSUME NEW n \in Nodes, NEW x \in Cpus
             PROVE  Load[Reserved(n, x)'] < Threshold
    BY DEF NoOvercommit
<1>1. PICK S \in SUBSET Claims : Reserved(n, x)' \subseteq S /\ Load[S] < Threshold
  <2>1. Load[Reserved(n, x)] < Threshold
      BY DEF BudgetInv, NoOvercommit
  <2>2. job[w].pc \in BudgetPCs => Load[Budget(job[w], x)] < Threshold
      BY DEF BudgetInv, Fit
  <2> QED BY <2>1, <2>2, BudgetType DEF Grows
<1>2. Reserved(n, x)' \in SUBSET S /\ Reserved(n, x)' \in SUBSET Claims
    BY <1>1
<1>3. Load[Reserved(n, x)'] <= Load[S]
    BY <1>2, LoadMonotonic
<1>4. Load[Reserved(n, x)'] \in Nat /\ Load[S] \in Nat
    BY <1>2, LoadType
<1> QED BY <1>1, <1>3, <1>4 DEF Threshold

\* A set of claims within one that fits.
LEMMA WithinBudget ==
    ASSUME NEW S \in SUBSET Claims, Load[S] < Threshold, NEW T, T \subseteq S
    PROVE  Load[T] < Threshold
<1>1. T \in SUBSET S /\ T \in SUBSET Claims /\ Load[T] <= Load[S]
    BY LoadMonotonic
<1>2. Load[T] \in Nat /\ Load[S] \in Nat
    BY <1>1, LoadType
<1> QED BY <1>1, <1>2 DEF Threshold

\* What another worker has at its node, or keeps to itself.
LEMMA OthersFit ==
    ASSUME TypeInv, LockInv, BudgetInv, NEW w \in Workers, Turn(w), NEW v \in Workers \ {w}
    PROVE  Fit(job[v])'
<1>1. job'[v] = job[v] /\ Fit(job[v])
    BY DEF Turn, BudgetInv
<1>2. CASE job[v].pc \in AtNode
  <2> DEFINE n == job[v].node
  <2>1. /\ nas'[n].spec = nas[n].spec
        /\ \A c \in Claims : pending'[c][n] \in {pending[c][n], {}}
      BY <1>2, Undisturbed
  <2>2. \A x \in Cpus : Budget(job[v], x)' \subseteq Budget(job[v], x)
      BY <1>1, <2>1 DEF Budget, Reserved, On
  <2>3. Seen(job[v]) => Seen(job[v])'
      BY <1>1, <2>1 DEF Seen, Passed
  <2>4. job[v].pc \in BudgetPCs => \A x \in Cpus : Load[Budget(job[v], x)'] < Threshold
      BY <1>1, <2>2, WithinBudget, BudgetType DEF Fit
  <2> QED BY <1>1, <2>3, <2>4 DEF Fit
<1>3. CASE job[v].pc \notin AtNode
  <2>1. job[v].pc \notin BudgetPCs \cup Planning
      BY <1>3 DEF BudgetPCs, Planning, ToStore, AtNode, UpdatePCs
  <2> QED BY <1>1, <2>1 DEF Fit
<1> QED BY <1>2, <1>3

\* A worker that reads the NAS of its node.
LEMMA EnterFit ==
    ASSUME TypeInv, LedgerInv, BudgetInv, NEW w \in Workers, NEW n \in Nodes,
           UNCHANGED <<nas, pending>>, job'[w].node = n, job'[w].crd = nas[n].spec,
           job[w].pc # "place", job'[w].plan = job[w].plan,
           job[w].pc \notin {"visit", "remove"}, job'[w].visited = job[w].visited,
           job'[w].pc \in {"visit", "exists", "release"}
    PROVE  Fit(job[w])'
<1>1. job'[w].plan = NoCpus /\ job'[w].visited = {}
    BY DEF BudgetInv, Fit
<1>2. Sized(NoCpus) /\ Sized(nas[n].spec.cpus)
    BY DEF Sized, NoCpus, BudgetInv
<1>3. Consistent(nas[n].spec)
    BY DEF LedgerInv
<1>4. Seen(job[w])'
    BY <1>1 DEF Seen, Passed
<1>5. ASSUME NEW x \in Cpus PROVE Load[Budget(job[w], x)'] < Threshold
  <2>1. Budget(job[w], x)' \subseteq Reserved(n, x)
      BY <1>1 DEF Budget, Reserved, On, NoCpus
  <2>2. Load[Reserved(n, x)] < Threshold
      BY DEF BudgetInv, NoOvercommit
  <2> QED BY <2>1, <2>2, WithinBudget, BudgetType
<1> QED BY <1>1, <1>2, <1>3, <1>4, <1>5 DEF Fit

\* A worker that goes on within its budget.
LEMMA KeepFit ==
    ASSUME TypeInv, BudgetInv, NEW w \in Workers,
           job'[w].pc # "place" => job'[w].plan = NoCpus,
           job'[w].pc \notin {"visit", "remove"} => job'[w].visited = {},
           job'[w].pc \in Planning => Consistent(job'[w].crd) /\ Seen(job[w])',
           Sized(job'[w].plan), Sized(job'[w].crd.cpus),
           job'[w].pc \in BudgetPCs =>
              /\ job[w].pc \in BudgetPCs
              /\ \A x \in Cpus : Budget(job[w], x)' \subseteq Budget(job[w], x)
    PROVE  Fit(job[w])'
<1>1. job'[w].pc \in BudgetPCs => \A x \in Cpus : Load[Budget(job[w], x)'] < Threshold
    BY WithinBudget, BudgetType DEF BudgetInv, Fit
<1> QED BY <1>1 DEF Fit

\* A copy with one more claim, or one less.
LEMMA SizedCopy ==
    ASSUME NEW s \in SpecType, NEW c \in Claims, NEW S, Sized(s.cpus),
           S = {} \/ Cardinality(S) = Request[c].count
    PROVE  /\ Sized(AddClaim(s, c, S).cpus) /\ Sized(RemoveClaim(s, c).cpus)
           /\ \A d \in Claims \ {c} : AddClaim(s, c, S).cpus[d] = s.cpus[d]
           /\ AddClaim(s, c, S).cpus[c] = S
           /\ \A d \in Claims : RemoveClaim(s, c).cpus[d] \subseteq s.cpus[d]
<1>1. s.cpus \in [Claims -> SUBSET Cpus]
    BY DEF SpecType
<1> QED BY <1>1 DEF Sized, AddClaim, RemoveClaim

\* The visit of a pending claim.
LEMMA VisitFit ==
    ASSUME TypeInv, BudgetInv, LedgerInv, NEW w \in Workers, NEW c \in Claims, VisitPending(w, c)
    PROVE  Fit(job[w])'
<1> DEFINE n == job[w].node
           crd == job[w].crd
           S == pending[c][n]
<1>0. job \in [Workers -> JobType] /\ job[w] \in JobType /\ Shape(job[w])
    BY DEF TypeInv, TypeOK, ShapeOK
<1>1. /\ job[w].pc = "visit" /\ c \notin job[w].visited /\ S # {}
      /\ UNCHANGED <<nas, pending>>
    BY DEF VisitPending
<1>2. /\ job'[w].visited = job[w].visited \cup {c} /\ job'[w].node = n
      /\ job'[w].plan = job[w].plan
      /\ job'[w].pc = IF c \in crd.claims THEN "remove" ELSE "visit"
      /\ c \in crd.claims => job'[w].claim = c
      /\ job'[w].crd = IF c \in crd.claims THEN crd ELSE AddClaim(crd, c, S)
    BY <1>0 DEF VisitPending, Become, JobType
<1>3. /\ crd \in SpecType /\ n \in Nodes /\ Fit(job[w])
      /\ S \in SUBSET Cpus /\ (S = {} \/ Cardinality(S) = Request[c].count)
  <2>1. n \in Nodes
      BY <1>0, <1>1 DEF Shape, AtNode
  <2>2. Sized([d \in Claims |-> pending[d][n]])
      BY <2>1 DEF BudgetInv
  <2> QED BY <1>0, <2>1, <2>2 DEF TypeInv, TypeOK, JobType, BudgetInv, Sized
<1>4. Consistent(crd) /\ Seen(job[w]) /\ Sized(crd.cpus) /\ job[w].plan = NoCpus
    BY <1>1, <1>3 DEF Fit, Planning
<1>5. Sized(job'[w].plan)
    BY <1>2, <1>3 DEF Fit
<1>6. job[w].pc \in BudgetPCs
    BY <1>1 DEF BudgetPCs, Planning
<1>7. CASE c \in crd.claims
  <2>1. Seen(job[w])'
      BY <1>1, <1>2, <1>4, <1>7 DEF Seen, Passed
  <2>2. \A x \in Cpus : Budget(job[w], x)' \subseteq Budget(job[w], x)
      BY <1>1, <1>2, <1>7 DEF Budget, Reserved, On
  <2> HIDE DEF crd, S, n
  <2> QED BY <1>2, <1>4, <1>5, <1>6, <1>7, <2>1, <2>2, KeepFit
<1>8. CASE c \notin crd.claims
  <2> DEFINE t == AddClaim(crd, c, S)
  <2>1. /\ Consistent(t) /\ Sized(t.cpus) /\ t.cpus[c] = S
        /\ \A d \in Claims \ {c} : t.cpus[d] = crd.cpus[d]
      BY <1>3, <1>4, <1>8, AddConsistent, SizedCopy
  <2>2. t.claims = crd.claims \cup {c}
      BY DEF AddClaim
  <2>3. job'[w].crd = t /\ job'[w].pc = "visit"
      BY <1>2, <1>8
  <2> HIDE DEF t
  <2>4. nas[n].spec.cpus[c] = {}
      BY <1>3, <1>4, <1>8 DEF Seen, LedgerInv, Consistent
  <2>5. Seen(job[w])'
      BY <1>1, <1>2, <1>4, <2>1, <2>2, <2>3, <2>4 DEF Seen, Passed
  <2>6. \A x \in Cpus : Budget(job[w], x)' \subseteq Budget(job[w], x)
      BY <1>1, <1>2, <2>1, <2>3 DEF Budget, Reserved, On
  <2> QED BY <1>2, <1>4, <1>5, <1>6, <2>1, <2>3, <2>5, <2>6, KeepFit
<1> QED BY <1>7, <1>8

\* The other steps of a visit, and its end.
LEMMA VisitedFit ==
    ASSUME TypeInv, BudgetInv, NEW w \in Workers, VisitRemove(w) \/ VisitDone(w)
    PROVE  Fit(job[w])'
<1>0. job \in [Workers -> JobType] /\ job[w] \in JobType /\ Shape(job[w])
    BY DEF TypeInv, TypeOK, ShapeOK
<1>1. job[w].pc \in {"visit", "remove"} /\ job[w].node \in Nodes
    BY <1>0 DEF VisitRemove, VisitDone, Shape, AtNode
<1>2. /\ Consistent(job[w].crd) /\ Seen(job[w]) /\ job[w].plan = NoCpus
      /\ Sized(job[w].plan) /\ Sized(job[w].crd.cpus)
    BY <1>1 DEF BudgetInv, Fit, Planning
<1>3. job[w].pc \in BudgetPCs
    BY <1>1 DEF BudgetPCs, Planning
<1>4. ASSUME VisitRemove(w) PROVE Fit(job[w])'
  <2>1. /\ job'[w].pc = "visit" /\ job'[w].visited = job[w].visited /\ job'[w].node = job[w].node
        /\ job'[w].plan = job[w].plan /\ job'[w].crd = job[w].crd /\ UNCHANGED nas
        /\ job[w].pc = "remove" /\ job[w].claim \in Claims
      BY <1>0, <1>4 DEF VisitRemove, Become, JobType, Shape
  <2>2. /\ pending'[job[w].claim][job[w].node] = {}
        /\ \A d \in Claims \ {job[w].claim} : pending'[d] = pending[d]
      BY <1>1, <1>4, <2>1 DEF VisitRemove, NotPending, TypeInv, TypeOK
  <2>3. Seen(job[w])'
      BY <1>2, <2>1, <2>2 DEF Seen, Passed
  <2>4. \A x \in Cpus : Budget(job[w], x)' \subseteq Budget(job[w], x)
      BY <2>1, <2>2 DEF Budget, Reserved, On
  <2> QED BY <1>2, <1>3, <2>1, <2>3, <2>4, KeepFit
<1>5. ASSUME VisitDone(w) PROVE Fit(job[w])'
  <2>1. /\ job'[w].pc = "place" /\ job'[w].visited = {} /\ job'[w].node = job[w].node
        /\ job'[w].plan = job[w].plan /\ job'[w].crd = job[w].crd /\ UNCHANGED <<nas, pending>>
        /\ job[w].pc = "visit"
      BY <1>0, <1>5 DEF VisitDone, Become, JobType
  <2>2. \A d \in Claims \ job[w].visited : pending[d][job[w].node] = {}
      BY <1>5 DEF VisitDone
  <2>3. Seen(job[w])'
      BY <1>2, <2>1, <2>2 DEF Seen, Passed
  <2>4. \A x \in Cpus : Budget(job[w], x)' \subseteq Budget(job[w], x)
      BY <2>1 DEF Budget, Reserved, On
  <2> QED BY <1>2, <1>3, <2>1, <2>3, <2>4, KeepFit
<1> QED BY <1>4, <1>5

\* The choice of CPUs: each of them has room for the claim next to all that the
\* NAS records, all that is pending and what was planned before.
LEMMA PlaceFit ==
    ASSUME TypeInv, BudgetInv, NEW w \in Workers, NEW c \in Claims, PlaceClaim(w, c)
    PROVE  Fit(job[w])'
<1> DEFINE n == job[w].node
           crd == job[w].crd
           kept == [job[w] EXCEPT !.todo = @ \ {c}]
           placed(S) == [job[w] EXCEPT !.todo = @ \ {c}, !.plan[c] = S]
<1>0. job \in [Workers -> JobType] /\ job[w] \in JobType /\ Shape(job[w])
    BY DEF TypeInv, TypeOK, ShapeOK
<1>1. job[w].pc = "place" /\ job[w].todo # {} /\ UNCHANGED <<nas, pending>> /\ n \in Nodes
    BY <1>0 DEF PlaceClaim, IsNext, Shape, AtNode
<1>2. /\ Consistent(crd) /\ Seen(job[w]) /\ job[w].visited = {}
      /\ Sized(job[w].plan) /\ Sized(crd.cpus)
    BY <1>1 DEF BudgetInv, Fit, Planning
<1>3. job[w].pc \in BudgetPCs
    BY <1>1 DEF BudgetPCs, Planning
<1>4. ASSUME Become(w, kept) PROVE Fit(job[w])'
  <2>1. /\ job'[w].pc = "place" /\ job'[w].visited = {} /\ job'[w].node = n
        /\ job'[w].plan = job[w].plan /\ job'[w].crd = crd
      BY <1>0, <1>1, <1>2, <1>4 DEF Become, JobType
  <2>2. Seen(job[w])'
      BY <1>1, <1>2, <2>1 DEF Seen, Passed
  <2>3. \A x \in Cpus : Budget(job[w], x)' \subseteq Budget(job[w], x)
      BY <1>1, <2>1 DEF Budget, Reserved, On
  <2> QED BY <1>2, <1>3, <2>1, <2>2, <2>3, KeepFit
<1>5. ASSUME NEW S \in WorstFit(PlannedUtil(job[w]), Util(c), Request[c].count),
             Become(w, placed(S))
      PROVE  Fit(job[w])'
  <2>1. /\ job'[w].pc = "place" /\ job'[w].visited = {} /\ job'[w].node = n
        /\ job'[w].plan = [job[w].plan EXCEPT ![c] = S] /\ job'[w].crd = crd
      BY <1>0, <1>1, <1>2, <1>5 DEF Become, JobType
  <2>2. Seen(job[w])'
      BY <1>1, <1>2, <2>1 DEF Seen, Passed
  <2>3. job[w].plan \in [Claims -> SUBSET Cpus]
      BY <1>0 DEF JobType
  <2>4. /\ S \subseteq Cpus /\ Cardinality(S) = Request[c].count
        /\ \A x \in S : Threshold - PlannedUtil(job[w])[x] - Util(c) > 0
      BY DEF WorstFit, Fitting, PlannedUtil
  <2>5. Sized(job'[w].plan)
      BY <1>2, <2>1, <2>3, <2>4 DEF Sized
  <2>6. ASSUME NEW x \in Cpus PROVE Load[Budget(job[w], x)'] < Threshold
    <3>1. Load[Budget(job[w], x)] < Threshold
        BY <1>3 DEF BudgetInv, Fit
    <3>2. CASE x \notin S
      <4>1. Budget(job[w], x)' \subseteq Budget(job[w], x)
          BY <1>1, <2>1, <2>3, <3>2 DEF Budget, Reserved, On
      <4> QED BY <3>1, <4>1, WithinBudget, BudgetType
    <3>3. CASE x \in S
      <4> DEFINE A == On(crd.cpus, x)
                 B == On(job[w].plan, x)
      <4>1. A \in SUBSET Claims /\ B \in SUBSET Claims /\ {c} \in SUBSET Claims
          BY DEF On
      <4>2. Reserved(n, x) \subseteq A
          BY <1>1, <1>2 DEF Seen, Passed, Reserved, On
      <4>3. Budget(job[w], x)' \subseteq (A \cup B) \cup {c}
          BY <1>1, <2>1, <2>3, <4>2 DEF Budget, Reserved, On
      <4>4. PlannedUtil(job[w])[x] = Load[A] + Load[B]
          BY <1>2 DEF PlannedUtil, Consistent, Conserved
      <4> HIDE DEF A, B
      <4>5. Load[(A \cup B) \cup {c}] < Threshold
        <5>1. Load[A \cup B] <= Load[A] + Load[B]
            BY <4>1, LoadUnion
        <5>2. Load[{c}] = Util(c)
          <6>1. Load[{} \cup {c}] = Load[{}] + Util(c)
              BY LoadAdd
          <6> QED BY <6>1, LoadEmpty, UtilType
        <5>3. A \cup B \in SUBSET Claims
            BY <4>1
        <5>4. Load[(A \cup B) \cup {c}] <= Load[A \cup B] + Load[{c}]
            BY <4>1, <5>3, LoadUnion
        <5>5. (A \cup B) \cup {c} \in SUBSET Claims
            BY <5>3
        <5>6. /\ Load[A] \in Nat /\ Load[B] \in Nat /\ Util(c) \in Nat
              /\ Load[A \cup B] \in Nat /\ Load[(A \cup B) \cup {c}] \in Nat
            BY <4>1, <5>3, <5>5, LoadType, UtilType
        <5>7. Threshold - (Load[A] + Load[B]) - Util(c) > 0
            BY <2>4, <3>3, <4>4
        <5>8. ASSUME NEW a \in Nat, NEW b \in Nat, NEW u \in Nat, NEW ab \in Nat, NEW abc \in Nat,
                     ab <= a + b, abc <= ab + u, 950 - (a + b) - u > 0
              PROVE  abc < 950
            BY <5>8
        <5> QED BY <5>1, <5>2, <5>4, <5>6, <5>7, <5>8 DEF Threshold
      <4>6. (A \cup B) \cup {c} \in SUBSET Claims
          BY <4>1
      <4> QED BY <4>3, <4>5, <4>6, WithinBudget
    <3> QED BY <3>2, <3>3
  <2> QED BY <1>2, <2>1, <2>2, <2>5, <2>6 DEF Fit
<1>6. Become(w, kept) \/ \E S \in WorstFit(PlannedUtil(job[w]), Util(c), Request[c].count) :
                            Become(w, placed(S))
    BY Zenon DEF PlaceClaim
<1> QED BY <1>4, <1>5, <1>6

\* A planned allocation becomes pending.
LEMMA PendingSetFit ==
    ASSUME TypeInv, BudgetInv, NEW w \in Workers, NEW c \in Claims, PendingSet(w, c)
    PROVE  Fit(job[w])'
<1> DEFINE n == job[w].node
<1>0. job \in [Workers -> JobType] /\ job[w] \in JobType /\ Shape(job[w])
    BY DEF TypeInv, TypeOK, ShapeOK
<1>1. job[w].pc = "place" /\ job[w].todo = {} /\ UNCHANGED nas /\ n \in Nodes
    BY <1>0 DEF PendingSet, Shape, AtNode
<1>2. /\ Consistent(job[w].crd) /\ Seen(job[w]) /\ job[w].visited = {}
      /\ Sized(job[w].plan) /\ Sized(job[w].crd.cpus)
    BY <1>1 DEF BudgetInv, Fit, Planning
<1>3. job[w].pc \in BudgetPCs
    BY <1>1 DEF BudgetPCs, Planning
<1>4. job[w].plan \in [Claims -> SUBSET Cpus]
    BY <1>0 DEF JobType
<1>5. /\ job'[w].pc = "place" /\ job'[w].visited = {} /\ job'[w].node = n /\ job'[w].todo = {}
      /\ job'[w].plan = [job[w].plan EXCEPT ![c] = {}] /\ job'[w].crd = job[w].crd
    BY <1>0, <1>1, <1>2 DEF PendingSet, Become, JobType
<1>6. /\ pending'[c][n] = job[w].plan[c]
      /\ \A d \in Claims \ {c} : pending'[d] = pending[d]
    BY <1>1 DEF PendingSet, TypeInv, TypeOK
<1>7. Seen(job[w])'
    BY <1>1, <1>2, <1>5 DEF Seen, Passed
<1>8. \A x \in Cpus : Budget(job[w], x)' \subseteq Budget(job[w], x)
    BY <1>1, <1>4, <1>5, <1>6 DEF Budget, Reserved, On
<1>9. Sized(job'[w].plan)
    BY <1>2, <1>4, <1>5 DEF Sized
<1> QED BY <1>2, <1>3, <1>5, <1>7, <1>8, <1>9, KeepFit

\* Allocate and Deallocate at a node.
LEMMA AllocateFit ==
    ASSUME TypeInv, BudgetInv, LedgerInv, NEW w \in Workers,
           \/ \E c \in Claims : AllocateGet(w, c)
           \/ AllocatePending(w) \/ AllocateTake(w)
    PROVE  Fit(job[w])'
<1>0. job \in [Workers -> JobType] /\ job[w] \in JobType /\ Shape(job[w]) /\ Fit(job[w])
    BY DEF TypeInv, TypeOK, ShapeOK, BudgetInv
<1>1. ASSUME NEW c \in Claims, AllocateGet(w, c) PROVE Fit(job[w])'
  <2>1. job[w].sel \in Nodes /\ job[w].pc = "allocate" /\ UNCHANGED <<nas, pending>>
      BY <1>0, <1>1 DEF AllocateGet, Shape
  <2>2. /\ job'[w].pc = "exists" /\ job'[w].node = job[w].sel /\ job'[w].plan = job[w].plan
        /\ job'[w].visited = job[w].visited /\ job'[w].crd = nas[job[w].sel].spec
      BY <1>0, <1>1 DEF AllocateGet, Become, JobType
  <2> QED BY <2>1, <2>2, EnterFit
<1>2. ASSUME AllocatePending(w) PROVE Fit(job[w])'
  <2>1. job[w].pc = "exists" /\ UNCHANGED <<nas, pending>>
      BY <1>2 DEF AllocatePending
  <2>2. /\ job'[w].pc = "take" /\ job'[w].node = job[w].node /\ job'[w].plan = job[w].plan
        /\ job'[w].visited = job[w].visited /\ job'[w].crd = job[w].crd
      BY <1>0, <1>2 DEF AllocatePending, Become, JobType
  <2>3. \A x \in Cpus : Budget(job[w], x)' \subseteq Budget(job[w], x)
      BY <2>1, <2>2 DEF Budget, Reserved, On
  <2>4. /\ job[w].plan = NoCpus /\ job[w].visited = {} /\ job[w].pc \in BudgetPCs
        /\ Sized(job[w].plan) /\ Sized(job[w].crd.cpus)
      BY <1>0, <2>1 DEF Fit, BudgetPCs
  <2>5. job'[w].pc \notin Planning
      BY <2>2 DEF Planning
  <2> QED BY <2>2, <2>3, <2>4, <2>5, KeepFit
<1>3. ASSUME AllocateTake(w) PROVE Fit(job[w])'
  <2> DEFINE c == job[w].claim
             n == job[w].node
             S == pending[c][n]
             t == AddClaim(job[w].crd, c, S)
  <2>1. job[w].pc = "take" /\ UNCHANGED <<nas, pending>> /\ c \in Claims /\ n \in Nodes
      BY <1>0, <1>3 DEF AllocateTake, Shape, AtNode
  <2>2. /\ job'[w].pc = "updateGet" /\ job'[w].node = n /\ job'[w].plan = job[w].plan
        /\ job'[w].visited = job[w].visited /\ job'[w].crd = t
      BY <1>0, <1>3 DEF AllocateTake, Become, JobType
  <2>3. /\ job[w].plan = NoCpus /\ job[w].visited = {} /\ job[w].pc \in BudgetPCs
        /\ Sized(job[w].plan) /\ Sized(job[w].crd.cpus) /\ job[w].crd \in SpecType
      BY <1>0, <2>1 DEF Fit, BudgetPCs, JobType
  <2>4. S = {} \/ Cardinality(S) = Request[c].count
    <3>1. Sized([d \in Claims |-> pending[d][n]])
        BY <2>1 DEF BudgetInv
    <3> QED BY <2>1, <3>1 DEF Sized
  <2>5. /\ Sized(t.cpus) /\ t.cpus[c] = S
        /\ \A d \in Claims \ {c} : t.cpus[d] = job[w].crd.cpus[d]
      BY <2>1, <2>3, <2>4, SizedCopy
  <2> HIDE DEF t
  <2>6. \A x \in Cpus : Budget(job[w], x)' \subseteq Budget(job[w], x)
      BY <2>1, <2>2, <2>5 DEF Budget, Reserved, On
  <2>7. job'[w].pc \notin Planning
      BY <2>2 DEF Planning
  <2> QED BY <2>2, <2>3, <2>5, <2>6, <2>7, KeepFit
<1> QED BY <1>1, <1>2, <1>3

LEMMA DeallocateFit ==
    ASSUME TypeInv, BudgetInv, LedgerInv, NEW w \in Workers,
           \/ DeallocateGet(w) /\ job[w].claim \in nas[job[w].sel].spec.claims
           \/ DeallocateLatest(w) \/ DeallocateRelease(w)
    PROVE  Fit(job[w])'
<1>0. job \in [Workers -> JobType] /\ job[w] \in JobType /\ Shape(job[w]) /\ Fit(job[w])
    BY DEF TypeInv, TypeOK, ShapeOK, BudgetInv
<1>1. ASSUME DeallocateGet(w), job[w].claim \in nas[job[w].sel].spec.claims PROVE Fit(job[w])'
  <2>0. Become(w, [job[w] EXCEPT !.pc = "latest", !.node = job[w].sel]) /\ job[w].pc = "dealloc"
      BY <1>1 DEF DeallocateGet
  <2>1. /\ job'[w].pc = "latest" /\ job'[w].plan = job[w].plan
        /\ job'[w].visited = job[w].visited /\ job'[w].crd = job[w].crd
      BY <1>0, <2>0 DEF Become, JobType
  <2>2. job'[w].pc \notin Planning \cup BudgetPCs
      BY <2>1 DEF Planning, BudgetPCs, ToStore
  <2>3. /\ job[w].plan = NoCpus /\ job[w].visited = {}
        /\ Sized(job[w].plan) /\ Sized(job[w].crd.cpus)
      BY <1>0, <2>0 DEF Fit
  <2> QED BY <2>1, <2>2, <2>3, KeepFit
<1>2. ASSUME DeallocateLatest(w) PROVE Fit(job[w])'
  <2>1. job[w].node \in Nodes /\ job[w].pc = "latest" /\ UNCHANGED <<nas, pending>>
      BY <1>0, <1>2 DEF DeallocateLatest, Shape, AtNode
  <2>2. /\ job'[w].pc = "release" /\ job'[w].node = job[w].node /\ job'[w].plan = job[w].plan
        /\ job'[w].visited = job[w].visited /\ job'[w].crd = nas[job[w].node].spec
      BY <1>0, <1>2 DEF DeallocateLatest, Become, JobType
  <2> QED BY <2>1, <2>2, EnterFit
<1>3. ASSUME DeallocateRelease(w) PROVE Fit(job[w])'
  <2> DEFINE c == job[w].claim
             t == RemoveClaim(job[w].crd, c)
  <2>1. job[w].pc = "release" /\ UNCHANGED nas /\ c \in Claims /\ job[w].node \in Nodes
      BY <1>0, <1>3 DEF DeallocateRelease, Shape, AtNode, ClaimPCs
  <2>2. /\ job'[w].pc = "updateGet" /\ job'[w].node = job[w].node /\ job'[w].plan = job[w].plan
        /\ job'[w].visited = job[w].visited /\ job'[w].crd = t
      BY <1>0, <1>3 DEF DeallocateRelease, Become, JobType
  <2>3. /\ job[w].plan = NoCpus /\ job[w].visited = {} /\ job[w].pc \in BudgetPCs
        /\ Sized(job[w].plan) /\ Sized(job[w].crd.cpus) /\ job[w].crd \in SpecType
      BY <1>0, <2>1 DEF Fit, BudgetPCs, JobType
  <2>4. Sized(t.cpus) /\ \A d \in Claims : t.cpus[d] \subseteq job[w].crd.cpus[d]
      BY <2>1, <2>3, SizedCopy
  <2>5. \A d \in Claims, n \in Nodes : pending'[d][n] \in {pending[d][n], {}}
      BY <1>3 DEF DeallocateRelease, NotPending, TypeInv, TypeOK
  <2> HIDE DEF t
  <2>6. \A x \in Cpus : Budget(job[w], x)' \subseteq Budget(job[w], x)
      BY <2>1, <2>2, <2>4, <2>5 DEF Budget, Reserved, On
  <2>7. job'[w].pc \notin Planning
      BY <2>2 DEF Planning
  <2> QED BY <2>2, <2>3, <2>4, <2>6, <2>7, KeepFit
<1> QED BY <1>1, <1>2, <1>3

\* Client.Update.
LEMMA UpdateFit ==
    ASSUME TypeInv, BudgetInv, NEW w \in Workers, UpdateStep(w)
    PROVE  Fit(job[w])'
<1>0. job \in [Workers -> JobType] /\ job[w] \in JobType /\ Shape(job[w]) /\ Fit(job[w])
    BY DEF TypeInv, TypeOK, ShapeOK, BudgetInv
<1>1. job[w].pc \in ToStore /\ UNCHANGED pending
    BY DEF UpdateStep, UpdateGet, UpdateGetFails, UpdatePut, UpdateConflict, UpdateError, ToStore
<1>2. job[w].node \in Nodes
    BY <1>0, <1>1 DEF ToStore, Shape, AtNode, UpdatePCs
<1>3. /\ job[w].plan = NoCpus /\ job[w].visited = {} /\ job[w].pc \in BudgetPCs
      /\ Sized(job[w].plan) /\ Sized(job[w].crd.cpus)
    BY <1>0, <1>1 DEF Fit, BudgetPCs, ToStore
<1>4. /\ job'[w].pc \in UpdatePCs /\ job'[w].node = job[w].node /\ job'[w].plan = job[w].plan
      /\ job'[w].visited = job[w].visited /\ job'[w].crd = job[w].crd
  <2>1. ASSUME UpdateGet(w) PROVE <1>4!:
      BY <1>0, <2>1 DEF UpdateGet, Become, JobType, UpdatePCs
  <2>2. ASSUME UpdateGetFails(w) PROVE <1>4!:
      BY <1>0, <2>2 DEF UpdateGetFails, Become, JobType, UpdatePCs
  <2>3. ASSUME UpdatePut(w) PROVE <1>4!:
      BY <1>0, <2>3 DEF UpdatePut, Become, JobType, UpdatePCs
  <2>4. ASSUME CountTry(w) PROVE <1>4!:
      BY <1>0, <2>4 DEF CountTry, Become, JobType, UpdatePCs
  <2> QED BY <2>1, <2>2, <2>3, <2>4 DEF UpdateStep, UpdateConflict, UpdateError
<1>5. nas'[job[w].node].spec \in {nas[job[w].node].spec, job[w].crd}
  <2>1. \/ UNCHANGED nas
        \/ nas' = [nas EXCEPT ![job[w].node].spec = job[w].crd]
      BY DEF UpdateStep, UpdateGet, UpdateGetFails, UpdatePut, UpdateConflict, UpdateError
  <2> QED BY <1>2, <2>1 DEF TypeInv, TypeOK
<1>6. \A x \in Cpus : Budget(job[w], x)' \subseteq Budget(job[w], x)
    BY <1>1, <1>4, <1>5 DEF Budget, Reserved, On
<1>7. job'[w].pc \notin Planning \cup {"place", "visit", "remove"}
    BY <1>4 DEF Planning, UpdatePCs
<1> QED BY <1>3, <1>4, <1>6, <1>7, KeepFit

LEMMA StepsAtFit ==
    ASSUME TypeInv, BudgetInv, LedgerInv, NEW w \in Workers, StepsAt(w)
    PROVE  Fit(job[w])'
<1>0. job \in [Workers -> JobType] /\ job[w] \in JobType
    BY DEF TypeInv, TypeOK
<1>1. ASSUME NEW n \in Nodes, UnsuitableGet(w, n) PROVE Fit(job[w])'
  <2>1. job[w].pc = "unsuitable" /\ UNCHANGED <<nas, pending>>
      BY <1>1 DEF UnsuitableGet
  <2>2. /\ job'[w].pc = "visit" /\ job'[w].node = n /\ job'[w].plan = job[w].plan
        /\ job'[w].visited = job[w].visited /\ job'[w].crd = nas[n].spec
      BY <1>0, <1>1 DEF UnsuitableGet, Become, JobType
  <2> QED BY <2>1, <2>2, EnterFit
<1> QED BY <1>1, VisitFit, VisitedFit, PlaceFit, PendingSetFit, AllocateFit, DeallocateFit,
           UpdateFit DEF StepsAt

\* What is stored and pending still has the right size.
LEMMA StepSized ==
    ASSUME TypeInv, BudgetInv, NEW w \in Workers, Starts(w) \/ Continues(w), NEW n \in Nodes
    PROVE  Sized(nas'[n].spec.cpus) /\ Sized([c \in Claims |-> pending'[c][n]])
<1>1. Sized(nas'[n].spec.cpus)
  <2>1. \/ nas'[n].spec = nas[n].spec
        \/ \E v \in Workers : nas'[n].spec = job[v].crd
      BY SpecChanges DEF Stores, Next
  <2> QED BY <2>1 DEF BudgetInv, Fit
<1>2. ASSUME NEW c \in Claims
      PROVE  pending'[c][n] = {} \/ Cardinality(pending'[c][n]) = Request[c].count
  <2>0. Sized([d \in Claims |-> pending[d][n]]) /\ Sized(job[w].plan)
      BY DEF BudgetInv, Fit
  <2>1. pending'[c][n] \in {pending[c][n], {}, job[w].plan[c]}
    <3>1. CASE StepsAway(w)
        BY <3>1, StepsAwayAre DEF Away
    <3>2. CASE Panics(w)
        BY <3>2 DEF Panics, Panic, Restart, NotPending
    <3>3. ASSUME NEW d \in Claims, PendingSet(w, d)
          PROVE  pending'[c][n] \in {pending[c][n], {}, job[w].plan[c]}
        BY <3>3 DEF PendingSet, TypeInv, TypeOK
    <3>4. CASE \/ UNCHANGED pending
               \/ \E d : pending' = [pending EXCEPT ![d] = NotPending]
        BY <3>4 DEF NotPending, TypeInv, TypeOK
    <3>5. CASE StepsAt(w) /\ ~(\E d \in Claims : PendingSet(w, d))
        BY <3>4, <3>5
           DEF StepsAt, UnsuitableGet, VisitPending, PlaceClaim, VisitRemove, VisitDone, AllocateGet,
               AllocatePending, AllocateTake, DeallocateGet, DeallocateLatest, DeallocateRelease,
               UpdateStep, UpdateGet, UpdateGetFails, UpdatePut, UpdateConflict, UpdateError
    <3> QED BY <3>1, <3>2, <3>3, <3>5, StepKinds
  <2> QED BY <2>0, <2>1 DEF Sized
<1>3. Sized([c \in Claims |-> pending'[c][n]])
    BY <1>2 DEF Sized
<1> QED BY <1>1, <1>3

LEMMA IdleFit == \A j : j = Idle => Fit(j)
<1>1. Sized(NoCpus)
    BY DEF Sized, NoCpus
<1> QED BY <1>1 DEF Fit, Idle, EmptySpec, BudgetPCs, Planning, ToStore

LEMMA IdleFitNext == \A j : j = Idle => Fit(j)'
<1>1. Sized(NoCpus)
    BY DEF Sized, NoCpus
<1> QED BY <1>1 DEF Fit, Idle, EmptySpec, BudgetPCs, Planning, ToStore

LEMMA InitBudget == Init => BudgetInv
<1> SUFFICES ASSUME Init PROVE BudgetInv
    OBVIOUS
<1>1. \A n \in Nodes, x \in Cpus : Reserved(n, x) = {}
    BY DEF Init, ControllerInit, Reserved, On, EmptySpec, NoCpus, NotPending
<1>2. NoOvercommit
    BY <1>1, LoadEmpty DEF NoOvercommit, Threshold
<1>3. \A n \in Nodes : Sized(nas[n].spec.cpus) /\ Sized([c \in Claims |-> pending[c][n]])
    BY DEF Init, ControllerInit, Sized, EmptySpec, NoCpus, NotPending
<1>4. \A w \in Workers : Fit(job[w])
    BY IdleFit DEF Init, ControllerInit
<1> QED BY <1>2, <1>3, <1>4 DEF BudgetInv

\* After a restart only the NAS objects reserve anything.
LEMMA RestartBudget ==
    ASSUME TypeInv, BudgetInv, Restart
    PROVE  BudgetInv'
<1>1. \A n \in Nodes, x \in Cpus : Reserved(n, x)' \subseteq Reserved(n, x)
    BY DEF Restart, Reserved, On, NotPending
<1>2. \A n \in Nodes, x \in Cpus : Load[Reserved(n, x)'] < Threshold
    BY <1>1, WithinBudget, BudgetType DEF BudgetInv, NoOvercommit
<1>3. \A n \in Nodes : Sized(nas'[n].spec.cpus) /\ Sized([c \in Claims |-> pending'[c][n]])
    BY DEF Restart, BudgetInv, Sized, NotPending
<1>4. \A w \in Workers : Fit(job[w])'
    BY IdleFitNext DEF Restart
<1> QED BY <1>2, <1>3, <1>4 DEF BudgetInv, NoOvercommit

LEMMA NextBudget ==
    TypeInv /\ LockInv /\ LedgerInv /\ BudgetInv /\ [Next]_vars => BudgetInv'
<1> SUFFICES ASSUME TypeInv, LockInv, LedgerInv, BudgetInv, [Next]_vars PROVE BudgetInv'
    OBVIOUS
<1>1. ASSUME NEW w \in Workers, Starts(w) \/ Continues(w) PROVE BudgetInv'
  <2>1. CASE Panics(w)
      BY <2>1, RestartBudget DEF Panics, Panic
  <2>2. CASE ~Panics(w)
    <3>1. Turn(w)
        BY <1>1, <2>2, StepsTurn
    <3>2. NoOvercommit'
        BY <1>1, StepGrows, GrowsWithin
    <3>3. Fit(job[w])'
        BY <1>1, <2>2, StepKinds, AwayFit, StepsAtFit DEF BudgetInv
    <3>4. \A v \in Workers : Fit(job[v])'
        BY <3>1, <3>3, OthersFit
    <3>5. \A n \in Nodes : Sized(nas'[n].spec.cpus) /\ Sized([c \in Claims |-> pending'[c][n]])
        BY <1>1, StepSized
    <3> QED BY <3>2, <3>4, <3>5 DEF BudgetInv
  <2> QED BY <2>1, <2>2
<1>2. ASSUME \A n \in Nodes : nas'[n].spec = nas[n].spec, UNCHANGED <<pending, job>>
      PROVE  BudgetInv'
  <2>1. \A n \in Nodes, x \in Cpus : Reserved(n, x)' = Reserved(n, x)
      BY <1>2 DEF Reserved, On
  <2>2. NoOvercommit'
      BY <2>1 DEF BudgetInv, NoOvercommit
  <2>3. \A w \in Workers : job[w].pc \in AtNode => job[w].node \in Nodes
      BY DEF TypeInv, ShapeOK, Shape
  <2>4. BudgetPCs \cup Planning \subseteq AtNode
      BY DEF BudgetPCs, Planning, ToStore, AtNode, UpdatePCs
  <2>5. ASSUME NEW w \in Workers PROVE Fit(job[w])'
    <3>1. job[w].pc \in AtNode => nas'[job[w].node].spec = nas[job[w].node].spec
        BY <1>2, <2>3
    <3>2. Fit(job[w])
        BY DEF BudgetInv
    <3>3. job[w].pc \in Planning /\ Seen(job[w]) => Seen(job[w])'
        BY <1>2, <2>4, <3>1 DEF Seen, Passed
    <3>4. \A x \in Cpus : job[w].pc \in BudgetPCs => Budget(job[w], x)' = Budget(job[w], x)
        BY <1>2, <2>4, <3>1 DEF Budget, Reserved, On
    <3>5. job[w].pc \in BudgetPCs => \A x \in Cpus : Load[Budget(job[w], x)'] < Threshold
        BY <3>2, <3>4 DEF Fit
    <3> QED BY <1>2, <3>2, <3>3, <3>5 DEF Fit
  <2> QED BY <1>2, <2>2, <2>5 DEF BudgetInv
<1>3. CASE Environment
  <2>1. CASE Crash
      BY <2>1, RestartBudget DEF Crash
  <2>2. CASE ~Crash
      BY <1>2, <1>3, <2>2 DEF Environment, DeleteClaim, RequestDeallocate, SetStatus,
                              TypeInv, TypeOK
  <2> QED BY <2>1, <2>2
<1>4. CASE UNCHANGED vars
    BY <1>2, <1>4 DEF vars
<1> QED BY <1>1, <1>3, <1>4 DEF Next

\* What workers have counted as free at a node stays free while they hold its
\* mutex, and every claim has as many CPUs as it asked for, or none.
THEOREM BudgetInvariant == Spec => []BudgetInv
<1> QED BY InitBudget, NextBudget, InitTypeInv, TypeInvariant, LockInvariant, LedgerInvariant, PTL
        DEF Spec

\* Allocations and reservations of concurrently synced pods never exceed the
\* threshold of a CPU.
THEOREM NeverOvercommitted == Spec => []NoOvercommit
<1> QED BY BudgetInvariant, PTL DEF BudgetInv

----------------------------------------------------------------------------
(***************************************************************************)
(* The refinement of module NodeLedger.                                    *)
(***************************************************************************)

\* The ledger of module NodeLedger reads and writes specs as the workers do.
LEMMA SameLedger ==
    /\ Books!EmptySpec = EmptySpec
    /\ \A s, c, S : Books!AddClaim(s, c, S) = AddClaim(s, c, S)
    /\ \A s, c : Books!RemoveClaim(s, c) = RemoveClaim(s, c)
    /\ \A c : Books!Util(c) = Util(c)
    /\ Books!Threshold = Threshold
    /\ \A S : Books!Cardinality(S) = Cardinality(S)
<1>1. Books!EmptySpec = EmptySpec
    BY DEF Books!EmptySpec, EmptySpec, Books!NoCpus, NoCpus
<1>2. \A s, c, S : Books!AddClaim(s, c, S) = AddClaim(s, c, S)
    BY DEF Books!AddClaim, AddClaim, Books!Util, Util
<1>3. \A s, c : Books!RemoveClaim(s, c) = RemoveClaim(s, c)
    BY DEF Books!RemoveClaim, RemoveClaim, Books!Util, Util, Books!Minus, Minus
<1>4. \A c : Books!Util(c) = Util(c)
    BY DEF Books!Util, Util
<1>5. Books!Threshold = Threshold
    BY DEF Books!Threshold, Threshold
<1>6. \A S : Books!Cardinality(S) = Cardinality(S)
    BY Zenon DEF Books!Cardinality, Cardinality
<1> QED BY <1>1, <1>2, <1>3, <1>4, <1>5, <1>6

\* A claim that enters a ledger has room on each of its CPUs.
LEMMA RoomToEnter ==
    ASSUME TypeInv, LedgerInv, BudgetInv, NEW w \in Workers,
           job[w].pc \in ToStore, job[w].claim \in Claims,
           job[w].claim \notin nas[job[w].node].spec.claims,
           NEW x \in job[w].crd.cpus[job[w].claim]
    PROVE  nas[job[w].node].spec.util[x] + Util(job[w].claim) < Threshold
<1> DEFINE c == job[w].claim
           n == job[w].node
           A == On(nas[n].spec.cpus, x)
<1>0. job[w] \in JobType /\ n \in Nodes
    BY DEF TypeInv, TypeOK, ShapeOK, Shape, ToStore, AtNode, UpdatePCs
<1>1. x \in Cpus
    BY <1>0 DEF JobType, SpecType
<1>2. Load[Budget(job[w], x)] < Threshold
    BY <1>1 DEF BudgetInv, Fit, BudgetPCs
<1>3. A \in SUBSET Claims /\ c \notin A /\ nas[n].spec.util[x] = Load[A]
    BY <1>0, <1>1 DEF LedgerInv, Consistent, Conserved, On
<1>4. A \cup {c} \subseteq Budget(job[w], x)
    BY DEF Budget, Reserved, On
<1> HIDE DEF A, c
<1>5. Load[A \cup {c}] = Load[A] + Util(c)
    BY <1>3, LoadAdd DEF c
<1>6. Load[A \cup {c}] < Threshold
    BY <1>2, <1>4, WithinBudget, BudgetType
<1> QED BY <1>3, <1>5, <1>6 DEF c

LEMMA Entering ==
    ASSUME NEW n \in Nodes, NEW c \in Claims, NEW S \in SUBSET Cpus,
           c \notin nas[n].spec.claims, S = {} \/ Cardinality(S) = Request[c].count,
           \A x \in S : nas[n].spec.util[x] + Util(c) < Threshold,
           nas'[n].spec = AddClaim(nas[n].spec, c, S),
           \A m \in Nodes \ {n} : nas'[m].spec = nas[m].spec
    PROVE  Books!LedgerNext
<1> DEFINE book == [m \in Nodes |-> nas[m].spec]
<1>1. book[n] = nas[n].spec
    OBVIOUS
<1>2. book' = [book EXCEPT ![n] = AddClaim(@, c, S)]
    BY Zenon
<1>3. book' = [book EXCEPT ![n] = Books!AddClaim(@, c, S)]
    BY <1>2, SameLedger, Zenon
<1>4. \A x \in S : book[n].util[x] + Books!Util(c) < Books!Threshold
    BY <1>1, SameLedger
<1>5. c \notin book[n].claims /\ (S = {} \/ Books!Cardinality(S) = Request[c].count)
    BY <1>1, SameLedger
<1>6. Books!Enter(n, c, S)
    BY <1>3, <1>4, <1>5, Zenon DEF Books!Enter
<1> QED BY <1>6, Zenon DEF Books!LedgerNext

LEMMA Leaving ==
    ASSUME NEW n \in Nodes, NEW c \in Claims, c \in nas[n].spec.claims,
           nas'[n].spec = RemoveClaim(nas[n].spec, c),
           \A m \in Nodes \ {n} : nas'[m].spec = nas[m].spec
    PROVE  Books!LedgerNext
<1> DEFINE book == [m \in Nodes |-> nas[m].spec]
<1>1. book[n] = nas[n].spec
    OBVIOUS
<1>2. book' = [book EXCEPT ![n] = RemoveClaim(@, c)]
    BY Zenon
<1>3. book' = [book EXCEPT ![n] = Books!RemoveClaim(@, c)]
    BY <1>2, SameLedger, Zenon
<1>4. c \in book[n].claims
    BY <1>1
<1>5. Books!Leave(n, c)
    BY <1>3, <1>4, Zenon DEF Books!Leave
<1> QED BY <1>5, Zenon DEF Books!LedgerNext

\* Every write of a spec, first or in a retry, is one claim entering or leaving
\* the ledger as it is at that moment: workers act on a node as if one after the
\* other.
THEOREM LedgerImplemented == Spec => ImplementsLedger
<1> DEFINE book == [n \in Nodes |-> nas[n].spec]
<1>1. Init => Books!LedgerInit
  <2> SUFFICES ASSUME Init PROVE Books!LedgerInit
      OBVIOUS
  <2>1. \A n \in Nodes : nas[n].spec = EmptySpec
      BY DEF Init
  <2> QED BY <2>1, SameLedger DEF Books!LedgerInit
<1>2. TypeInv /\ LedgerInv /\ CopyInv /\ BudgetInv /\ [Next]_vars => [Books!LedgerNext]_book
  <2> SUFFICES ASSUME TypeInv, LedgerInv, CopyInv, BudgetInv, [Next]_vars
               PROVE  Books!LedgerNext \/ UNCHANGED book
      OBVIOUS
  <2>1. CASE \A n \in Nodes : nas'[n].spec = nas[n].spec
      BY <2>1
  <2>2. ASSUME NEW w \in Workers, Stores(w) PROVE Books!LedgerNext \/ UNCHANGED book
    <3> DEFINE n == job[w].node
               s == nas[n].spec
               c == job[w].claim
               S == job[w].crd.cpus[c]
    <3>0. job[w] \in JobType /\ Shape(job[w])
        BY DEF TypeInv, TypeOK, ShapeOK
    <3>1. /\ job[w].pc \in AtNode /\ job[w].pc \in ToStore
          /\ n \in Nodes /\ c \in Claims
        BY <2>2, <3>0 DEF Stores, AtNode, ToStore, UpdatePCs, Shape
    <3>2. S \in SUBSET Cpus
        BY <3>0, <3>1 DEF JobType, SpecType
    <3>3. nas'[n].spec = job[w].crd /\ \A m \in Nodes \ {n} : nas'[m].spec = nas[m].spec
        BY <2>2 DEF Stores
    <3>4. job[w].crd = s \/ Changed(job[w], s)
        BY <3>1 DEF CopyInv, Copy
    <3>5. CASE job[w].crd = s
        BY <3>3, <3>5
    <3>6. CASE c \notin s.claims /\ job[w].crd = AddClaim(s, c, S)
      <4>1. S = {} \/ Cardinality(S) = Request[c].count
          BY <3>1 DEF BudgetInv, Fit, Sized
      <4>2. \A x \in S : s.util[x] + Util(c) < Threshold
          BY <3>1, <3>6, RoomToEnter
      <4>3. nas'[n].spec = AddClaim(s, c, S)
          BY <3>3, <3>6
      <4> QED BY <3>1, <3>2, <3>3, <3>6, <4>1, <4>2, <4>3, Entering
    <3>7. CASE c \in s.claims /\ job[w].crd = RemoveClaim(s, c)
      <4>1. nas'[n].spec = RemoveClaim(s, c)
          BY <3>3, <3>7
      <4> QED BY <3>1, <3>3, <3>7, <4>1, Leaving
    <3> QED BY <3>4, <3>5, <3>6, <3>7 DEF Changed
  <2> QED BY <2>1, <2>2, SpecChanges
<1> QED BY <1>1, <1>2, TypeInvariant, LedgerInvariant, CopyInvariant, BudgetInvariant, PTL
        DEF Spec, ImplementsLedger, Books!LedgerSpec
=============================================================================
