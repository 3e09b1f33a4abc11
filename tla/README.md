# TLA+ specifications of dra-rt-driver

The driver gives pods a share of real-time CPU time. It is a Dynamic Resource
Allocation driver for Kubernetes 1.28: a *controller* picks the CPUs of each
ResourceClaim, a *kubelet plugin* on every node hands them to the containers,
and the two meet in one `NodeAllocationState` object (NAS) per node in the API
server. This directory models that program, checks it with TLC and proves part
of it with TLAPS.

## 1. Inventory

| Component | Code | State | Operations | Talks to |
|---|---|---|---|---|
| Controller driver | `cmd/dra-rt-controller/driver.go` | none of its own | `UnsuitableNodes`, `Allocate`, `Deallocate` | called by the framework's workers (10 by default); NAS client; RT driver |
| RT driver | `rt.go` | `PendingAllocatedClaims` | `UnsuitableNode`, `allocate`, `cpuPartitioning`, `Allocate`, `Deallocate` | pending allocations, a local copy of the NAS |
| Pending allocations | `allocations.go` | `allocations[claim][node]`, `utilisation[node]`, an RWMutex | `Exists`, `Get`, `VisitNode`, `Set`, `Remove`, ... | shared by all workers |
| Node mutexes | `mutex.go` | one mutex per node | `Get` | `driver.go` |
| NAS client | `api/.../nas/v1alpha1/client/client.go` | a copy of the NAS | `Get`, `GetOrCreate`, `Update` (4 attempts), `UpdateStatus` | API server |
| NAS data | `api/.../nas/v1alpha1/nas.go` | spec: allocatable, allocated, prepared claims, utilisation per CPU | `SetUtilisation` | everybody |
| Kubelet plugin: calls | `cmd/dra-rt-kubeletplugin/driver.go`, `state.go`, `cdi.go` | one shared copy of the NAS, the prepared claims | `NodePrepareResources`, `NodeUnprepareResources` | the kubelet (gRPC), NAS client |
| Kubelet plugin: process | `main.go`, `driver.go`, `state.go`, `discovery-t.go` | directories, the common CDI file, the allocatable CPUs | `StartPlugin`, `NewDriver`, `NewDeviceState`, `Shutdown` | NAS client, Kubernetes |
| set-nas-status | `cmd/set-nas-status/main.go` | a copy of the NAS | `GetOrCreate`, one `UpdateStatus` | NAS client |
| Framework | `k8s.io/dynamic-resource-allocation/controller` (not in the repository) | work queue, copies of claims | `syncPodSchedulingContexts`, `syncClaim` | calls the driver, writes claims |

What is hard here: several workers in the same methods at once; a mutex per
node while the pending allocations are keyed by claim and span nodes; a read of
the NAS followed much later by a write of the whole spec; answers of the API
server that are lost; the process ending between the write of the NAS and the
write of the claim; copies of claims that are stale; two programs that each write the whole spec of the
same object. `PROJECT.json` lists each
such place under `hazards`.

What makes each part correct:

* placement: no CPU is promised beyond the threshold, all claims of a pod or none;
* allocation: the NAS records each claim once, with the CPUs it asked for, and
  the claim's status names a node only if that node's NAS records the claim;
* deallocation: what was recorded is taken off exactly, and eventually;
* NAS client: a write carries no old data of others;
* memory of the workers: one worker in a node's section, no map read while it is
  written, every call returns;
* plugin process: a start takes back no allocation, a NAS is ready only when it is
  synchronised, prepared CPUs stay the same across restarts, and the plugin comes
  up in the end;
* plugin: the device a container gets is the one allocated; prepared claims in
  the NAS are those prepared on the node.

## 2. Plan

| | Module | Says | State |
|---|---|---|---|
| 1 | `NodeAllocationState`, `CpuPartitioning`, `Controller` | the workers of the controller | done |
| 2 | `KubeletPlugin`, `KubeletNode` | handlers, the shared copy, start and end of the plugins; the kubelet and the controller around them | done |
| 3 | `NodeLedger` | what the controller promises of a NAS; `Controller` implements it | done |
| 4 | `SharedMemory`, `NodeMutex` | the locks of the controller one operation at a time; they implement the abstract mutex `Controller` uses | done |
| 5 | `PluginProcess` | the plugin's process and set-nas-status over a NAS that comes and goes | done |
| 6 | `DraSystem` | composes `Controller` and `KubeletPlugin` | done |
| 7 | `UtilSums`, `Controller_proofs` | types and utilisation of the controller | done |
| 8 | `ControllerLedger_proofs`, `ControllerStatus_proofs` | the other safety and action properties of the controller, the refinement of `NodeLedger` | done |
| 9 | `SharedMemory_proofs` | its safety properties, the refinement of `NodeMutex` | done |
| 10 | `KubeletNode_proofs` | its safety properties | done |
| 11 | `PluginProcess_proofs` | its safety and action properties | done |
| 12 | `DraSystem_proofs` | `UtilConserved` of the composition | done |
| 13 | `DraSystem_proofs` | `PreparedAllocated` and `FullyAllocated` of the composition | done |
| 14 | `CpuSort` | the loop and the stable sort of `cpuPartitioning`, compared with `WorstFit` | not done |

## 3. Modules

**`NodeAllocationState`** -- the spec of a NAS as a record: the keys of
`AllocatedClaims`, the CPU set of each entry (`{}` for a missing entry and for
one whose `RtCpu` is nil), the published utilisation and the prepared claims.
`AddClaim` is the assignment of an entry followed by `SetUtilisation`;
`RemoveClaim` the loop of `Deallocate` with its floor of 0. `Util` keeps the
truncated division. `Load` is the specification's own sum, a recursive function.

**`CpuPartitioning`** -- the choice of CPUs for one claim. The order in which Go
ranges over the utilisation map decides between equal scores, so the result is a
set of possible CPU sets.

**`Controller`** -- everything the workers do. Variables:

| Variable | Code |
|---|---|
| `nas[n]` | the NAS object of node n in the API server: `Status = Ready` and the spec |
| `nasFresh[n]` | the clients whose last read is the current resourceVersion; stands for the version numbers |
| `claim[c]` | the ResourceClaim: what was asked of it (`phase`), `Status.Allocation` (`node`), the driver's finalizer |
| `claimFresh[c]` | the workers whose copy of the claim is current |
| `pending[c][n]` | `PendingAllocatedClaims.allocations[c][n]` |
| `lock[n]` | `driver.lock.Get(n)` |
| `job[w]` | the worker's place in the code and its local variables |

An action is the code between two accesses to shared state. A pod's sync goes
through `SyncPod`, then per potential node `UnsuitableGet`, `VisitPending`,
`VisitRemove`, `VisitDone`, `PlaceClaim`/`PlaceFails`, `PendingSet`,
`UnsuitableDone`; then, if the selected node is suitable, `StartAllocate`,
`AddFinalizer`, per claim `AllocateGet`, `AllocatePending` (`Exists`),
`AllocateTake` (`Get`), the steps of `Client.Update`, `AllocateSuccess`; then
`SetClaimStatus`. A claim's sync is `SyncClaim`, `DeallocateGet`,
`DeallocateLatest`, `DeallocateRelease`, `Client.Update`, `DeallocateDone`,
`ClearStatus`, `RemoveFinalizer`. The framework, the API server and the
scheduler are external: their actions follow from how the driver is called and
from the calls it makes.

`AllocateGet` and `AllocateExists` are the two outcomes of the test at
driver.go:149, `AllocateNotReady` the early returns before it. The second test
of the same kind in rt.go:60 can never succeed, as the copy is the same one.

**`KubeletPlugin`** -- the plugin of every node. `nas` and `nasFresh` are those
of `Controller`; the plugin's shared copy counts as a client named like its node.

| Variable | Code |
|---|---|
| `copy[n]` | `driver.nascrd.Spec`, which the NAS client overwrites |
| `prepared[n]` | the keys of `DeviceState.prepared` |
| `main[n]` | where the process is between its start (`NewDriver`) and its end (`Shutdown`) |
| `call[h]` | a gRPC call: its place in the code and its local variables |
| `kubelet[n][c]` | external: the kubelet's cache of prepared claims and their devices |

A prepare call is `PrepareCall`, `NameDevice` (driver.go:119), `Get` with its
assignment to the copy in two parts (`AssignFirst`, `AssignRest`: Go assigns a
large struct field by field and no lock is held), `Prepare`, `GetUpdatedSpec`,
the steps of `Client.Update`, again an assignment to the copy, `Done`. An
unprepare call lacks the first and has `Unprepare`. The `RetryOnConflict` around
both never repeats them, as the error of `Client.Update` does not wrap the
conflict. A start is `StartPlugin`, `MainGet`, `StartNotReady`, `LoadState`,
`StartUpdateGet`, `StartUpdatePut`, `StartReady`; an end is `StopPlugin`,
`MainGet`, `StopNotReady`, or a crash. The kubelet is that of 1.28: it
calls once per pod, so that pods that share a claim may call at the same time
(`SharedClaims`); it caches a claim when its preparation has succeeded and
unprepares cached claims only.

Requests are made with the call's context: gRPC's `Stop` (v1.58) cancels the
calls in progress and does not wait for their handlers, so that after it `Get`
and `UpdateGet` fail, an `Update` may still be stored, and a handler left behind
may assign to the copy `Shutdown` is about to write. `nasFresh` keeps a client
only as long as it may still write with the version it read.

**`KubeletNode`** -- `KubeletPlugin` with the kubelet's calls and a controller. Of a
worker there is what the plugin notices: it holds a node's mutex, has read the NAS
and will store the whole spec it made of it, `PreparedClaims` included, some
time later.

| Variable | Code |
|---|---|
| `allocation[c]` | `Status.Allocation` of the ResourceClaim: a node or none |
| `section[n]` | the worker in the node's section: its claim and the spec it is to store |
| `dropped[n]` | history: the prepared claims that such a store took out of the NAS |

`ControllerAllocates` and `ControllerReleases` are the read (driver.go:125; 200 and 216)
with the tests behind it and the change of the local copy, `ControllerStores` the
`Client.Update` (driver.go:166, 278), which may arrive any number of plugin steps
later, under whatever status, and again when its answer is lost; `ControllerGivesUp` is
its failure or the end of the process. The program does lose prepared claims in this way
(section 5). `dropped` marks exactly those until a call that gets to its end finds
or puts the claim in the NAS, in the copy and in memory again; the two properties
say that nothing else loses any. No action reads it.

**`NodeLedger`** -- the abstract specification of what the controller does to the
NAS objects: claims enter a ledger with all their CPUs and the room for them, or
leave it. No workers, copies, retries, mutexes or reservations. `Controller` is
mapped to it by `book <- [n \in Nodes |-> nas[n].spec]`; that a
write of a whole spec, read several requests earlier, is one entry more or less
in the *current* ledger is what the mutexes, the resource versions and the order
of the calls are there for.

**`SharedMemory`** -- what the workers share in memory, one lock operation per
step. `Controller` takes a node's mutex as the variable `lock` and each method of
`PerNodeAllocatedClaims` as one step; here they are taken apart.

| Variable | Code |
|---|---|
| `outer`, `submutex[n]`, `holder[n][w]` | `PerNodeMutex`: its mutex, the mutex made for node n (named after the worker that made it), and who holds it |
| `readers[w]`, `queue`, `writer` | the `sync.RWMutex`: read locks per worker, who waits in `RLock`, who is in or past `Lock` |
| `allocations[c]`, `utilisation` | the nodes of a claim's reservations and the keys of the utilisation map |
| `job[w]` | the worker's place in `UnsuitableNode`, `Allocate` or `Deallocate` |

`LockOuter`, `CheckSubmutex`, `CreateSubmutex`, `UnlockOuter` are
`PerNodeMutex.Get`, called for `Lock` and at once again for the deferred
`Unlock`. `RLock`, `Lock`, `LockGranted`, `BeginWrite`, `EndWrite` are the
RWMutex around the methods `Set`, `SetUtil`, `Remove`, `RemoveUtil`,
`RemoveUtilOtherNodes`; `VisitClaim`/`VisitEnds` `VisitNode`, which gives the
lock up around the visitor; `Exists` and `Get` the nested read locks. `PrintMaps`
is a `fmt.Println` of the maps; when it meets a write, Go ends the process
(`FatalPrint`). Which claims are placed or found in the NAS is open.

**`NodeMutex`** -- the abstract mutex per node: one worker at a time, only the
holder releases, all free when the process ends. `SharedMemory` is mapped to it by
the mutex that is entered in the map for a node.

**`PluginProcess`** -- one node: the plugin's process from `StartPlugin` to
`Shutdown` and the command set-nas-status, which the Helm chart runs as an init
container and preStop hook (with `NotReady` only, so `Statuses = {FALSE}`).

| Variable | Code |
|---|---|
| `object`, `node` | the NAS, or `None`; whether its owner, the Node, exists |
| `copy[k]`, `version[k]` | `Config.nascr` of each process; its resourceVersion: none, the object's, or an older one |
| `pc[k]` | where each process is |
| `cdiRoot` | the directory for CDI files and what is in it |
| `cpus`, `prepared` | `DeviceState.allocatable`, `.prepared` with the CPUs' IDs |
| `given[c]` | external: the CPUs of the claims the kubelet was told are prepared |
| `section` | the controller's worker: its claim and the spec it is to store |
| `calm` | nothing fails any more (for liveness) |
| `late` | history: the claims whose allocation a worker was about to change when a start set the status `NotReady` |
| `revived` | history: the claims that a worker's old spec recorded as prepared with other CPUs than the kubelet was told, until they are prepared or unprepared again |

`GetOrCreate`, `Create`, `UpdateStatus`, `Conflict`, `Lost` are the requests of
both processes, `NewDeviceState` the discovery of CPUs with the reconstruction of
prepared claims, `UpdateGet`/`Update` the synchronisation of the start,
`ShutdownGet` and `UpdateStatus` the end. A call of the kubelet is
one step (`Prepare`, `Unprepare`), which `KubeletPlugin` takes apart. The controller
is a worker that holds the node's mutex (`section`): `Allocate`, with the look at the
status (driver.go:130), and `Deallocate` are its reads, `ControllerStores` the write
of the whole old spec over any object there is by then, `ControllerGivesUp` its end without
one. The Node may be deleted and registered again at any
time, the garbage collector deletes a NAS without an owner (`DeleteNode`,
`RegisterNode`, `Collect`), and either process may end at any step (`Dies`).

**`DraSystem`** -- the controller and the plugins over the same NAS objects:
`Controller` and `KubeletPlugin` are instances that share `nas` and `nasFresh`. The
claims' reservations (`reserved`, `Status.ReservedFor`) tie them together, as in
the cluster: a status that names a node reserves the claim for the pod, the kubelet prepares
reserved claims only, a claim in use is neither synced nor asked to be
deallocated, and pods end after the kubelet has cleaned up.
Its property `PreparedAllocated` is defined in **`ClaimsInUse`**, over the NAS and the
kubelet's cache alone.

**`MC...`** -- constants for TLC. Definitions that start with "Mutant of" in a
comment are wrong variants of an operator: each property fails when the
variant takes the operator's place.

**`UtilSums`**, **`Controller_proofs`**,
**`ControllerLedger_proofs`**, **`ControllerStatus_proofs`**,
**`SharedMemory_proofs`**, **`KubeletNode_proofs`**, **`PluginProcess_proofs`**,
**`DraSystem_proofs`** -- proofs. The last one extends `ControllerStatus_proofs` and
has `DraSystem` as an instance over the same variables, so that the lemmas on the
controller's steps apply to the composition.

## 4. Runs

| Run | Instance | Shows |
|---|---|---|
| `own` | 2 workers, 2 nodes with 1 CPU, 2 pods with a claim each | `NoOvercommit`, `PromiseKept`, `AllocationKept`: what holds between placement and allocation, when the node's mutex is free, rests on the reservations alone, and they suffice |
| `shared` | 2 workers, 2 nodes, 2 pods sharing a claim; API errors, lost answers, crashes | `TypeOK`, `UtilConserved`, `StatusBacked`, and `Controller` implements `NodeLedger` (`ImplementsLedger`) |
| `pair` | 2 workers, 1 node with 2 CPUs, a pod with two claims and one with one | `NoOvercommit` at the threshold, `NoLostUpdate`, `FullyAllocated` |
| `live` | 2 workers, 1 node, 2 pods sharing a claim, fairness; the NAS's status changes | `Released`, `WorkersReturn` |
| `drained` | as `own`, one node | `Drained` fails (section 5) |
| `nilentry` | as `shared`, no faults | `FullyAllocated` fails (section 5) |
| `serial` | 1 handler, 2 claims of which pods use 1, 1 CPU, all faults, a worker of the controller, fairness | `NodeTypeOK`, `PreparedStored`, `PreparedKnown`, `PrepareSucceeds`, `UnprepareSucceeds` |
| `reuse` | 1 handler, 1 claim, 2 CPUs | `DeviceAllocated` fails (section 5) |
| `system` | 1 worker, 1 handler, 1 node, 2 pods with a claim each; controller crashes | `UtilConserved`, `PreparedAllocated`, `FullyAllocated` survive although each program overwrites the other's spec (the last one with one node or one worker only, section 5) |
| `clobber` | as `system`, no faults | `StatusBacked` fails (section 5) |
| `memory` | 2 workers, 2 nodes, 1 claim, fairness | `MemoryTypeOK`, `NodeExclusive`, `ReadsUndisturbed`, `CallsReturn`, and `SharedMemory` implements `NodeMutex` (`ImplementsMutex`) |
| `process` | 1 node, 2 CPUs, 1 claim, set-nas-status and a worker of the controller beside the plugin, every failure, fairness | `ProcessTypeOK`, `SyncsNotReady`, `PreparedIds`, `StatusKeepsSpec`, `CreatedEmpty`, `ReadyPublishes`, `StartKeepsAllocations`, `ComesUp` |

Bounds. Two workers are enough for every race between two accesses, and two
pods keep both of them busy; a third worker would only repeat one of the roles,
as a mutex has one holder and a claim's sync one worker at a time. Two nodes are
needed where a step on one node touches the other: `Remove` drops a claim's
reservations on all nodes, and `RemoveUtilOtherNodes` looks at them. The requests
are chosen so that one claim fits a CPU and two do not (`Halves`: 500 of 950), so
that all claims together meet the threshold exactly, with an inexact division
among them (`Mixed`), or so that two claims fit one CPU (`Forties`). `MaxRetries`
is 2 instead of 4: the first attempt, and one that is a retry and the last; 1 in
`system` and `clobber`, where every attempt would only read again what it
overwrites. No other counter is bounded, as nothing else grows. A claim that the
copy does not record is met in `system` only, where the controller's entry is
overwritten before the call. Workers, nodes
and CPUs are symmetric in the safety runs of the controller, and in `shared` the
pods, which have the same claim (elsewhere pods and claims are named by
`PodClaims`); in `reuse` and the composition the claims are. The liveness runs use no
symmetry. In the
plugin's runs one node is enough, as plugins of different nodes share nothing.
In `serial` pods use one of two claims (`UsedClaims`): the other one is there for
the worker, which reads the NAS for it and stores the spec around the first one's calls; its
claims have a utilisation of 0 (`Zeros`), which no property there looks at and
which would only count the same copies several times. A larger instance, in which pods use both
claims and both have 400 of the CPU (`Forties`), was checked once for the
invariants: 8 267 513 states with all faults, no error. The proofs (section 6)
are about any claims. `system` leaves out of the fingerprint
what no step reads (`View` in `MCDraSystem`). In `memory` the second node brings in mutexes
made on demand while others are held and writers on one node beside readers on
the other; one claim, with reservations on both nodes, is enough for every lock
to be contended. In `process` two CPUs are the fewest that can change their order. What a worker does with
the prepared claims of *another* claim's pods takes two claims (`revived` stays empty
with one): that instance is too large for liveness and set-nas-status, and was checked
once without them, for the invariants and action properties: 24 406 416 states with the
Node's deletion and failing discovery, no error. Without `revived` it violates
`PreparedIds`, without `late` the run `process` violates `StartKeepsAllocations`, and
without `dropped` the run `serial` violates `PreparedStored`; so the worker's writes
are met. `IdsStay` is proved for any claims. `live` has one node, since two
are too many for its temporal formulas, and so the race of `nilentry` cannot
occur in it (`FullyAllocatedAlone`, section 6): the second disjunct of `Released`, a
claim that `Deallocate` refuses, is never used there. `CHECK_DEADLOCK
FALSE`: once every claim is gone, or once the plugin is up and nothing else
happens, the system has nothing left to do; in `memory` the nested read lock
stops all workers.

Faults. `api`: a read or a write of the API server fails, or a write succeeds
and its answer is lost. `status`: set-nas-status or the plugin changes a
NAS's status. `crash`: the controller ends at any step and starts with an empty
memory, or the plugin does. `stop`: the plugin is asked to end, after its preStop
hook or without it. A write still on its way at the moment of the crash is taken
to have arrived before it or not at all. The composition has the controller's
crashes only: what the plugin's faults do there is in section 5.

Fairness.

* `live`: strong fairness of each worker's next step, as Go's scheduler runs
  every goroutine and its mutex is handed to a waiter that starves; strong
  fairness of a claim's sync, as the framework puts a failed key back into its
  queue until the sync succeeds. Nothing is assumed of pods, users, the scheduler
  or those who write a NAS's status. `Released` is about histories in which the
  status settles, and excludes a claim that pods being scheduled allocate over
  and over again between its deletion and its sync: nothing in the driver forbids
  that. It also excludes a claim recorded without CPUs (`Refused`), which with two nodes
  and a shared claim happens without any fault and is never released (section 5).
* `serial`: weak fairness of each handler and of a starting plugin; strong
  fairness of the kubelet's calls for a claim, which it repeats until they
  succeed. Nothing is assumed of the controller: both properties are about nodes
  that come to rest (`Calm`), since a controller that writes at the wrong
  moment each time makes every update fail, and a plugin may crash for ever.
* `memory`: strong fairness of each worker (goroutines, and Go's starvation mode).
  `CallsReturn` allows for the one way in which calls do not return, `Nested`.
* `process`: weak fairness of the process, which Kubernetes starts again whenever
  it has ended; strong fairness of its status writes, because a controller that
  stores something at every wrong moment would make all of them conflict.
  `ComesUp` is about the time after the failures (`calm`), and leaves out directories that
  are files, which the process cannot repair.

## 5. Disagreements found

* `drained`: the README of the driver (lines 187-188) says that deleting the
  applications brings the allocations back to their initial state. A claim
  deleted between the NAS write of `allocate` and the framework's write of its
  status is released by `Deallocate` without a look at the NAS, because its
  status names no node (driver.go:177-180). Its entry and utilisation stay.
* `nilentry`: `rtdriver.Allocate` calls `Exists` and `Get` under two locks
  (rt.go:55, 64). With a shared claim, a worker that finishes the claim on
  another node removes the reservation in between, and the NAS records an entry
  without CPUs. `Panic` is what `rtdriver.allocate` does with such an entry;
  `DeallocateFails` is what `Deallocate` does with it, each time (driver.go:243-252): once
  deleted, the claim stays, with its finalizer, for ever. `Released` makes that exception.
* `reuse`: the README (lines 150-151) says the apps show the CPUs allocated to
  them. The CDI device is named after the shared copy before the copy is
  refreshed (driver.go:119, 205): a claim that is allocated anew gets the device
  of its earlier CPUs.
* `clobber`: the README (lines 162-164) says the NAS shows what has been allocated
  to a claim. The plugin writes the whole spec it read some time ago; `Update` reads
  the object again for its resourceVersion only. An allocation the controller
  stored in between is overwritten: the claim's status names the node, the NAS knows
  nothing of it, and its CPUs are promised again. What survives is the subject of
  `system`: a clobbered spec is an older *consistent* ledger.

What the code does besides, as modelled, without a run of its own:

* `SharedMemory`: `Get` takes the read lock twice (allocations.go:64). A writer
  that calls `Lock` in between stops every worker for ever; `Nested` is reachable
  in `memory`, and `CallsReturn` says that it is the only such way. The prints of
  the maps without the lock (rt.go:88, 93, 163, 171) end the process when they meet a
  write (`FatalPrint`).
* `KubeletNode`: with one handler and no fault a prepared claim vanishes from the NAS. A
  worker of the controller reads the NAS for claim 2; the plugin prepares claim 1, stores it and
  answers; the worker stores the spec it has read, without claim 1. The next call of the
  plugin stores it again from memory, but a process that is replaced before that starts without it, and
  the claim is never unprepared in the NAS. `PreparedStored` and
  `PreparedKnown` set aside the claims that were lost so (`dropped`).
* `KubeletPlugin`, two handlers: besides, specs are stored in the other order than they
  were assembled and the later claim is missing from the NAS (`PreparedStored`
  fails with two handlers); the copy is read while it is being assigned.
* A `Prepare` that fails for want of a device name keeps the claim among the
  prepared ones (state.go:135); the kubelet, which was told of a failure, never
  unprepares it, and the next call for another claim stores it in the NAS.
* A call whose update fails unprepares its claim (driver.go:139) even if another
  call for the same claim, shared by two pods as in demo/rt-test3.yaml, has
  succeeded: `PreparedKnown` fails with `SharedClaims`, two handlers and API errors.
* With two nodes and lost answers (`own` with `api`) `PromiseKept` fails: an
  allocation that was stored and reported as failed leaves the claim in one NAS
  while a pod's sync reserves it on another node, and the visit of the first node
  removes that reservation.
* `DraSystem`: `NoOvercommit` and `DeviceAllocated` fail as a consequence of
  `clobber`. `FullyAllocated` fails with two nodes and two workers, even if every claim is
  of one pod and nothing fails: a handler on node 1 has read the NAS with claim 1
  in it; the claim's pod ends, the claim is deallocated and its next pod is synced,
  so that it is reserved on both nodes, node 2 is chosen, and worker 1 is there between
  `Exists` and `Get`; the handler stores what it has read and brings the claim back
  on node 1; worker 2 syncs another pod, finds claim 1 recorded at node 1 and removes its
  reservations everywhere; `Get` returns nothing, and node 2 records the
  claim without CPUs. It is the race of `nilentry`, for which
  no claim has to be shared here. With `stop`, a handler left behind may have assigned half of the copy that `Shutdown`
  writes, and with two handlers the stored copy may be torn: then `UtilConserved`
  fails as well.
* `PluginProcess`: a prepared CPU is looked up by its ID as if it were a position
  in the discovered list (state.go:261): with a CPU offline (`CpuInfos` with
  `<<0, 2>>`) `PreparedIds` fails or the process panics at each start. A claim
  that a failing call left among the prepared ones keeps its first CPUs.
* `PluginProcess`: a worker that saw the status `Ready` before the plugin ended or
  crashed stores its claim under `NotReady`, after the new process has read the NAS; the
  `Update` of the start (driver.go:63) overwrites it and the allocation is lost
  (`late`). If it stores after that `Update`, the second status of the start is refused
  for a conflict and the process starts over.
* `PluginProcess`, two claims: a worker reads the NAS for claim 2 while claim 1 is
  prepared; claim 1 is unprepared and the worker's write brings it back among the prepared
  ones; claim 1 is released and allocated other CPUs, prepared anew, and
  a worker that read before that stores the old CPUs once more. Until the plugin stores its
  prepared claims again the NAS has CPUs for claim 1 that its containers do not use, and
  a process that starts meanwhile keeps them (`revived`).
* A NAS that is deleted with its Node while the plugin is up is missing until the
  plugin's next start; every call fails meanwhile. A NAS is created empty (`CreatedEmpty`),
  but what the deleted one recorded may come back into it: whoever has read the
  deleted NAS and stores later finds the new one by its name, and `Client.Update` (client.go:90-98)
  fills it with the old spec. A start between `UpdateGet` and `Update` does so, a
  worker of the controller, and a call of the plugin.
* `AllocatedUtilToCpu` is filled from the allocatable CPUs once: when a restarted
  plugin discovers other CPUs, the controller keeps to the old ones.

## 6. Proofs

Each theorem holds for every value of the constants that meets the named
assumptions of the module and of those it extends: for the controller finitely
many claims, positive counts and periods, and a pod that names a claim once; for
the plugins the sets of section 3; for `SharedMemory` and `PluginProcess` that
`None` is not one of the values it stands beside. A theorem with a further
hypothesis states it. The inductive invariants were checked by TLC on the
instances of section 4 before they were proved.

**Controller** (hypotheses only where named; every fault otherwise).

* `TypeCorrect`: `TypeOK`, which is not inductive: that `job[w].node` is a node and not `None`, where it is used as an index,
  depends on the worker's place in the code. `TypeInv` adds `Shape`, which says
  so for each place. One lemma per group of actions, one step per action.
* `UtilisationConserved`: `UtilConserved`. The
  invariant `LedgerInv` says the same of each worker's copy of the spec, because
  the copy is stored some steps later, and that a claim about to be added is not
  in the copy. Neither the mutexes nor the resource versions are used: a stale
  copy loses an update but is a consistent ledger.
* `UtilSums`: what `Load` returns for a set with one more or one less claim. A
  recursive function over sets cannot be unfolded by induction with the provers
  at hand, so `Load[S]` is shown equal to the number of elements of a set of
  units built from S, for which the library has theorems.
* `LockInvariant`, `CopyInvariant` and `NoUpdateLost`. `NoLostUpdate` compares what
  a worker is about to write with the NAS of that moment. `LockInv` says
  between which places of the code a worker holds its node's mutex; `CopyInv` that
  a copy held at those places is the spec in the API server but for the one claim
  the worker adds or removes, an earlier attempt of which may have
  been stored with its answer lost. Every other worker that could write
  would have to hold the mutex.
* `AllocationsKept`: `AllocationKept`, an action property. `StatusInv` says that a
  current copy of a claim a worker is to allocate is one of an unallocated claim
  (`FreshInv`), and that a claim being deallocated stays where its worker found
  it, with its finalizer and unwanted, and has no second worker (`DeallocInv`).
* `NeverOvercommitted`: `NoOvercommit`, on any number of CPUs and claims. What is
  recorded fits because it was promised, and what is promised was placed on a view
  of the node (the NAS and the pending claims visited so far). `BudgetInv` carries
  this from place to place: the view of a worker covers all that is recorded, and
  promised as far as visited (`Seen`); and if it stored its copy and promised
  what it has planned, every CPU would stay below the threshold (`Budget`).
  `UtilConserved` and `CopyInv` are used in it.
* `LedgerImplemented`: `ImplementsLedger`. By `CopyInv` the write of a whole spec is
  `Enter` or `Leave` of one claim in the current ledger, or no change; by
  `BudgetInv` there is room for what enters.
* `StatusIsBacked`: `StatusBacked`. `BackedInv` adds `Recorded`, that a worker
  on its way to write a status has stored the claim at the selected node (or at a node the copy
  of the claim names), and `AtSelected`, that it works on the selected node
  only. Hence a stale copy of the claim stops the write, or the entry is there.
* `ReservationsKept` and `FullyAllocatedAlways`: `PromiseKept` and `FullyAllocated`,
  if no two pods share a claim (`Own`) and `"api" \notin Faults`; crashes
  and changes of the NAS's status are allowed. Both hypotheses are needed: section 5 has
  the run `nilentry` for shared claims, and lost answers with two nodes. `PodInv`
  says that one worker at a time is about the claims of a pod and where it is in its
  loop over them; `PromiseInv` which of them are recorded or promised at that place
  (`Entered`, `Full`), and that a promise on whose existence a
  worker relies (`Relies`, `Owed`) stands until it is taken (`Promised`).
* `WholeInvariant` and `FullyAllocatedAlone`: `FullyAllocated` with shared claims and every
  fault, if there is one node or one worker (`Alone`). What can go wrong is
  that a reservation is dropped between `Exists` and `Get`. Whoever drops one is in
  the section of some node (`LockInv`), so with one node it is the worker
  itself, which does not between the two calls. `WholeInv` says of every spec, plan and
  reservation that it is whole, and that a worker past `Exists` still has what it found.
  Without `Alone` the same invariant says that a claim has all its CPUs or none.

**SharedMemory.**

* `MemoryTypeCorrect`, `SectionsExclusive`, `ReadersUndisturbed`: `MemoryTypeOK`,
  `NodeExclusive` and `ReadsUndisturbed`, from the one invariant `MemoryInv`. `RWInv`: the
  read locks of a worker are those its place in the code implies,
  nested ones included, who waits does so at such a place, and the writer that writes has no readers beside it. `MutexInv`:
  the outer mutex is held at the places of `Get`, a mutex that anyone has in
  hand is the one in the map, and who is in a node's section holds it. That
  the map's entry, once made, is never replaced is what two first visitors of a node could break.
* `MutexImplemented`: `ImplementsMutex`; each step of `SharedMemory` is a step of
  `NodeMutex` under the mapping of section 3, or none.

**KubeletNode**, with the controller's worker at any step and any number of claims that pods use.

* `NodeTypeCorrect`: `NodeTypeOK`, with every fault. `NodeTypeInv` adds that a
  call in progress has a claim, and `tries < MaxRetries` before each attempt:
  without the latter `UpdateError` could count beyond `MaxRetries`.
* `PreparedIsKnown`: `PreparedKnown` for any number
  of concurrent handlers, if `SharedClaims = {}` and `Faults \subseteq {"api"}`.
  Both hypotheses are needed: with a shared claim a failing call unprepares what
  another one has prepared; with a crash the plugin starts from a NAS that lacks a
  claim (section 5, two handlers). The property says nothing of calls in progress, so
  `ServingInv` adds what each of them means: a call that prepares is for a claim
  the kubelet does not know yet, one that unprepares for a claim it gives up
  (`Serves`), and two calls of one plugin are about different claims (`Apart`).
  Hence a failing call takes only its own claim from the prepared ones, and the
  kubelet was not told of that one. `copy`, `nas` and `nasFresh` do not occur in
  it: races on the shared copy cannot harm the plugin's memory.
* `PreparedIsStored` and `PreparedIsKnownAgain`: `PreparedStored` and, once more,
  `PreparedKnown`, with every fault and shared claims, if a plugin handles one call
  at a time (`OneCall`; section 5 says what two do). `StoredInv` follows the claims in
  use along the places they are copied to: the NAS, the
  process's copy from the moment it has read the NAS, its memory from the moment
  it has loaded them (`NodeStored`), and the spec a call carries (`CallStored`), each but
  for the claims in `dropped`. A claim leaves `dropped` only when it is in all of
  them (`InPlace`) and no other call is in progress. A call that is
  killed after its write leaves more in the NAS than the kubelet was told of, never less.

**PluginProcess.**

* `ProcessTypeCorrect`: `ProcessTypeOK`.
* `NewIsEmpty`, `StatusLeavesSpec`: `CreatedEmpty` and `StatusKeepsSpec`,
  both action properties, with every fault. `CopiesInv`: a copy without a version is that of a new
  object and empty, and one with the object's version has its spec, except
  in `Update`, which takes only the version. So what a request finds current it may
  write, and what `Create` writes is empty although the process had the deleted NAS in hand.
* `SyncIsNotReady`, `StartTakesNothing`, `ReadyIsPublished`: `SyncsNotReady`,
  `StartKeepsAllocations` and `ReadyPublishes`,
  if `Statuses \subseteq {FALSE}`: the chart calls set-nas-status with `NotReady` only,
  and a NAS that another program calls ready in the middle of a start
  would be allocated from before it is synchronised. `StartInv` says that between the two
  statuses of a start the NAS is not ready; that an allocation that is in the NAS and not
  in the plugin's copy is one a worker was about to make when the status was set, as
  no section that writes one is opened later (`KeptInv`); and that a copy which is
  still current after `Update` has what the process has synchronised.
* `IdsStay`: `PreparedIds`, if all CPUs are online (`Online`: the list of CPUs has no
  gaps; with `<<0, 2>>` it fails, section 5). `KnownInv` says that the CPUs of a claim in use
  and not `revived` are the same in the NAS, in the copy of a start and in memory, through
  any number of crashes.

**DraSystem.**

* `SystemLedgerInvariant` and `SystemUtilisationConserved`: `UtilConserved`, with every
  fault of the controller and the plugins' crashes and failing requests, any
  number of nodes and with shared claims, if a plugin handles one call at a
  time and `"stop" \notin ProcessFaults` (`Deployed`; section 5 says how the
  property fails without either). The controller does not see the plugins'
  writes coming, nor they its own: the spec a plugin stores is one it
  read some time before, with its prepared claims changed. So
  `PluginInv` says that what a call or a process is about to store
  is `Consistent`: the plugin's copy always, except between the
  two parts of an assignment (`Torn`), when it is made of the halves of two
  ledgers and only the one call that assigns it is in progress (`CopyHolds`, `CallHolds`).
  Beside it stand `TypeInv` and `LedgerInv` of `Controller`, for which the steps of the
  workers are shown to be those of `Controller` (`WorkerSame`) and its lemmas are
  cited; a write of the plugins preserves them as it stores a consistent spec.

* `SystemRecordInvariant` and `PreparedStaysAllocated`: `PreparedAllocated`, under
  `Deployed` alone: any nodes and workers, shared claims, failing requests and lost answers,
  crashes of both programs. Either program may overwrite the
  other's write with what it read earlier, so the question is which stale specs are
  about. `RecordInv` answers it for a claim `c` and a node `n`. While
  `c` is settled there (`Settled`: its status says so, or a worker that has found
  or stored it may still set the status, `Granted`) and not in the NAS, no copy of the
  plugin has it: it was lost for good and cannot come back, hence it cannot
  be prepared with CPUs that others were promised meanwhile. While it is settled and in the NAS,
  it is in every copy a worker is to store; by the node's mutex and
  `StatusInv` nobody else is about to take it off. While it is held (`Held`:
  prepared, or being prepared with a device the copy has named), it is in the NAS, the
  plugin's copy and what its call stores. A call that names a
  device has found the claim in the copy, so by the first part it is in the NAS. `UseInv` is the scheduler's
  share: what is in use stays reserved, and a reserved claim is not deallocated.
  `DeviceInv` ties the spec a call stores to the copy it was made from.
* `SystemWholeInvariant`, `AllocatedWholly`, `SystemFullyAllocated`: what the plugins copy and
  store is whole as well (`PluginWhole`), the two halves of a torn copy included, as claims and
  their CPUs are one map and assigned together. So a recorded claim has all its CPUs or
  none (`AllocatedWholly`), and with `Alone` it has them (`FullyAllocated`). Section 5
  says how it fails with two nodes and two workers.

**Only model-checked:** the liveness
properties (`Released`, `WorkersReturn`, `PrepareSucceeds`, `UnprepareSucceeds`,
`CallsReturn`, `ComesUp`), as ENABLED and fairness are out of the prover's reach. The choice of
CPUs in `WorstFit` is used in the proofs by its definition; that it is what the
loop of `cpuPartitioning` computes rests on reading it.

## 7. Not modelled

* The policies `bestFit` and default of `cpuPartitioning`, `PerCoreMutex`,
  `Visit`, `RemoveNode`, `SetAllocations`, `Delete`, the cgroup files, the claim
  spec files of CDI (cdi.go:137): no caller.
* The values of `PerNodeAllocatedClaims.utilisation`: written and never read for a
  decision; `SharedMemory` has its keys and its locks.
* `GetClassParameters`, `GetClaimParameters`: they read; the result is `Request`.
  A pod whose parameters are missing or invalid is not synced, before anything is written.
* A `Period` of 0 (division by zero in `rtdriver.allocate`), assumed away.
* In `Controller`, `KubeletPlugin` and `DraSystem`: `allocatable`, as the CPUs of
  a node do not change there, and their base utilisation, which discovery sets to
  0, is 0; the deletion and creation of NAS objects (`PluginProcess` has both).
* Immediate allocation: the driver refuses it.
* In the plugin: the assignment to the copy by `Shutdown` is one step, although
  handlers that `Stop` left behind may assign at the same time; requests for
  several claims are one call after the other; the utilisation stored with a
  prepared claim, which nothing reads; two overlapping instances of a node's
  plugin during an update.
* In `PluginProcess`: errors of the file system other than those of `CdiRoots`; a
  cache of the CDI registry that refreshes itself.
* The controller's start beyond its empty memory, option parsing, logging,
  construction of clients, generated deep copies and the verbs of the clientset
  that have no caller.
