--------------------------- MODULE PluginProcess ---------------------------
(***************************************************************************)
(* The life of a kubelet plugin process on one node, and the set-nas-status *)
(* command that runs beside it (an init container, a preStop hook): how    *)
(* both find, create, write and lose the node's NodeAllocationState, which *)
(* Kubernetes deletes with the Node object that owns it.  The calls of the *)
(* kubelet, which module KubeletPlugin takes apart, are single steps here; *)
(* of the controller there is one worker, which holds the node's mutex and *)
(* stores the whole spec it has read some time before.  In return the      *)
(* object may be absent, and CPUs have the IDs that /proc/cpuinfo lists.   *)
(***************************************************************************)
EXTENDS Integers, FiniteSets, Sequences

CONSTANTS
    Claims,
    Count,      \* the CPUs a claim asks for
    CpuInfos,   \* the lists of CPU IDs cpu.Info may return, <<>> for an error
    Statuses,   \* what set-nas-status is called with: TRUE for Ready
    None

VARIABLES
    object,     \* the NodeAllocationState in the API server
    node,       \* whether the Node object exists
    copy,       \* Config.nascr: the copy of each client, its version apart
    version,    \* the resourceVersion of a copy: none, the object's, or an older one
    pc,         \* where each client is
    cdiRoot,    \* the directory for CDI files, see CdiRoots
    cpus,       \* DeviceState.allocatable, by ID
    prepared,   \* DeviceState.prepared: the CPUs of each claim
    given,      \* the CPUs of the claims the kubelet was told are prepared
    section,    \* the controller's worker: its claim and the spec it is about to
                \* store, None if no worker holds the node's mutex
    calm,       \* nothing goes wrong any more
    late,       \* two history variables, read by properties only: of the start of
    revived     \* a plugin, see Changing, and of the kubelet's claims, see Revived

vars == <<object, node, copy, version, pc, cdiRoot, cpus, prepared, given, section, calm,
          late, revived>>
stateVars == <<cpus, prepared, late>>
outside == <<node, cdiRoot, given, section, calm, revived>>

Clients == {"plugin", "set-nas-status"}

Ids == UNION {{info[i] : i \in DOMAIN info} : info \in CpuInfos}

ASSUME CpuInfosAssumption == CpuInfos \subseteq Seq(Nat)
ASSUME StatusesAssumption == Statuses \subseteq BOOLEAN

\* No directory yet, something else, a directory without and with the file of the
\* common device, or one with a file that the CDI library cannot read.
CdiRoots == {"absent", "file", "empty", "common", "unreadable"}

\* The CPUs of DeviceState, which the process knows by ID.
AllocatableRtCpus == SUBSET Ids
PreparedClaims == [Claims -> SUBSET Ids]

\* spec.AllocatedClaims and spec.PreparedClaims map a claim to CPUs, {} for no
\* entry; util holds the keys of spec.AllocatedUtilToCpu, {} for a nil map.
SpecType ==
    [allocatable : SUBSET Ids, util : SUBSET Ids,
     allocated : [Claims -> SUBSET Ids], prepared : PreparedClaims]

\* owned: the owner reference names the node that exists.
ObjectType == [owned : BOOLEAN, ready : BOOLEAN, spec : SpecType]

ASSUME NoObjectAssumption == None \notin ObjectType

SectionType == [claim : Claims, spec : SpecType]

ASSUME NoSectionAssumption == None \notin SectionType

NoClaims == [c \in Claims |-> {}]
EmptySpec == [allocatable |-> {}, util |-> {}, allocated |-> NoClaims, prepared |-> NoClaims]

\* NewNodeAllocationState; the empty status is not "Ready".
NewObject == [owned |-> TRUE, ready |-> FALSE, spec |-> EmptySpec]

StartPCs == {"load", "updateGet", "updatePut", "ready", "register"}
PCs == {"down", "get", "create", "notReady", "up", "stopGet", "stopPut", "done"} \cup StartPCs

ProcessTypeOK ==
    /\ object \in ObjectType \cup {None}
    /\ node \in BOOLEAN
    /\ copy \in [Clients -> ObjectType]
    /\ version \in [Clients -> {"none", "old", "current"}]
    /\ pc \in [Clients -> PCs]
    /\ pc["set-nas-status"] \in {"down", "get", "create", "notReady", "done"}
    /\ cdiRoot \in CdiRoots
    /\ cpus \in AllocatableRtCpus
    /\ prepared \in PreparedClaims
    /\ given \in PreparedClaims
    /\ section \in SectionType \cup {None}
    /\ calm \in BOOLEAN
    /\ late \subseteq Claims
    /\ revived \subseteq Claims

Init ==
    /\ object = None
    /\ node = TRUE
    /\ copy = [k \in Clients |-> NewObject]
    /\ version = [k \in Clients |-> "none"]
    /\ pc = [k \in Clients |-> "down"]
    /\ cdiRoot \in CdiRoots \ {"common"}
    /\ cpus = {}
    /\ prepared = NoClaims
    /\ given = NoClaims
    /\ section = None
    /\ calm = FALSE
    /\ late = {}
    /\ revived = {}

Goto(k, to) == pc' = [pc EXCEPT ![k] = to]

\* The process is gone with what it had in memory.
Loses(k) ==
    /\ Goto(k, "down")
    /\ copy' = [copy EXCEPT ![k] = NewObject]
    /\ version' = [version EXCEPT ![k] = "none"]
    /\ IF k = "plugin" THEN cpus' = {} /\ prepared' = NoClaims /\ late' = {}
       ELSE UNCHANGED stateVars

Ends(k) == Loses(k) /\ UNCHANGED <<object, outside>>

Outdated == [k \in Clients |-> IF version[k] = "current" THEN "old" ELSE version[k]]

\* The plugin may still store the spec of an object that is older than the newest one;
\* set-nas-status has no use for such a copy but to be refused, and what is in it
\* is left out.
Superseded ==
    [copy EXCEPT !["set-nas-status"] =
        IF version["set-nas-status"] = "current" THEN NewObject ELSE @]

\* Client k stores an object and keeps the answer.
Stores(k, new) ==
    /\ object' = new
    /\ copy' = [Superseded EXCEPT ![k] = new]
    /\ version' = [Outdated EXCEPT ![k] = "current"]

----------------------------------------------------------------------------
(***************************************************************************)
(* Both processes: GetOrCreate, then UpdateStatus("NotReady").             *)
(***************************************************************************)

\* The node is looked up for the owner reference.
Begin(k) ==
    /\ pc[k] = "down" /\ node
    /\ Goto(k, "get")
    /\ UNCHANGED <<object, node, copy, version, stateVars, given, section, calm, revived>>

SetNasStatus == Begin("set-nas-status") /\ UNCHANGED cdiRoot

\* The plugin makes its directories first.
StartPlugin ==
    /\ cdiRoot # "file"
    /\ Begin("plugin")
    /\ cdiRoot' = IF cdiRoot = "absent" THEN "empty" ELSE cdiRoot

\* Mutant of GetOrCreate: what follows is NewDeviceState, not the first status.
GetOrCreateOnly(k) ==
    /\ pc[k] = "get"
    /\ IF object = None THEN Goto(k, "create") /\ UNCHANGED <<copy, version>>
       ELSE /\ copy' = [copy EXCEPT ![k] = object]
            /\ version' = [version EXCEPT ![k] = "current"]
            /\ Goto(k, "load")
    /\ UNCHANGED <<object, stateVars, outside>>

\* Mutant of GetOrCreate: an object that is not there is an error.
GetOnly(k) ==
    /\ pc[k] = "get"
    /\ IF object = None THEN Ends(k)
       ELSE /\ copy' = [copy EXCEPT ![k] = object]
            /\ version' = [version EXCEPT ![k] = "current"]
            /\ Goto(k, "notReady")
            /\ UNCHANGED <<object, stateVars, outside>>

GetOrCreate(k) ==
    /\ pc[k] = "get"
    /\ IF object = None THEN Goto(k, "create") /\ UNCHANGED <<copy, version>>
       ELSE /\ copy' = [copy EXCEPT ![k] = object]
            /\ version' = [version EXCEPT ![k] = "current"]
            /\ Goto(k, "notReady")
    /\ UNCHANGED <<object, stateVars, outside>>

\* Mutant of Create: the copy's version is cleared first.
CreateAnyVersion(k) ==
    /\ pc[k] = "create" /\ object = None
    /\ Stores(k, copy[k])
    /\ Goto(k, "notReady")
    /\ UNCHANGED <<stateVars, outside>>

\* The API server takes no new object that has a version.
Create(k) ==
    /\ pc[k] = "create" /\ object = None /\ version[k] = "none"
    /\ Stores(k, copy[k])
    /\ Goto(k, "notReady")
    /\ UNCHANGED <<stateVars, outside>>

\* AlreadyExists, or an error for the version: neither is a conflict.
CreateFails(k) ==
    /\ pc[k] = "create"
    /\ object # None \/ version[k] # "none"
    /\ Ends(k)

\* The claims whose allocation the worker is about to change.
Changing ==
    {c \in Claims : section # None /\ section.spec.allocated[c] # object.spec.allocated[c]}

\* Mutant of UpdateStatus: the latest version is read first, as in Update.
UpdateStatusLatest(k, from, ready, to) ==
    /\ pc[k] = from /\ object # None
    /\ Stores(k, [copy[k] EXCEPT !.ready = ready])
    /\ Goto(k, to)
    /\ late' = IF to = "load" THEN Changing ELSE late
    /\ UNCHANGED <<cpus, prepared, outside>>

\* The copy with a new status replaces the object it is a copy of.
UpdateStatus(k, from, ready, to) ==
    /\ pc[k] = from /\ object # None /\ version[k] = "current"
    /\ Stores(k, [copy[k] EXCEPT !.ready = ready])
    /\ Goto(k, to)
    /\ late' = IF to = "load" THEN Changing ELSE late
    /\ UNCHANGED <<cpus, prepared, outside>>

\* Mutant of Conflict: the error of the first UpdateStatus is overwritten.
ConflictUnnoticed(k) ==
    /\ object # None /\ version[k] # "current"
    /\ pc[k] = "notReady" /\ k = "plugin"
    /\ Goto(k, "load")
    /\ UNCHANGED <<object, copy, version, stateVars, outside>>

\* Mutant of Conflict: the last UpdateStatus is tried again with what a Get finds, as
\* Shutdown does.
ConflictGetsAgain(k) ==
    /\ object # None /\ version[k] # "current"
    /\ pc[k] \in {"notReady", "updatePut", "ready", "stopPut"}
    /\ IF pc[k] = "ready"
         THEN /\ copy' = [copy EXCEPT ![k] = object]
              /\ version' = [version EXCEPT ![k] = "current"]
              /\ UNCHANGED pc
         ELSE /\ Goto(k, CASE pc[k] = "notReady" -> "get"
                            [] pc[k] = "updatePut" -> "updateGet"
                            [] pc[k] = "stopPut" -> "stopGet")
              /\ UNCHANGED <<copy, version>>
    /\ UNCHANGED <<object, stateVars, outside>>

\* RetryOnConflict starts over, and Update reads again.  After some attempts
\* (their number is left open) the process ends.
Conflict(k) ==
    /\ object # None /\ version[k] # "current"
    /\ pc[k] \in {"notReady", "updatePut", "ready", "stopPut"}
    /\ \/ /\ Goto(k, CASE pc[k] \in {"notReady", "ready"} -> "get"
                       [] pc[k] = "updatePut" -> "updateGet"
                       [] pc[k] = "stopPut" -> "stopGet")
          /\ UNCHANGED <<object, copy, version, stateVars, outside>>
       \/ Ends(k)

\* NotFound.
Lost(k) ==
    /\ object = None
    /\ pc[k] \in {"notReady", "updateGet", "updatePut", "ready", "stopGet", "stopPut"}
    /\ Ends(k)

Exit(k) == pc[k] = "done" /\ Ends(k)

\* A request fails for another reason, plugin.Start fails, the process is killed.
Dies(k) == pc[k] # "down" /\ Ends(k)

----------------------------------------------------------------------------
(***************************************************************************)
(* The plugin's start: NewDeviceState, Update, Ready, registration.        *)
(***************************************************************************)
\* enumerateCpusets: the CPU at position d of the list, counted from 0.
Positions(info) == 0 .. Len(info) - 1
IdAt(info, d) == info[d + 1]

\* Mutant of PreparedFrom: CPUs are looked up in the order they were listed in.
PreparedFromReversed(spec, info) ==
    [c \in Claims |-> {IdAt(info, Len(info) - 1 - d) : d \in spec.prepared[c]}]

\* The prepared CPUs, whose IDs are taken for positions.
PreparedFrom(spec, info) ==
    [c \in Claims |-> {IdAt(info, d) : d \in spec.prepared[c]}]

\* A registry refuses to start with a file it cannot read.
NewCDIHandler == cdiRoot # "unreadable"

CreateCommonSpecFile == cdiRoot' = "common"

NewDeviceState(info) ==
    /\ pc["plugin"] = "load" /\ NewCDIHandler
    /\ CreateCommonSpecFile
    /\ \A c \in Claims : copy["plugin"].spec.prepared[c] \subseteq Positions(info)
    /\ cpus' = {info[i] : i \in DOMAIN info}
    /\ prepared' = PreparedFrom(copy["plugin"].spec, info)
    /\ Goto("plugin", "updateGet")
    /\ UNCHANGED <<object, node, copy, version, given, section, calm, late, revived>>

\* A prepared CPU is not among the positions: the process dereferences nil.
NewDeviceStatePanics(info) ==
    /\ pc["plugin"] = "load" /\ NewCDIHandler
    /\ \E c \in Claims : ~(copy["plugin"].spec.prepared[c] \subseteq Positions(info))
    /\ CreateCommonSpecFile
    /\ Loses("plugin")
    /\ UNCHANGED <<object, node, given, section, calm, revived>>

NewDeviceStateFails ==
    /\ pc["plugin"] = "load" /\ ~NewCDIHandler
    /\ Ends("plugin")

\* A spec with the CPUs and the prepared claims of the process.
Synced(spec, claims) == [spec EXCEPT !.allocatable = cpus, !.prepared = claims]

UpdateGet ==
    /\ pc["plugin"] = "updateGet" /\ object # None
    /\ version' = [version EXCEPT !["plugin"] = "current"]
    /\ Goto("plugin", "updatePut")
    /\ UNCHANGED <<object, copy, stateVars, outside>>

\* The spec of the copy, older than the version it is stored over.
Update ==
    /\ pc["plugin"] = "updatePut" /\ object # None /\ version["plugin"] = "current"
    /\ Stores("plugin", [object EXCEPT !.spec = Synced(copy["plugin"].spec, prepared)])
    /\ Goto("plugin", "ready")
    /\ late' = {}
    /\ UNCHANGED <<cpus, prepared, outside>>

\* plugin.Start: from now on the kubelet calls.
Register ==
    /\ pc["plugin"] = "register"
    /\ Goto("plugin", "up")
    /\ UNCHANGED <<object, copy, version, stateVars, outside>>

----------------------------------------------------------------------------
(***************************************************************************)
(* The kubelet's calls and the plugin's end.                               *)
(***************************************************************************)

\* prepareRtCpus takes the allocated IDs as they are; a prepared claim keeps its own.
PreparedRtCpus(c) == IF prepared[c] # {} THEN prepared[c] ELSE object.spec.allocated[c]

\* A claim has a status, and a pod that uses it, when no worker is about it.
InSection(c) == section # None /\ section.claim = c

\* The claim is prepared; a copy that did not have it leaves it without a device.
Prepare(c) ==
    LET ids == PreparedRtCpus(c)
        named == copy["plugin"].spec.allocated[c] # {}
    IN
    /\ pc["plugin"] = "up" /\ given[c] = {}
    /\ object # None /\ object.spec.allocated[c] # {} /\ ~InSection(c)
    /\ prepared' = [prepared EXCEPT ![c] = ids]
    /\ IF named
         THEN /\ Stores("plugin", [object EXCEPT !.spec = Synced(@, prepared')])
              /\ given' = [given EXCEPT ![c] = ids]
              /\ revived' = revived \ {c}
         ELSE /\ copy' = [copy EXCEPT !["plugin"] = object]
              /\ version' = [version EXCEPT !["plugin"] = "current"]
              /\ UNCHANGED <<object, given, revived>>
    /\ UNCHANGED <<node, pc, cdiRoot, cpus, section, calm, late>>

Unprepare(c) ==
    /\ pc["plugin"] = "up" /\ given[c] # {}
    /\ object # None
    /\ prepared' = [prepared EXCEPT ![c] = {}]
    /\ Stores("plugin", [object EXCEPT !.spec = Synced(@, prepared')])
    /\ given' = [given EXCEPT ![c] = {}]
    /\ revived' = revived \ {c}
    /\ UNCHANGED <<node, pc, cdiRoot, cpus, section, calm, late>>

\* SIGTERM; then Shutdown.
Stop ==
    /\ pc["plugin"] = "up"
    /\ Goto("plugin", "stopGet")
    /\ UNCHANGED <<object, copy, version, stateVars, outside>>

ShutdownGet ==
    /\ pc["plugin"] = "stopGet" /\ object # None
    /\ copy' = [copy EXCEPT !["plugin"] = object]
    /\ version' = [version EXCEPT !["plugin"] = "current"]
    /\ Goto("plugin", "stopPut")
    /\ UNCHANGED <<object, stateVars, outside>>

----------------------------------------------------------------------------
(***************************************************************************)
(* The rest of the cluster.                                                *)
(***************************************************************************)

\* A worker of the controller has the node's mutex until it has stored what it has
\* made of the spec it has read.
Enter(c, spec) ==
    /\ section = None
    /\ section' = [claim |-> c, spec |-> spec]
    /\ UNCHANGED <<object, node, copy, version, pc, cdiRoot, stateVars, given, calm, revived>>

\* Mutant of Allocate: the status is not looked at.
AllocateNotReady(c) ==
    /\ object # None
    /\ object.spec.allocated[c] = {} /\ given[c] = {}
    /\ LET util == IF object.spec.util = {} THEN object.spec.allocatable ELSE object.spec.util
       IN  \E S \in SUBSET util :
              /\ Cardinality(S) = Count
              /\ Enter(c, [object.spec EXCEPT !.util = util, !.allocated[c] = S])

\* CPUs are chosen among those with a utilisation; a nil map is first filled
\* from the allocatable CPUs.
Allocate(c) ==
    /\ object # None /\ object.ready
    /\ object.spec.allocated[c] = {} /\ given[c] = {}
    /\ LET util == IF object.spec.util = {} THEN object.spec.allocatable ELSE object.spec.util
       IN  \E S \in SUBSET util :
              /\ Cardinality(S) = Count
              /\ Enter(c, [object.spec EXCEPT !.util = util, !.allocated[c] = S])

\* A claim is released once no pod uses it, in a NAS of any status.
Deallocate(c) ==
    /\ object # None
    /\ object.spec.allocated[c] # {} /\ given[c] = {}
    /\ Enter(c, [object.spec EXCEPT !.allocated[c] = {}])

\* The claims that the worker records as prepared with CPUs the kubelet was not told.
Revived == {c \in Claims : section.spec.prepared[c] \notin {{}, given[c]}}

\* Client.Update replaces the spec of the object it finds, whatever its status is by
\* then, and keeps the rest.  When the answer is lost it does so again.
ControllerStores ==
    /\ section # None /\ object # None
    /\ object' = [object EXCEPT !.spec = section.spec]
    /\ version' = Outdated
    /\ section' = None \/ (~calm /\ UNCHANGED section)
    /\ copy' = Superseded
    /\ revived' = revived \cup Revived
    /\ UNCHANGED <<pc, stateVars, node, cdiRoot, given, calm>>

\* All attempts have failed, there is no NAS, or the controller has ended.
ControllerGivesUp ==
    /\ section # None
    /\ section' = None
    /\ UNCHANGED <<object, node, copy, version, pc, cdiRoot, stateVars, given, calm, revived>>

\* The Node object is deleted, and maybe registered anew: what named it as an
\* owner has none.
DeleteNode ==
    /\ node
    /\ node' = FALSE
    /\ object' = IF object = None THEN None ELSE [object EXCEPT !.owned = FALSE]
    /\ copy' = [k \in Clients |-> [copy[k] EXCEPT !.owned = (pc[k] = "down")]]
    /\ UNCHANGED <<version, pc, cdiRoot, stateVars, given, section, calm, revived>>

RegisterNode ==
    /\ ~node
    /\ node' = TRUE
    /\ UNCHANGED <<object, copy, version, pc, cdiRoot, stateVars, given, section, calm, revived>>

\* The garbage collector.
Collect ==
    /\ object # None /\ ~object.owned
    /\ object' = None
    /\ version' = Outdated
    /\ copy' = Superseded
    /\ UNCHANGED <<pc, stateVars, outside>>

\* Somebody removes the file that cannot be read.
RepairCdiRoot ==
    /\ cdiRoot = "unreadable"
    /\ cdiRoot' = "empty"
    /\ UNCHANGED <<object, node, copy, version, pc, stateVars, given, section, calm, revived>>

----------------------------------------------------------------------------
Requests(k) ==
    \/ GetOrCreate(k) \/ Create(k) \/ CreateFails(k) \/ Conflict(k) \/ Lost(k) \/ Exit(k)

Controls ==
    \/ \E c \in Claims : Allocate(c) \/ Deallocate(c)
    \/ ControllerStores \/ ControllerGivesUp

\* Discovery may fail until then.
Discovers(info) ==
    /\ calm => info # <<>>
    /\ NewDeviceState(info) \/ NewDeviceStatePanics(info)

Runs ==
    \/ StartPlugin \/ Requests("plugin") \/ UpdateStatus("plugin", "notReady", FALSE, "load")
    \/ \E info \in CpuInfos : Discovers(info)
    \/ NewDeviceStateFails
    \/ UpdateGet \/ Update \/ UpdateStatus("plugin", "ready", TRUE, "register") \/ Register
    \/ ShutdownGet \/ UpdateStatus("plugin", "stopPut", FALSE, "done")

\* What may go wrong, or be done by people and Kubernetes.
Disturbs ==
    \/ \E k \in Clients : Dies(k)
    \/ Stop
    \/ SetNasStatus
    \/ RepairCdiRoot
    \/ DeleteNode \/ RegisterNode \/ Collect

\* It ends at some time, with the node there.
Calm ==
    /\ node /\ ~calm
    /\ calm' = TRUE
    /\ UNCHANGED <<object, node, copy, version, pc, cdiRoot, stateVars, given, section, revived>>

Next ==
    \/ Runs
    \/ Requests("set-nas-status")
    \/ \E ready \in Statuses : UpdateStatus("set-nas-status", "notReady", ready, "done")
    \/ ~calm /\ Disturbs
    \/ Calm
    \/ \E c \in Claims : Prepare(c) \/ Unprepare(c)
    \/ Controls

Spec == Init /\ [][Next]_vars

\* The process goes on, and Kubernetes starts a new one when it has ended.  It
\* does not lose every race for a status against a busy controller: the attempts of
\* RetryOnConflict are few, those of new processes are not.
FairSpec ==
    /\ Spec
    /\ WF_vars(Runs)
    /\ SF_vars(UpdateStatus("plugin", "notReady", FALSE, "load"))
    /\ SF_vars(UpdateStatus("plugin", "stopPut", FALSE, "done"))

----------------------------------------------------------------------------
(***************************************************************************)
(* Properties.                                                             *)
(***************************************************************************)

\* A plugin that synchronises its state does so under a NAS that is not ready,
\* whoever else writes the status.
SyncsNotReady ==
    object # None /\ object.ready => pc["plugin"] \notin {"load", "updateGet", "updatePut", "ready"}

\* A NAS becomes ready with the CPUs that the plugin's process has discovered and the
\* claims it knows as prepared, although a worker may store an older spec at any time.
ReadyPublishes ==
    [][object' # None /\ object'.ready /\ (object = None \/ ~object.ready) =>
          object'.spec = Synced(object'.spec, prepared)]_vars

\* A new process knows a prepared claim by the CPUs the former one prepared it
\* with, and so does the NAS; but for a claim for which a worker has stored what it
\* read before the claim was unprepared, released, allocated and prepared anew.
PreparedIds ==
    \A c \in Claims \ revived : given[c] # {} =>
       /\ pc["plugin"] = "up" => prepared[c] \in {{}, given[c]}
       /\ object # None => object.spec.prepared[c] \in {{}, given[c]}

\* A status is written with the rest of the object, and yet takes nothing back.
StatusKeepsSpec ==
    [][\A k \in Clients :
          pc[k] \in {"notReady", "ready", "stopPut"} /\ pc'[k] # pc[k] /\ object # None
             => object' # None /\ object'.spec = object.spec]_vars

\* A NAS is created empty, although the client that creates it may have a copy of one
\* that was deleted.  (What was recorded may come back later, with a spec that a
\* plugin or a worker has read before.)
CreatedEmpty ==
    [][object = None /\ object' # None => object'.spec = EmptySpec]_vars

\* The start of a plugin stores the spec it has read some time ago without a look at
\* the newest one.  No claim loses its allocation by that, but for one that a worker
\* was about to store, past its look at the status, when the NAS became not ready.
StartKeepsAllocations ==
    [][pc["plugin"] = "updatePut" /\ pc'["plugin"] = "ready" =>
          \A c \in Claims \ late : object.spec.allocated[c] # {}
             => object'.spec.allocated[c] = object.spec.allocated[c]]_vars

\* Once nothing goes wrong any more the plugin comes up, whatever state failures
\* and half-finished starts left behind.
ComesUp == calm /\ cdiRoot \notin {"file", "unreadable"} ~> pc["plugin"] = "up"
=============================================================================
