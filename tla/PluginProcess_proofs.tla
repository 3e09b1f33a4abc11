------------------------ MODULE PluginProcess_proofs ------------------------
(***************************************************************************)
(* The life of a plugin's process, for any number of claims and CPUs: what *)
(* its copy of the NAS is worth at each place of a start, an end and a     *)
(* retry, although set-nas-status, the controller and the garbage          *)
(* collector write and delete the object in between.                       *)
(***************************************************************************)
EXTENDS PluginProcess, TLAPS

\* A copy without a version is that of a new object.  One with the newest version
\* has the newest spec, except in Update, which asks for the version alone.
NewCopy(k) == version[k] = "none" => copy[k].spec = EmptySpec /\ ~copy[k].ready
CurrentCopy(k) ==
    version[k] = "current" /\ pc[k] # "updatePut"
      => object # None /\ copy[k].spec = object.spec

CopiesInv == \A k \in Clients : NewCopy(k) /\ CurrentCopy(k)

\* From the first status to the second one the NAS is not ready; the second one
\* is stored with the CPUs and the claims of the process.
NotYetReady == pc["plugin"] \in {"load", "updateGet", "updatePut", "ready"}
ReadyInv ==
    /\ object # None /\ object.ready => ~NotYetReady
    /\ pc["plugin"] = "ready" => copy["plugin"].spec = Synced(copy["plugin"].spec, prepared)

\* In a NAS that is not ready nothing is allocated but what a worker was about to store.
\* What else is recorded there, or is to be stored by a worker, is in the copy, as long
\* as that is the one to be stored.
Copied(allocated) ==
    \A c \in Claims \ late : allocated[c] \in {{}, copy["plugin"].spec.allocated[c]}
KeptInv ==
    pc["plugin"] \in {"load", "updateGet", "updatePut"} =>
       /\ object # None => Copied(object.spec.allocated)
       /\ section # None => Copied(section.spec.allocated)

StartInv == ReadyInv /\ KeptInv

\* Claims that the kubelet knows are recorded with the CPUs it was told, or not, but
\* for those that a worker has brought earlier CPUs back for.
Known(claims) == \A c \in Claims \ revived : given[c] # {} => claims[c] \in {{}, given[c]}

KnownInv ==
    /\ object # None => Known(object.spec.prepared)
    /\ Known(prepared)
    /\ pc["plugin"] = "load" => Known(copy["plugin"].spec.prepared)

\* The objects that the steps store or start with are of the type.
LEMMA ObjectTypes ==
    /\ NewObject \in ObjectType
    /\ \A o \in ObjectType, r \in BOOLEAN :
          /\ [o EXCEPT !.ready = r] \in ObjectType
          /\ [o EXCEPT !.owned = r] \in ObjectType
    /\ \A o \in ObjectType, s \in SpecType :
          [o EXCEPT !.spec = s] \in ObjectType
<1>1. EmptySpec \in SpecType
    BY DEF EmptySpec, SpecType, NoClaims, PreparedClaims
<1> QED BY <1>1 DEF NewObject, ObjectType

LEMMA SpecTypes ==
    ASSUME NEW s \in SpecType
    PROVE  /\ \A P \in PreparedClaims : cpus \in SUBSET Ids => Synced(s, P) \in SpecType
           /\ \A util \in SUBSET Ids, c \in Claims, S \in SUBSET Ids :
                 /\ [s EXCEPT !.util = util, !.allocated[c] = S] \in SpecType
                 /\ [s EXCEPT !.allocated[c] = S] \in SpecType
    BY DEF SpecType, Synced, PreparedClaims

LEMMA EndsType ==
    ASSUME ProcessTypeOK, NEW k \in Clients, Ends(k)
    PROVE  ProcessTypeOK'
    BY ObjectTypes DEF ProcessTypeOK, Ends, Loses, Goto, stateVars, outside, PCs, AllocatableRtCpus,
        PreparedClaims, NoClaims, Clients

\* What the clients have of an object that is replaced.
LEMMA OlderTypes ==
    ASSUME ProcessTypeOK
    PROVE  /\ Outdated \in [Clients -> {"none", "old", "current"}]
           /\ Superseded \in [Clients -> ObjectType]
           /\ Superseded["plugin"] = copy["plugin"]
<1>1. Outdated \in [Clients -> {"none", "old", "current"}]
    BY DEF Outdated, ProcessTypeOK
<1>2. Superseded \in [Clients -> ObjectType] /\ Superseded["plugin"] = copy["plugin"]
    BY ObjectTypes DEF Superseded, ProcessTypeOK, Clients
<1> QED BY <1>1, <1>2

\* A client stores an object of the type and goes on.
LEMMA StoresType ==
    ASSUME ProcessTypeOK, NEW k \in Clients, NEW new \in ObjectType, Stores(k, new),
           NEW to \in PCs, k = "set-nas-status" => to \in {"notReady", "done"},
           Goto(k, to), late' \subseteq Claims, UNCHANGED <<cpus, prepared, outside>>
    PROVE  ProcessTypeOK'
    BY OlderTypes DEF ProcessTypeOK, Stores, Goto, outside, Clients

LEMMA RequestsType ==
    ASSUME ProcessTypeOK, NEW k \in Clients, Requests(k)
    PROVE  ProcessTypeOK'
<1>1. CASE GetOrCreate(k)
    BY <1>1 DEF GetOrCreate, ProcessTypeOK, Goto, stateVars, outside, PCs, Clients
<1>2. CASE Create(k)
    BY <1>2, StoresType DEF Create, ProcessTypeOK, PCs, stateVars
<1>3. CASE CreateFails(k) \/ Lost(k) \/ Exit(k)
    BY <1>3, EndsType DEF CreateFails, Lost, Exit
<1>4. CASE Conflict(k)
  <2> DEFINE to == CASE pc[k] \in {"notReady", "ready"} -> "get"
                     [] pc[k] = "updatePut" -> "updateGet"
                     [] pc[k] = "stopPut" -> "stopGet"
  <2>1. pc[k] \in {"notReady", "updatePut", "ready", "stopPut"}
      BY <1>4 DEF Conflict
  <2>2. to \in PCs /\ (k = "set-nas-status" => to = "get")
      BY <2>1 DEF PCs, StartPCs, ProcessTypeOK
  <2>3. CASE Ends(k)
      BY <2>3, EndsType
  <2>4. CASE Goto(k, to) /\ UNCHANGED <<object, copy, version, stateVars, outside>>
      BY <2>2, <2>4 DEF Goto, ProcessTypeOK, stateVars, outside, Clients
  <2> QED BY <1>4, <2>3, <2>4 DEF Conflict
<1> QED BY <1>1, <1>2, <1>3, <1>4 DEF Requests

LEMMA StatusType ==
    ASSUME ProcessTypeOK, NEW k \in Clients, NEW ready \in BOOLEAN, NEW from, NEW to \in PCs,
           k = "set-nas-status" => to \in {"notReady", "done"},
           UpdateStatus(k, from, ready, to)
    PROVE  ProcessTypeOK'
<1>1. [copy[k] EXCEPT !.ready = ready] \in ObjectType
    BY ObjectTypes DEF ProcessTypeOK
<1>2. late' \subseteq Claims
    BY DEF UpdateStatus, Changing, ProcessTypeOK
<1> QED BY <1>1, <1>2, StoresType DEF UpdateStatus

\* The CPUs that prepared claims are found to have have been discovered.
LEMMA PreparedFromType ==
    ASSUME NEW info \in CpuInfos, NEW spec \in SpecType,
           \A c \in Claims : spec.prepared[c] \subseteq Positions(info)
    PROVE  /\ {info[i] : i \in DOMAIN info} \in SUBSET Ids
           /\ PreparedFrom(spec, info) \in PreparedClaims
<1>1. info \in Seq(Nat)
    BY CpuInfosAssumption
<1>2. {info[i] : i \in DOMAIN info} \in SUBSET Ids
    BY DEF Ids
<1>3. ASSUME NEW c \in Claims, NEW d \in spec.prepared[c]
      PROVE  IdAt(info, d) \in Ids
  <2>1. d + 1 \in DOMAIN info
      BY <1>1 DEF Positions
  <2> QED BY <1>2, <2>1 DEF IdAt
<1>4. \A c \in Claims : {IdAt(info, d) : d \in spec.prepared[c]} \in SUBSET Ids
    BY <1>3
<1> QED BY <1>2, <1>4 DEF PreparedFrom, PreparedClaims

LEMMA RunsType ==
    ASSUME ProcessTypeOK, Runs
    PROVE  ProcessTypeOK'
<1>1. "plugin" \in Clients
    BY DEF Clients
<1>2. CASE StartPlugin
    BY <1>2 DEF StartPlugin, Begin, ProcessTypeOK, Goto, stateVars, PCs, CdiRoots, Clients
<1>3. CASE Requests("plugin")
    BY <1>1, <1>3, RequestsType
<1>4. CASE \/ UpdateStatus("plugin", "notReady", FALSE, "load")
           \/ UpdateStatus("plugin", "ready", TRUE, "register")
           \/ UpdateStatus("plugin", "stopPut", FALSE, "done")
    BY <1>1, <1>4, StatusType DEF PCs, StartPCs
<1>5. ASSUME NEW info \in CpuInfos, NewDeviceState(info)
      PROVE  ProcessTypeOK'
  <2>1. copy["plugin"].spec \in SpecType
      BY <1>1 DEF ProcessTypeOK, ObjectType
  <2>2. cpus' \in SUBSET Ids /\ prepared' \in PreparedClaims
      BY <1>5, <2>1, PreparedFromType DEF NewDeviceState
  <2> QED BY <1>5, <2>2 DEF NewDeviceState, CreateCommonSpecFile, ProcessTypeOK, Goto, PCs, StartPCs,
             CdiRoots, AllocatableRtCpus, Clients
<1>6. ASSUME NEW info \in CpuInfos, NewDeviceStatePanics(info)
      PROVE  ProcessTypeOK'
    BY <1>1, <1>6, ObjectTypes DEF NewDeviceStatePanics, CreateCommonSpecFile, ProcessTypeOK, Loses, Goto,
       stateVars, PCs, CdiRoots, AllocatableRtCpus, PreparedClaims, NoClaims, Clients
<1>7. CASE NewDeviceStateFails
    BY <1>1, <1>7, EndsType DEF NewDeviceStateFails
<1>8. CASE UpdateGet
    BY <1>8 DEF UpdateGet, ProcessTypeOK, Goto, stateVars, outside, PCs, StartPCs, Clients
<1>9. CASE Update
  <2>1. object \in ObjectType /\ copy["plugin"].spec \in SpecType
      BY <1>1, <1>9 DEF Update, ProcessTypeOK, ObjectType
  <2>2. [object EXCEPT !.spec = Synced(copy["plugin"].spec, prepared)] \in ObjectType
      BY <2>1, ObjectTypes, SpecTypes DEF ProcessTypeOK, AllocatableRtCpus
  <2>3. late' \subseteq Claims
      BY <1>9 DEF Update
  <2> QED BY <1>1, <1>9, <2>2, <2>3, StoresType DEF Update, PCs, StartPCs
<1>10. CASE Register
    BY <1>10 DEF Register, ProcessTypeOK, Goto, stateVars, outside, PCs, Clients
<1>11. CASE ShutdownGet
    BY <1>11 DEF ShutdownGet, ProcessTypeOK, Goto, stateVars, outside, PCs, Clients
<1> QED BY <1>2, <1>3, <1>4, <1>5, <1>6, <1>7, <1>8, <1>9, <1>10, <1>11 DEF Runs, Discovers

LEMMA DisturbsType ==
    ASSUME ProcessTypeOK, Disturbs
    PROVE  ProcessTypeOK'
<1>1. ASSUME NEW k \in Clients, Dies(k) PROVE ProcessTypeOK'
    BY <1>1, EndsType DEF Dies
<1>2. CASE Stop
    BY <1>2 DEF Stop, ProcessTypeOK, Goto, stateVars, outside, PCs, Clients
<1>3. CASE SetNasStatus
    BY <1>3 DEF SetNasStatus, Begin, ProcessTypeOK, Goto, stateVars, PCs, Clients
<1>4. CASE RepairCdiRoot
    BY <1>4 DEF RepairCdiRoot, ProcessTypeOK, stateVars, CdiRoots
<1>5. CASE DeleteNode
  <2>1. object' \in ObjectType \cup {None}
      BY <1>5, ObjectTypes DEF DeleteNode, ProcessTypeOK
  <2>2. copy' \in [Clients -> ObjectType]
      BY <1>5, ObjectTypes DEF DeleteNode, ProcessTypeOK
  <2> QED BY <1>5, <2>1, <2>2 DEF DeleteNode, ProcessTypeOK, stateVars
<1>6. CASE RegisterNode
    BY <1>6 DEF RegisterNode, ProcessTypeOK, stateVars
<1>7. CASE Collect
    BY <1>7, OlderTypes DEF Collect, ProcessTypeOK, stateVars, outside
<1> QED BY <1>1, <1>2, <1>3, <1>4, <1>5, <1>6, <1>7 DEF Disturbs

LEMMA CallsType ==
    ASSUME ProcessTypeOK, NEW c \in Claims, Prepare(c) \/ Unprepare(c)
    PROVE  ProcessTypeOK'
<1>1. object \in ObjectType /\ object.spec \in SpecType /\ "plugin" \in Clients
    BY DEF Prepare, Unprepare, ProcessTypeOK, ObjectType, Clients
<1>2. CASE Prepare(c)
  <2>1. PreparedRtCpus(c) \in SUBSET Ids
      BY <1>1 DEF PreparedRtCpus, ProcessTypeOK, PreparedClaims, SpecType
  <2>2. prepared' \in PreparedClaims
      BY <1>2, <2>1 DEF Prepare, ProcessTypeOK, PreparedClaims
  <2>3. [object EXCEPT !.spec = Synced(@, prepared')] \in ObjectType
      BY <1>1, <2>2, ObjectTypes, SpecTypes DEF ProcessTypeOK, AllocatableRtCpus
  <2>4. object' \in ObjectType \cup {None} /\ copy' \in [Clients -> ObjectType]
    <3>1. CASE copy["plugin"].spec.allocated[c] # {}
        BY <1>1, <1>2, <2>3, <3>1, OlderTypes DEF Prepare, Stores, ProcessTypeOK
    <3>2. CASE copy["plugin"].spec.allocated[c] = {}
        BY <1>1, <1>2, <3>2 DEF Prepare, ProcessTypeOK
    <3> QED BY <3>1, <3>2
  <2>5. given' \in PreparedClaims /\ version' \in [Clients -> {"none", "old", "current"}]
    <3>1. given' = [given EXCEPT ![c] = PreparedRtCpus(c)] \/ UNCHANGED given
        BY <1>2 DEF Prepare
    <3>2. \/ version' = [Outdated EXCEPT !["plugin"] = "current"]
          \/ version' = [version EXCEPT !["plugin"] = "current"]
        BY <1>2 DEF Prepare, Stores
    <3>3. given' \in PreparedClaims
        BY <2>1, <3>1 DEF ProcessTypeOK, PreparedClaims
    <3> QED BY <1>1, <3>2, <3>3, OlderTypes DEF ProcessTypeOK
  <2>6. revived' \subseteq Claims /\ UNCHANGED <<node, pc, cdiRoot, cpus, section, calm, late>>
      BY <1>2 DEF Prepare, ProcessTypeOK
  <2> QED BY <2>2, <2>4, <2>5, <2>6 DEF ProcessTypeOK
<1>3. CASE Unprepare(c)
  <2>1. prepared' \in PreparedClaims /\ given' \in PreparedClaims
      BY <1>3 DEF Unprepare, ProcessTypeOK, PreparedClaims
  <2>2. [object EXCEPT !.spec = Synced(@, prepared')] \in ObjectType
      BY <1>1, <2>1, ObjectTypes, SpecTypes DEF ProcessTypeOK, AllocatableRtCpus
  <2>3. object' \in ObjectType /\ copy' \in [Clients -> ObjectType]
        /\ version' \in [Clients -> {"none", "old", "current"}]
      BY <1>1, <1>3, <2>2, OlderTypes DEF Unprepare, Stores
  <2>4. revived' \subseteq Claims /\ UNCHANGED <<node, pc, cdiRoot, cpus, section, calm, late>>
      BY <1>3 DEF Unprepare, ProcessTypeOK
  <2> QED BY <2>1, <2>3, <2>4 DEF ProcessTypeOK
<1> QED BY <1>2, <1>3

\* The specs that a worker makes of the one it reads.
LEMMA SectionSpecs ==
    ASSUME ProcessTypeOK, NEW c \in Claims, Allocate(c) \/ Deallocate(c)
    PROVE  /\ section = None /\ section' \in SectionType /\ section' # None
           /\ UNCHANGED <<object, node, copy, version, pc, cdiRoot, stateVars, given, calm, revived>>
           /\ Deallocate(c) => \A d \in Claims : section'.spec.allocated[d] \in {{}, object.spec.allocated[d]}
<1>1. object # None /\ object.spec \in SpecType
    BY DEF Allocate, Deallocate, ProcessTypeOK, ObjectType
<1>2. ASSUME NEW s \in SpecType, Enter(c, s)
      PROVE  /\ section = None /\ section' \in SectionType /\ section' # None /\ section'.spec = s
             /\ UNCHANGED <<object, node, copy, version, pc, cdiRoot, stateVars, given, calm, revived>>
    BY <1>2, NoSectionAssumption DEF Enter, SectionType
<1>3. CASE Allocate(c) /\ ~Deallocate(c)
  <2> DEFINE util == IF object.spec.util = {} THEN object.spec.allocatable ELSE object.spec.util
  <2>1. PICK S \in SUBSET util : Enter(c, [object.spec EXCEPT !.util = util, !.allocated[c] = S])
      BY <1>3 DEF Allocate
  <2>2. util \in SUBSET Ids
      BY <1>1 DEF SpecType
  <2>3. [object.spec EXCEPT !.util = util, !.allocated[c] = S] \in SpecType
      BY <1>1, <2>2, SpecTypes
  <2> QED BY <1>2, <1>3, <2>1, <2>3
<1>4. CASE Deallocate(c)
  <2> DEFINE s == [object.spec EXCEPT !.allocated[c] = {}]
  <2>1. s \in SpecType
      BY <1>1, SpecTypes
  <2>2. \A d \in Claims : s.allocated[d] \in {{}, object.spec.allocated[d]}
      BY <1>1 DEF SpecType
  <2>3. Enter(c, s)
      BY <1>4 DEF Deallocate
  <2> HIDE DEF s
  <2> QED BY <1>2, <2>1, <2>2, <2>3
<1> QED BY <1>3, <1>4

LEMMA ControlsType ==
    ASSUME ProcessTypeOK, Controls
    PROVE  ProcessTypeOK'
<1>1. ASSUME NEW c \in Claims, Allocate(c) \/ Deallocate(c)
      PROVE  ProcessTypeOK'
    BY <1>1, SectionSpecs DEF ProcessTypeOK, stateVars
<1>2. CASE ControllerStores
  <2>1. section \in SectionType /\ object \in ObjectType
      BY <1>2 DEF ControllerStores, ProcessTypeOK
  <2>2. object' \in ObjectType
      BY <1>2, <2>1, ObjectTypes DEF ControllerStores, SectionType
  <2>3. section' \in SectionType \cup {None} /\ revived' \subseteq Claims
      BY <1>2, <2>1 DEF ControllerStores, Revived, ProcessTypeOK
  <2>4. UNCHANGED <<pc, stateVars, node, cdiRoot, given, calm>> /\ copy' = Superseded /\ version' = Outdated
      BY <1>2 DEF ControllerStores
  <2> QED BY <2>2, <2>3, <2>4, OlderTypes DEF ProcessTypeOK, stateVars
<1>3. CASE ControllerGivesUp
    BY <1>3 DEF ControllerGivesUp, ProcessTypeOK, stateVars
<1> QED BY <1>1, <1>2, <1>3 DEF Controls

LEMMA TypeInit == Init => ProcessTypeOK
<1> SUFFICES ASSUME Init PROVE ProcessTypeOK
    OBVIOUS
<1>1. copy \in [Clients -> ObjectType] /\ object \in ObjectType \cup {None}
    BY ObjectTypes DEF Init
<1>2. cpus \in AllocatableRtCpus /\ prepared \in PreparedClaims /\ given \in PreparedClaims
    BY DEF Init, AllocatableRtCpus, PreparedClaims, NoClaims
<1>3. pc \in [Clients -> PCs] /\ version \in [Clients -> {"none", "old", "current"}]
    BY DEF Init, PCs
<1> QED BY <1>1, <1>2, <1>3 DEF Init, ProcessTypeOK, CdiRoots, Clients

LEMMA TypeNext == ProcessTypeOK /\ [Next]_vars => ProcessTypeOK'
<1> SUFFICES ASSUME ProcessTypeOK, [Next]_vars PROVE ProcessTypeOK'
    OBVIOUS
<1>1. "set-nas-status" \in Clients
    BY DEF Clients
<1>2. CASE Runs \/ Requests("set-nas-status")
    BY <1>1, <1>2, RunsType, RequestsType
<1>3. ASSUME NEW ready \in Statuses, UpdateStatus("set-nas-status", "notReady", ready, "done")
      PROVE  ProcessTypeOK'
    BY <1>1, <1>3, StatusType, StatusesAssumption DEF PCs
<1>4. CASE Disturbs
    BY <1>4, DisturbsType
<1>5. CASE Calm
    BY <1>5 DEF Calm, ProcessTypeOK, stateVars
<1>6. ASSUME NEW c \in Claims, Prepare(c) \/ Unprepare(c)
      PROVE  ProcessTypeOK'
    BY <1>6, CallsType
<1>8. CASE Controls
    BY <1>8, ControlsType
<1>7. CASE UNCHANGED vars
    BY <1>7 DEF vars, ProcessTypeOK
<1> QED BY <1>2, <1>3, <1>4, <1>5, <1>6, <1>7, <1>8 DEF Next

\* Every variable of the plugin's process, of set-nas-status and of the node keeps
\* its type, whatever is deleted, created, killed or discovered.
THEOREM ProcessTypeCorrect == Spec => []ProcessTypeOK
<1> QED BY TypeInit, TypeNext, PTL DEF Spec

LEMMA Objects ==
    ASSUME ProcessTypeOK
    PROVE  /\ object # None => object \in ObjectType
           /\ \A k \in Clients : copy[k] \in ObjectType /\ copy[k] # None
           /\ \A o \in ObjectType, r \in BOOLEAN :
                 /\ [o EXCEPT !.ready = r] \in ObjectType \ {None}
                 /\ [o EXCEPT !.ready = r].spec = o.spec /\ [o EXCEPT !.ready = r].ready = r
                 /\ [o EXCEPT !.owned = r] \in ObjectType \ {None}
                 /\ [o EXCEPT !.owned = r].spec = o.spec /\ [o EXCEPT !.owned = r].ready = o.ready
           /\ \A o \in ObjectType, s \in SpecType :
                 /\ [o EXCEPT !.spec = s] \in ObjectType \ {None}
                 /\ [o EXCEPT !.spec = s].spec = s /\ [o EXCEPT !.spec = s].ready = o.ready
<1>1. /\ object # None => object \in ObjectType
      /\ \A k \in Clients : copy[k] \in ObjectType
    BY DEF ProcessTypeOK
<1>2. \A o \in ObjectType, r \in BOOLEAN :
         /\ [o EXCEPT !.ready = r].spec = o.spec /\ [o EXCEPT !.ready = r].ready = r
         /\ [o EXCEPT !.owned = r].spec = o.spec /\ [o EXCEPT !.owned = r].ready = o.ready
    BY DEF ObjectType
<1>3. \A o \in ObjectType, s \in SpecType :
         [o EXCEPT !.spec = s].spec = s /\ [o EXCEPT !.spec = s].ready = o.ready
    BY DEF ObjectType
<1> QED BY <1>1, <1>2, <1>3, ObjectTypes, NoObjectAssumption

----------------------------------------------------------------------------
(***************************************************************************)
(* The copies of both processes.                                           *)
(***************************************************************************)
\* What client k does leaves the other one where it is.
Alone(k) == \A j \in Clients \ {k} : pc'[j] = pc[j]

LEMMA StoresCopies ==
    ASSUME ProcessTypeOK, CopiesInv, NEW k \in Clients, NEW new, new # None, Stores(k, new), Alone(k)
    PROVE  CopiesInv'
<1>1. \A j \in Clients \ {k} : /\ version'[j] # "current"
                               /\ version'[j] = "none" => version[j] = "none" /\ copy'[j] = copy[j]
    BY DEF Stores, Outdated, Superseded, ProcessTypeOK
<1>2. version'[k] = "current" /\ object' # None /\ copy'[k] = object'
    BY OlderTypes DEF Stores, Outdated, ProcessTypeOK
<1> QED BY <1>1, <1>2 DEF CopiesInv, NewCopy, CurrentCopy

\* Somebody else stores or deletes the object.
LEMMA OlderCopies ==
    ASSUME ProcessTypeOK, CopiesInv, version' = Outdated, copy' = Superseded
    PROVE  CopiesInv'
<1>1. \A j \in Clients : /\ version'[j] # "current"
                         /\ version'[j] = "none" => version[j] = "none" /\ copy'[j] = copy[j]
    BY DEF Outdated, Superseded, ProcessTypeOK
<1> QED BY <1>1 DEF CopiesInv, NewCopy, CurrentCopy

\* A client reads the object, or has nothing any more.
LEMMA ReadsCopies ==
    ASSUME ProcessTypeOK, CopiesInv, NEW k \in Clients, Alone(k), UNCHANGED object,
           \/ /\ object # None
              /\ copy' = [copy EXCEPT ![k] = object] /\ version' = [version EXCEPT ![k] = "current"]
           \/ copy' = [copy EXCEPT ![k] = NewObject] /\ version' = [version EXCEPT ![k] = "none"]
    PROVE  CopiesInv'
<1>1. \A j \in Clients \ {k} : copy'[j] = copy[j] /\ version'[j] = version[j]
    BY DEF ProcessTypeOK
<1>2. NewCopy(k)' /\ CurrentCopy(k)'
    BY DEF NewCopy, CurrentCopy, ProcessTypeOK, NewObject
<1> QED BY <1>1, <1>2 DEF CopiesInv, NewCopy, CurrentCopy, Alone

\* A client goes on without a look at the object.
LEMMA MovesCopies ==
    ASSUME ProcessTypeOK, CopiesInv, NEW k \in Clients, Alone(k), UNCHANGED <<object, copy, version>>,
           pc[k] # "updatePut" \/ version[k] # "current"
    PROVE  CopiesInv'
    BY DEF CopiesInv, NewCopy, CurrentCopy, Alone

LEMMA EndsCopies ==
    ASSUME ProcessTypeOK, CopiesInv, NEW k \in Clients, Ends(k)
    PROVE  CopiesInv'
<1>1. Alone(k)
    BY DEF Ends, Loses, Goto, Alone, ProcessTypeOK
<1> QED BY <1>1, ReadsCopies DEF Ends, Loses

LEMMA RequestsCopies ==
    ASSUME ProcessTypeOK, CopiesInv, NEW k \in Clients, Requests(k)
    PROVE  CopiesInv'
<1>1. CASE GetOrCreate(k)
  <2>1. Alone(k)
      BY <1>1 DEF GetOrCreate, Goto, Alone, ProcessTypeOK
  <2>2. CASE object = None
      BY <1>1, <2>1, <2>2, MovesCopies DEF GetOrCreate
  <2>3. CASE object # None
      BY <1>1, <2>1, <2>3, ReadsCopies DEF GetOrCreate
  <2> QED BY <2>2, <2>3
<1>2. CASE Create(k)
  <2>1. Alone(k)
      BY <1>2 DEF Create, Goto, Alone, ProcessTypeOK
  <2> QED BY <1>2, <2>1, Objects, StoresCopies DEF Create
<1>3. CASE CreateFails(k) \/ Lost(k) \/ Exit(k)
    BY <1>3, EndsCopies DEF CreateFails, Lost, Exit
<1>4. CASE Conflict(k)
  <2>1. CASE Ends(k)
      BY <2>1, EndsCopies
  <2>2. CASE ~Ends(k)
    <3>1. Alone(k)
        BY <1>4, <2>2 DEF Conflict, Goto, Alone, ProcessTypeOK
    <3> QED BY <1>4, <2>2, <3>1, MovesCopies DEF Conflict
  <2> QED BY <2>1, <2>2
<1> QED BY <1>1, <1>2, <1>3, <1>4 DEF Requests

LEMMA StatusCopies ==
    ASSUME ProcessTypeOK, CopiesInv, NEW k \in Clients, NEW ready \in BOOLEAN, NEW from, NEW to,
           UpdateStatus(k, from, ready, to)
    PROVE  CopiesInv'
<1>1. Alone(k)
    BY DEF UpdateStatus, Goto, Alone, ProcessTypeOK
<1>2. copy[k] \in ObjectType
    BY DEF ProcessTypeOK
<1>3. [copy[k] EXCEPT !.ready = ready] # None
    BY <1>2, ObjectTypes, NoObjectAssumption
<1> QED BY <1>1, <1>3, StoresCopies DEF UpdateStatus

\* The spec that Update assembles.
LEMMA SyncedSpec ==
    ASSUME ProcessTypeOK, NEW P \in PreparedClaims, object # None
    PROVE  \A s \in {object.spec, copy["plugin"].spec} :
              /\ s \in SpecType
              /\ Synced(s, P) \in SpecType
              /\ Synced(s, P).allocatable = cpus /\ Synced(s, P).prepared = P
              /\ Synced(s, P).allocated = s.allocated
<1>1. ASSUME NEW s \in SpecType
      PROVE  /\ Synced(s, P).allocatable = cpus /\ Synced(s, P).prepared = P
             /\ Synced(s, P).allocated = s.allocated
    BY DEF Synced, SpecType
<1>2. object.spec \in SpecType /\ copy["plugin"].spec \in SpecType
    BY DEF ProcessTypeOK, ObjectType, Clients
<1> QED BY <1>1, <1>2, SpecTypes DEF ProcessTypeOK, AllocatableRtCpus

LEMMA RunsCopies ==
    ASSUME ProcessTypeOK, CopiesInv, Runs
    PROVE  CopiesInv'
<1>1. "plugin" \in Clients
    BY DEF Clients
<1>2. CASE StartPlugin
  <2>1. Alone("plugin")
      BY <1>2 DEF StartPlugin, Begin, Goto, Alone, ProcessTypeOK
  <2> QED BY <1>1, <1>2, <2>1, MovesCopies DEF StartPlugin, Begin
<1>3. CASE Requests("plugin")
    BY <1>1, <1>3, RequestsCopies
<1>4. CASE \/ UpdateStatus("plugin", "notReady", FALSE, "load")
           \/ UpdateStatus("plugin", "ready", TRUE, "register")
           \/ UpdateStatus("plugin", "stopPut", FALSE, "done")
    BY <1>1, <1>4, StatusCopies
<1>5. ASSUME NEW info \in CpuInfos, NewDeviceState(info)
      PROVE  CopiesInv'
  <2>1. Alone("plugin")
      BY <1>5 DEF NewDeviceState, Goto, Alone, ProcessTypeOK
  <2> QED BY <1>1, <1>5, <2>1, MovesCopies DEF NewDeviceState
<1>6. ASSUME NEW info \in CpuInfos, NewDeviceStatePanics(info)
      PROVE  CopiesInv'
  <2>1. Alone("plugin")
      BY <1>6 DEF NewDeviceStatePanics, Loses, Goto, Alone, ProcessTypeOK
  <2> QED BY <1>1, <1>6, <2>1, ReadsCopies DEF NewDeviceStatePanics, Loses
<1>7. CASE NewDeviceStateFails
    BY <1>1, <1>7, EndsCopies DEF NewDeviceStateFails
<1>8. CASE UpdateGet
  <2>1. /\ pc'["plugin"] = "updatePut" /\ version'["plugin"] = "current"
        /\ \A k \in Clients \ {"plugin"} : pc'[k] = pc[k] /\ version'[k] = version[k]
        /\ UNCHANGED <<object, copy>>
      BY <1>1, <1>8 DEF UpdateGet, Goto, ProcessTypeOK
  <2> QED BY <2>1 DEF CopiesInv, NewCopy, CurrentCopy
<1>9. CASE Update
  <2>1. Alone("plugin")
      BY <1>9 DEF Update, Goto, Alone, ProcessTypeOK
  <2>2. [object EXCEPT !.spec = Synced(copy["plugin"].spec, prepared)] # None
      BY <1>9, Objects, SyncedSpec DEF Update, ProcessTypeOK
  <2> QED BY <1>1, <1>9, <2>1, <2>2, StoresCopies DEF Update
<1>10. CASE Register
  <2>1. Alone("plugin")
      BY <1>10 DEF Register, Goto, Alone, ProcessTypeOK
  <2> QED BY <1>1, <1>10, <2>1, MovesCopies DEF Register
<1>11. CASE ShutdownGet
  <2>1. Alone("plugin")
      BY <1>11 DEF ShutdownGet, Goto, Alone, ProcessTypeOK
  <2> QED BY <1>1, <1>11, <2>1, ReadsCopies DEF ShutdownGet
<1> QED BY <1>2, <1>3, <1>4, <1>5, <1>6, <1>7, <1>8, <1>9, <1>10, <1>11 DEF Runs, Discovers

LEMMA DisturbsCopies ==
    ASSUME ProcessTypeOK, CopiesInv, Disturbs
    PROVE  CopiesInv'
<1>1. ASSUME NEW k \in Clients, Dies(k) PROVE CopiesInv'
    BY <1>1, EndsCopies DEF Dies
<1>2. CASE Stop
  <2>1. Alone("plugin")
      BY <1>2 DEF Stop, Goto, Alone, ProcessTypeOK
  <2> QED BY <1>2, <2>1, MovesCopies DEF Stop, Clients
<1>3. CASE SetNasStatus
  <2>1. Alone("set-nas-status")
      BY <1>3 DEF SetNasStatus, Begin, Goto, Alone, ProcessTypeOK
  <2> QED BY <1>3, <2>1, MovesCopies DEF SetNasStatus, Begin, Clients
<1>4. CASE RepairCdiRoot \/ RegisterNode
    BY <1>4 DEF RepairCdiRoot, RegisterNode, CopiesInv, NewCopy, CurrentCopy
<1>5. CASE DeleteNode
  <2>1. ASSUME NEW k \in Clients
        PROVE  copy'[k].spec = copy[k].spec /\ copy'[k].ready = copy[k].ready
    <3> DEFINE r == (pc[k] = "down")
    <3>1. copy[k] \in ObjectType /\ r \in BOOLEAN
        BY DEF ProcessTypeOK
    <3>2. copy'[k] = [copy[k] EXCEPT !.owned = r]
        BY <1>5 DEF DeleteNode
    <3> HIDE DEF r
    <3> QED BY <3>1, <3>2 DEF ObjectType
  <2>2. object # None => object' # None /\ object'.spec = object.spec
      BY <1>5, Objects DEF DeleteNode
  <2>3. UNCHANGED <<version, pc>>
      BY <1>5 DEF DeleteNode
  <2> QED BY <2>1, <2>2, <2>3 DEF CopiesInv, NewCopy, CurrentCopy
<1>6. CASE Collect
    BY <1>6, OlderCopies DEF Collect
<1> QED BY <1>1, <1>2, <1>3, <1>4, <1>5, <1>6 DEF Disturbs

LEMMA CallsCopies ==
    ASSUME ProcessTypeOK, CopiesInv, NEW c \in Claims, Prepare(c) \/ Unprepare(c)
    PROVE  CopiesInv'
<1>1. "plugin" \in Clients
    BY DEF Clients
<1>2. CASE Prepare(c)
  <2>1. Alone("plugin")
      BY <1>2 DEF Prepare, Alone
  <2>2. CASE copy["plugin"].spec.allocated[c] # {}
    <3>1. prepared' \in PreparedClaims
        BY <1>2, CallsType DEF ProcessTypeOK
    <3>2. [object EXCEPT !.spec = Synced(@, prepared')] # None
        BY <1>2, <3>1, Objects, SyncedSpec DEF Prepare
    <3> QED BY <1>1, <1>2, <2>1, <2>2, <3>2, StoresCopies DEF Prepare
  <2>3. CASE copy["plugin"].spec.allocated[c] = {}
      BY <1>1, <1>2, <2>1, <2>3, ReadsCopies DEF Prepare
  <2> QED BY <2>2, <2>3
<1>3. CASE Unprepare(c)
  <2>1. Alone("plugin")
      BY <1>3 DEF Unprepare, Alone
  <2>2. prepared' \in PreparedClaims
      BY <1>3, CallsType DEF ProcessTypeOK
  <2>3. [object EXCEPT !.spec = Synced(@, prepared')] # None
      BY <1>3, <2>2, Objects, SyncedSpec DEF Unprepare
  <2> QED BY <1>1, <1>3, <2>1, <2>3, StoresCopies DEF Unprepare
<1> QED BY <1>2, <1>3

LEMMA ControlsCopies ==
    ASSUME ProcessTypeOK, CopiesInv, Controls
    PROVE  CopiesInv'
<1>1. ASSUME NEW c \in Claims, Allocate(c) \/ Deallocate(c)
      PROVE  UNCHANGED <<object, copy, version, pc>>
    BY <1>1, SectionSpecs
<1>2. CASE UNCHANGED <<object, copy, version, pc>>
    BY <1>2 DEF CopiesInv, NewCopy, CurrentCopy
<1>3. CASE ControllerStores
    BY <1>3, OlderCopies DEF ControllerStores
<1> QED BY <1>1, <1>2, <1>3 DEF Controls, ControllerGivesUp

LEMMA CopiesInit == Init => CopiesInv
    BY DEF Init, CopiesInv, NewCopy, CurrentCopy, NewObject

LEMMA CopiesNext == ProcessTypeOK /\ CopiesInv /\ [Next]_vars => CopiesInv'
<1> SUFFICES ASSUME ProcessTypeOK, CopiesInv, [Next]_vars PROVE CopiesInv'
    OBVIOUS
<1>1. "set-nas-status" \in Clients
    BY DEF Clients
<1>2. CASE Runs \/ Requests("set-nas-status")
    BY <1>1, <1>2, RunsCopies, RequestsCopies
<1>3. ASSUME NEW ready \in Statuses, UpdateStatus("set-nas-status", "notReady", ready, "done")
      PROVE  CopiesInv'
    BY <1>1, <1>3, StatusCopies, StatusesAssumption
<1>4. CASE Disturbs
    BY <1>4, DisturbsCopies
<1>5. CASE Calm \/ UNCHANGED vars
    BY <1>5 DEF Calm, vars, CopiesInv, NewCopy, CurrentCopy
<1>6. ASSUME NEW c \in Claims, Prepare(c) \/ Unprepare(c)
      PROVE  CopiesInv'
    BY <1>6, CallsCopies
<1>8. CASE Controls
    BY <1>8, ControlsCopies
<1> QED BY <1>2, <1>3, <1>4, <1>5, <1>6, <1>8 DEF Next

\* What the copies are worth, in every reachable state: one of the newest version has
\* the newest spec, and one without a version is a new object.
THEOREM CopiesInvariant == Spec => []CopiesInv
<1> QED BY TypeInit, TypeNext, CopiesInit, CopiesNext, PTL DEF Spec

\* How the object may change in a step: it is created new or collected, keeps its
\* spec, is stored by Update, or is written by somebody while both processes stay
\* where they are.
Created == object = None /\ object' # None /\ object'.spec = EmptySpec
Kept == object # None /\ object' # None /\ object'.spec = object.spec
Served ==
    /\ object # None /\ object' # None
    /\ UNCHANGED pc

LEMMA RequestsChange ==
    ASSUME ProcessTypeOK, CopiesInv, NEW k \in Clients, Requests(k)
    PROVE  Created \/ UNCHANGED object
<1>1. CASE Create(k)
  <2>1. object' = copy[k] /\ copy[k] # None /\ object = None /\ NewCopy(k)
      BY <1>1, Objects DEF Create, Stores, CopiesInv
  <2> QED BY <1>1, <2>1 DEF NewCopy, Create, Created
<1> QED BY <1>1 DEF Requests, GetOrCreate, CreateFails, Conflict, Lost, Exit, Ends

LEMMA StatusChange ==
    ASSUME ProcessTypeOK, CopiesInv, NEW k \in Clients, NEW ready \in BOOLEAN, NEW from, NEW to,
           from # "updatePut", UpdateStatus(k, from, ready, to)
    PROVE  Kept /\ object'.ready = ready /\ copy'[k] = object'
<1>1. copy[k] \in ObjectType /\ object # None /\ copy[k].spec = object.spec
    BY DEF UpdateStatus, CopiesInv, CurrentCopy, ProcessTypeOK
<1>2. object' = [copy[k] EXCEPT !.ready = ready] /\ copy'[k] = object'
    BY OlderTypes DEF UpdateStatus, Stores, ProcessTypeOK
<1>3. object' \in ObjectType
    BY <1>1, <1>2, ObjectTypes
<1>4. object'.spec = object.spec /\ object'.ready = ready
    BY <1>1, <1>2 DEF ObjectType
<1> QED BY <1>1, <1>2, <1>3, <1>4, NoObjectAssumption DEF Kept

LEMMA SpecStored ==
    ASSUME ProcessTypeOK, object # None, NEW s \in SpecType, object' = [object EXCEPT !.spec = s]
    PROVE  object' # None /\ object'.spec = s /\ object'.ready = object.ready
<1>1. object \in ObjectType
    BY DEF ProcessTypeOK
<1>2. [object EXCEPT !.spec = s] \in ObjectType
    BY <1>1, ObjectTypes
<1>3. object'.spec = s /\ object'.ready = object.ready
    BY <1>1 DEF ObjectType
<1> QED BY <1>2, <1>3, NoObjectAssumption

LEMMA CallsChange ==
    ASSUME ProcessTypeOK, NEW c \in Claims, Prepare(c) \/ Unprepare(c)
    PROVE  /\ Served /\ object'.ready = object.ready
           /\ object'.spec.prepared \in {object.spec.prepared, prepared'}
<1>1. object # None /\ object.spec \in SpecType /\ UNCHANGED pc
    BY DEF Prepare, Unprepare, ProcessTypeOK, ObjectType
<1>2. ASSUME object' = [object EXCEPT !.spec = Synced(@, prepared')], prepared' \in PreparedClaims
      PROVE  object' # None /\ object'.ready = object.ready /\ object'.spec.prepared = prepared'
  <2> DEFINE s == Synced(object.spec, prepared')
  <2>1. s \in SpecType /\ s.prepared = prepared'
      BY <1>1, <1>2, SyncedSpec
  <2>2. object' = [object EXCEPT !.spec = s]
      BY <1>2
  <2> HIDE DEF s
  <2> QED BY <1>1, <2>1, <2>2, SpecStored
<1>3. prepared' \in PreparedClaims
    BY CallsType DEF ProcessTypeOK
<1> QED BY <1>1, <1>2, <1>3 DEF Prepare, Unprepare, Stores, Served

\* The worker stores the spec of its section, or the object stays.
LEMMA ControlsChange ==
    ASSUME ProcessTypeOK, Controls
    PROVE  /\ UNCHANGED <<pc, cpus, prepared, given, late>> /\ copy'["plugin"] = copy["plugin"]
           /\ \/ UNCHANGED object
              \/ Served /\ object'.ready = object.ready /\ ControllerStores
                   /\ section \in SectionType /\ object'.spec = section.spec
<1>1. ASSUME NEW c \in Claims, Allocate(c) \/ Deallocate(c)
      PROVE  UNCHANGED <<object, copy, pc, cpus, prepared, given, late>>
    BY <1>1, SectionSpecs DEF stateVars
<1>2. CASE ControllerStores
  <2>1. /\ object # None /\ section \in SectionType /\ object' = [object EXCEPT !.spec = section.spec]
        /\ UNCHANGED <<pc, cpus, prepared, given, late>> /\ copy' = Superseded
      BY <1>2 DEF ControllerStores, ProcessTypeOK, stateVars
  <2>2. section.spec \in SpecType
      BY <2>1 DEF SectionType
  <2>3. object' # None /\ object'.spec = section.spec /\ object'.ready = object.ready
      BY <2>1, <2>2, SpecStored
  <2> QED BY <1>2, <2>1, <2>3, OlderTypes DEF Served
<1>3. CASE ControllerGivesUp
    BY <1>3 DEF ControllerGivesUp, stateVars
<1> QED BY <1>1, <1>2, <1>3 DEF Controls

\* The steps that leave the object alone, but for its owner.
LEMMA OthersChange ==
    ASSUME ProcessTypeOK, Disturbs
    PROVE  \/ UNCHANGED object
           \/ object # None /\ object' = None /\ UNCHANGED pc
           \/ Kept /\ object'.ready = object.ready /\ UNCHANGED pc
<1>1. CASE DeleteNode
    BY <1>1, Objects DEF DeleteNode, Kept
<1>2. CASE Collect
    BY <1>2 DEF Collect, outside
<1> QED BY <1>1, <1>2 DEF Disturbs, Dies, Ends, Stop, outside, SetNasStatus, Begin, RepairCdiRoot, RegisterNode

LEMMA UpdateChange ==
    ASSUME ProcessTypeOK, Update
    PROVE  /\ object # None /\ object' # None /\ object'.ready = object.ready
           /\ object'.spec = Synced(copy["plugin"].spec, prepared) /\ copy'["plugin"] = object'
<1> DEFINE s == Synced(copy["plugin"].spec, prepared)
<1>1. object # None /\ prepared \in PreparedClaims /\ "plugin" \in Clients
    BY DEF Update, ProcessTypeOK, Clients
<1>2. s \in SpecType
    BY <1>1, SyncedSpec
<1>3. object' = [object EXCEPT !.spec = s]
    BY DEF Update, Stores
<1>4. copy'["plugin"] = object'
    BY <1>1, OlderTypes DEF Update, Stores
<1> HIDE DEF s
<1>5. object' # None /\ object'.ready = object.ready /\ object'.spec = s
    BY <1>1, <1>2, <1>3, SpecStored
<1> QED BY <1>1, <1>4, <1>5 DEF s

LEMMA RunsChange ==
    ASSUME ProcessTypeOK, CopiesInv, Runs
    PROVE  Created \/ Kept \/ UNCHANGED object \/ Update
<1>1. "plugin" \in Clients
    BY DEF Clients
<1>2. CASE Requests("plugin")
    BY <1>1, <1>2, RequestsChange
<1>3. CASE \/ UpdateStatus("plugin", "notReady", FALSE, "load")
           \/ UpdateStatus("plugin", "ready", TRUE, "register")
           \/ UpdateStatus("plugin", "stopPut", FALSE, "done")
    BY <1>1, <1>3, StatusChange
<1> QED BY <1>2, <1>3 DEF Runs, StartPlugin, Begin, Discovers, NewDeviceState, NewDeviceStatePanics,
           NewDeviceStateFails, Ends, UpdateGet, Register, ShutdownGet, outside

LEMMA NextChanges ==
    ASSUME ProcessTypeOK, CopiesInv, [Next]_vars
    PROVE  \/ Created \/ Kept \/ UNCHANGED object \/ Update \/ Served
           \/ object' = None /\ UNCHANGED pc
<1>1. "set-nas-status" \in Clients
    BY DEF Clients
<1>2. CASE Runs \/ Requests("set-nas-status")
    BY <1>1, <1>2, RunsChange, RequestsChange
<1>3. ASSUME NEW ready \in Statuses, UpdateStatus("set-nas-status", "notReady", ready, "done")
      PROVE  Kept
    BY <1>1, <1>3, StatusChange, StatusesAssumption
<1>4. CASE Disturbs
    BY <1>4, OthersChange
<1>5. CASE Calm \/ UNCHANGED vars
    BY <1>5 DEF Calm, vars
<1>6. ASSUME NEW c \in Claims, Prepare(c) \/ Unprepare(c)
      PROVE  Served
    BY <1>6, CallsChange
<1>8. CASE Controls
    BY <1>8, ControlsChange
<1> QED BY <1>2, <1>3, <1>4, <1>5, <1>6, <1>8 DEF Next

\* CreatedEmpty: GetOrCreate, tried again after a conflict, finds the NAS deleted
\* and creates it from a copy that is not empty; but that one has a version, which
\* Create is refused for, so that a new NAS is empty, whoever creates it.
THEOREM NewIsEmpty == Spec => CreatedEmpty
<1>1. ASSUME ProcessTypeOK, CopiesInv, [Next]_vars
      PROVE  object = None /\ object' # None => object'.spec = EmptySpec
    BY <1>1, NextChanges DEF Created, Kept, Served, Update
<1> QED BY <1>1, TypeInit, TypeNext, CopiesInvariant, PTL DEF Spec, CreatedEmpty

\* StatusKeepsSpec: UpdateStatus sends the whole copy, and no write of the controller
\* or of the other process is lost by that, because the copy has the version, and
\* with it the spec, of the object it is stored over.
THEOREM StatusLeavesSpec == Spec => StatusKeepsSpec
<1>1. ASSUME ProcessTypeOK, CopiesInv, [Next]_vars, NEW k \in Clients,
             pc[k] \in {"notReady", "ready", "stopPut"}, pc'[k] # pc[k], object # None
      PROVE  object' # None /\ object'.spec = object.spec
  <2>1. CASE Update
    <3>1. pc["plugin"] = "updatePut" /\ pc'[k] = [pc EXCEPT !["plugin"] = "ready"][k]
        BY <2>1 DEF Update, Goto
    <3> QED BY <1>1, <3>1 DEF ProcessTypeOK
  <2> QED BY <1>1, <2>1, NextChanges DEF Created, Kept, Served
<1>2. ASSUME ProcessTypeOK, CopiesInv, [Next]_vars
      PROVE  \A k \in Clients :
                pc[k] \in {"notReady", "ready", "stopPut"} /\ pc'[k] # pc[k] /\ object # None
                   => object' # None /\ object'.spec = object.spec
    BY <1>1, <1>2
<1> QED BY <1>2, TypeInit, TypeNext, CopiesInvariant, PTL DEF Spec, StatusKeepsSpec

----------------------------------------------------------------------------
(***************************************************************************)
(* The start of the plugin, when nobody but the plugin calls its NAS ready. *)
(***************************************************************************)

LEMMA AwayStart == ~NotYetReady' => StartInv'
    BY DEF NotYetReady, StartInv, ReadyInv, KeptInv

\* The plugin does nothing, and nobody calls the object ready, or records anything but
\* what the worker was about to.
LEMMA OtherStart ==
    ASSUME ProcessTypeOK, StartInv, UNCHANGED <<cpus, prepared, late>>, pc'["plugin"] = pc["plugin"],
           copy'["plugin"].spec = copy["plugin"].spec,
           section' \in {section, None},
           \/ object' = None \/ UNCHANGED object
           \/ Created /\ ~object'.ready
           \/ Kept /\ object'.ready \in {FALSE, object.ready}
           \/ Served /\ object'.ready = object.ready /\ section # None /\ object'.spec = section.spec
    PROVE  StartInv'
<1>1. ReadyInv'
    BY DEF StartInv, ReadyInv, NotYetReady, Created, Kept, Served, Synced
<1>2. ASSUME pc["plugin"] \in {"load", "updateGet", "updatePut"}
      PROVE  /\ object' # None => Copied(object.spec.allocated)'
             /\ section' # None => Copied(section.spec.allocated)'
  <2>1. section' # None => Copied(section.spec.allocated)'
      BY <1>2 DEF StartInv, KeptInv, Copied
  <2>2. CASE object' = None \/ UNCHANGED object
    <3>1. object # None => Copied(object.spec.allocated)
        BY <1>2 DEF StartInv, KeptInv
    <3> QED BY <2>1, <2>2, <3>1 DEF Copied
  <2>3. CASE Created
    <3>1. \A c \in Claims : object'.spec.allocated[c] = {}
        BY <2>3 DEF Created, EmptySpec, NoClaims
    <3> QED BY <2>1, <3>1 DEF Copied
  <2>4. CASE Kept
      BY <1>2, <2>4 DEF Kept, StartInv, KeptInv, Copied
  <2>5. CASE section # None /\ object'.spec = section.spec
      BY <1>2, <2>5 DEF StartInv, KeptInv, Copied
  <2> QED BY <2>1, <2>2, <2>3, <2>4, <2>5
<1> QED BY <1>1, <1>2 DEF StartInv, KeptInv

LEMMA RequestsStart ==
    ASSUME ProcessTypeOK, CopiesInv, StartInv, Requests("plugin")
    PROVE  StartInv'
<1>1. CASE Conflict("plugin") /\ pc["plugin"] = "updatePut" /\ ~Ends("plugin")
  <2>1. pc'["plugin"] = "updateGet" /\ UNCHANGED <<object, copy, cpus, section, late>>
      BY <1>1 DEF Conflict, Goto, ProcessTypeOK, Clients, stateVars, outside
  <2> QED BY <1>1, <2>1 DEF StartInv, ReadyInv, KeptInv, Copied, NotYetReady
<1>2. CASE ~(Conflict("plugin") /\ pc["plugin"] = "updatePut" /\ ~Ends("plugin"))
  <2>1. pc'["plugin"] \in {"create", "notReady", "down", "get", "stopGet"}
    <3>1. CASE Conflict("plugin")
        BY <1>2, <3>1 DEF Conflict, Ends, Loses, Goto, ProcessTypeOK, Clients
    <3>2. CASE ~Conflict("plugin")
        BY <3>2 DEF Requests, GetOrCreate, Create, CreateFails, Lost, Exit, Ends, Loses, Goto,
           ProcessTypeOK, Clients
    <3> QED BY <3>1, <3>2
  <2> QED BY <2>1, AwayStart DEF NotYetReady
<1> QED BY <1>1, <1>2

LEMMA StatusStart ==
    ASSUME ProcessTypeOK, CopiesInv, StartInv,
           \/ UpdateStatus("plugin", "notReady", FALSE, "load")
           \/ UpdateStatus("plugin", "ready", TRUE, "register")
           \/ UpdateStatus("plugin", "stopPut", FALSE, "done")
    PROVE  StartInv'
<1>1. "plugin" \in Clients
    BY DEF Clients
<1>2. CASE UpdateStatus("plugin", "notReady", FALSE, "load")
  <2>1. Kept /\ ~object'.ready /\ copy'["plugin"] = object'
      BY <1>1, <1>2, StatusChange
  <2>2. /\ pc'["plugin"] = "load" /\ UNCHANGED section
        /\ \A c \in Claims \ late' : section # None => section.spec.allocated[c] = object.spec.allocated[c]
      BY <1>1, <1>2 DEF UpdateStatus, Changing, Goto, ProcessTypeOK, outside
  <2> QED BY <2>1, <2>2 DEF Kept, StartInv, ReadyInv, KeptInv, Copied, NotYetReady
<1>3. CASE UpdateStatus("plugin", "ready", TRUE, "register")
    BY <1>1, <1>3, AwayStart DEF UpdateStatus, Goto, ProcessTypeOK, NotYetReady
<1>4. CASE UpdateStatus("plugin", "stopPut", FALSE, "done")
    BY <1>1, <1>4, AwayStart DEF UpdateStatus, Goto, ProcessTypeOK, NotYetReady
<1> QED BY <1>2, <1>3, <1>4

LEMMA RunsStart ==
    ASSUME ProcessTypeOK, CopiesInv, StartInv, Runs
    PROVE  StartInv'
<1>1. "plugin" \in Clients
    BY DEF Clients
<1>2. CASE StartPlugin
    BY <1>1, <1>2, AwayStart DEF StartPlugin, Begin, Goto, ProcessTypeOK, NotYetReady
<1>3. CASE Requests("plugin")
    BY <1>3, RequestsStart
<1>4. ASSUME NEW info \in CpuInfos, NewDeviceState(info)
      PROVE  StartInv'
  <2>1. pc["plugin"] = "load" /\ pc'["plugin"] = "updateGet" /\ UNCHANGED <<object, copy, section, late>>
      BY <1>1, <1>4 DEF NewDeviceState, Goto, ProcessTypeOK
  <2> QED BY <2>1 DEF StartInv, ReadyInv, KeptInv, Copied, NotYetReady
<1>5. ASSUME NEW info \in CpuInfos, NewDeviceStatePanics(info)
      PROVE  StartInv'
    BY <1>1, <1>5, AwayStart DEF NewDeviceStatePanics, Loses, Goto, ProcessTypeOK, NotYetReady
<1>6. CASE NewDeviceStateFails
    BY <1>1, <1>6, AwayStart DEF NewDeviceStateFails, Ends, Loses, Goto, ProcessTypeOK, NotYetReady
<1>7. CASE UpdateGet
  <2>1. /\ pc["plugin"] = "updateGet" /\ pc'["plugin"] = "updatePut"
        /\ UNCHANGED <<object, copy, section, late>>
      BY <1>1, <1>7 DEF UpdateGet, Goto, ProcessTypeOK, stateVars, outside
  <2> QED BY <2>1 DEF StartInv, ReadyInv, KeptInv, Copied, NotYetReady
<1>8. CASE Update
  <2> DEFINE s == copy["plugin"].spec
  <2>1. /\ object' # None /\ object'.ready = object.ready /\ object # None
        /\ copy'["plugin"].spec = Synced(s, prepared)
      BY <1>8, UpdateChange
  <2>2. pc["plugin"] = "updatePut" /\ pc'["plugin"] = "ready" /\ UNCHANGED <<cpus, prepared>>
      BY <1>1, <1>8 DEF Update, Goto, ProcessTypeOK
  <2>3. Synced(s, prepared) = Synced(Synced(s, prepared), prepared)
    <3>1. s \in SpecType
        BY <1>1 DEF ProcessTypeOK, ObjectType
    <3> HIDE DEF s
    <3> QED BY <3>1 DEF Synced, SpecType
  <2>4. copy'["plugin"].spec = Synced(copy["plugin"].spec, prepared)'
      BY <2>1, <2>2, <2>3 DEF Synced
  <2> QED BY <2>1, <2>2, <2>4 DEF StartInv, ReadyInv, KeptInv, NotYetReady
<1>9. CASE Register
    BY <1>1, <1>9, AwayStart DEF Register, Goto, ProcessTypeOK, NotYetReady
<1>10. CASE ShutdownGet
    BY <1>1, <1>10, AwayStart DEF ShutdownGet, Goto, ProcessTypeOK, NotYetReady
<1> QED BY <1>2, <1>3, <1>4, <1>5, <1>6, <1>7, <1>8, <1>9, <1>10, StatusStart DEF Runs, Discovers

\* What set-nas-status does, with any status but Ready.
LEMMA OtherClientStart ==
    ASSUME ProcessTypeOK, CopiesInv, StartInv,
           \/ Requests("set-nas-status")
           \/ UpdateStatus("set-nas-status", "notReady", FALSE, "done")
           \/ Dies("set-nas-status") \/ SetNasStatus
    PROVE  StartInv'
<1> DEFINE k == "set-nas-status"
<1>1. k \in Clients /\ k # "plugin" /\ "plugin" \in Clients
    BY DEF Clients
<1>2. /\ pc'["plugin"] = pc["plugin"] /\ copy'["plugin"] = copy["plugin"]
      /\ UNCHANGED <<cpus, prepared, late, section>>
  <2>1. CASE Ends(k)
      BY <1>1, <2>1 DEF Ends, Loses, Goto, ProcessTypeOK, stateVars, outside
  <2>2. CASE GetOrCreate(k) \/ SetNasStatus
      BY <1>1, <2>2 DEF GetOrCreate, SetNasStatus, Begin, Goto, ProcessTypeOK, stateVars, outside
  <2>3. CASE Create(k) \/ UpdateStatus(k, "notReady", FALSE, "done")
      BY <1>1, <2>3, OlderTypes DEF Create, UpdateStatus, Stores, Goto, ProcessTypeOK, stateVars, outside
  <2>4. CASE Conflict(k) /\ ~Ends(k)
      BY <1>1, <2>4 DEF Conflict, Goto, ProcessTypeOK, stateVars, outside
  <2> QED BY <2>1, <2>2, <2>3, <2>4 DEF Requests, CreateFails, Lost, Exit, Dies
<1>3. CASE Create(k)
  <2>1. object' = copy[k] /\ NewCopy(k) /\ version[k] = "none"
      BY <1>1, <1>3 DEF Create, Stores, CopiesInv
  <2>2. Created \/ UNCHANGED object
      BY <1>1, <1>3, RequestsChange DEF Requests
  <2> QED BY <1>2, <2>1, <2>2, OtherStart DEF NewCopy
<1>4. CASE UpdateStatus(k, "notReady", FALSE, "done")
  <2>1. Kept /\ object'.ready = FALSE
      BY <1>1, <1>4, StatusChange
  <2> QED BY <1>2, <2>1, OtherStart
<1>5. CASE ~Create(k) /\ ~UpdateStatus(k, "notReady", FALSE, "done")
  <2>1. UNCHANGED object
      BY <1>5 DEF Requests, GetOrCreate, CreateFails, Lost, Exit, Conflict, Ends, Dies, SetNasStatus, Begin
  <2> QED BY <1>2, <2>1, OtherStart
<1> QED BY <1>3, <1>4, <1>5

LEMMA DisturbsStart ==
    ASSUME ProcessTypeOK, CopiesInv, StartInv, Disturbs
    PROVE  StartInv'
<1>1. "plugin" \in Clients
    BY DEF Clients
<1>2. CASE Dies("plugin")
    BY <1>1, <1>2, AwayStart DEF Dies, Ends, Loses, Goto, ProcessTypeOK, NotYetReady
<1>3. CASE Dies("set-nas-status") \/ SetNasStatus
    BY <1>3, OtherClientStart
<1>4. CASE Stop
    BY <1>1, <1>4, AwayStart DEF Stop, Goto, ProcessTypeOK, NotYetReady
<1>5. CASE RepairCdiRoot \/ RegisterNode \/ Collect
    BY <1>5, OlderTypes, OtherStart DEF RepairCdiRoot, RegisterNode, Collect, stateVars, outside
<1>6. CASE DeleteNode
  <2> DEFINE r == (pc["plugin"] = "down")
  <2>1. copy["plugin"] \in ObjectType /\ r \in BOOLEAN
      BY <1>1 DEF ProcessTypeOK
  <2>2. copy'["plugin"] = [copy["plugin"] EXCEPT !.owned = r]
      BY <1>1, <1>6 DEF DeleteNode
  <2> HIDE DEF r
  <2>3. copy'["plugin"].spec = copy["plugin"].spec
      BY <2>1, <2>2 DEF ObjectType
  <2>4. object' = None \/ (Kept /\ object'.ready = object.ready)
      BY <1>6, Objects DEF DeleteNode, Kept
  <2> QED BY <1>6, <2>3, <2>4, OtherStart DEF DeleteNode, stateVars
<1> QED BY <1>2, <1>3, <1>4, <1>5, <1>6 DEF Disturbs, Clients

LEMMA CallsStart ==
    ASSUME ProcessTypeOK, StartInv, NEW c \in Claims, Prepare(c) \/ Unprepare(c)
    PROVE  StartInv'
    BY AwayStart DEF Prepare, Unprepare, NotYetReady

LEMMA ControlsStart ==
    ASSUME ProcessTypeOK, StartInv, Controls
    PROVE  StartInv'
<1>1. ASSUME NEW c \in Claims, Allocate(c)
      PROVE  StartInv'
  <2>1. ~NotYetReady
      BY <1>1 DEF Allocate, StartInv, ReadyInv
  <2>2. UNCHANGED pc
      BY <1>1, SectionSpecs
  <2> QED BY <2>1, <2>2, AwayStart DEF NotYetReady
<1>2. ASSUME NEW c \in Claims, Deallocate(c)
      PROVE  StartInv'
  <2>1. /\ UNCHANGED <<object, copy, pc, cpus, prepared, late>> /\ object # None
        /\ \A d \in Claims : section'.spec.allocated[d] \in {{}, object.spec.allocated[d]}
      BY <1>2, SectionSpecs DEF Deallocate, stateVars
  <2>2. ReadyInv'
      BY <2>1 DEF StartInv, ReadyInv, NotYetReady, Synced
  <2>3. KeptInv'
      BY <2>1 DEF StartInv, KeptInv, Copied
  <2> QED BY <2>2, <2>3 DEF StartInv
<1>3. CASE ControllerStores \/ ControllerGivesUp
  <2>1. section' \in {section, None} /\ section # None
      BY <1>3 DEF ControllerStores, ControllerGivesUp
  <2>2. /\ UNCHANGED <<pc, cpus, prepared, late>> /\ copy'["plugin"] = copy["plugin"]
        /\ \/ UNCHANGED object
           \/ Served /\ object'.ready = object.ready /\ object'.spec = section.spec
      BY <1>3, ControlsChange DEF Controls
  <2> QED BY <2>1, <2>2, OtherStart
<1> QED BY <1>1, <1>2, <1>3 DEF Controls

LEMMA StartNext ==
    ASSUME Statuses \subseteq {FALSE}, ProcessTypeOK, CopiesInv, StartInv, [Next]_vars
    PROVE  StartInv'
<1>1. CASE Runs
    BY <1>1, RunsStart
<1>2. CASE \/ Requests("set-nas-status")
           \/ \E ready \in Statuses : UpdateStatus("set-nas-status", "notReady", ready, "done")
    BY <1>2, OtherClientStart
<1>3. CASE Disturbs
    BY <1>3, DisturbsStart
<1>4. CASE Calm \/ UNCHANGED vars
    BY <1>4, OtherStart DEF Calm, vars, stateVars
<1>5. ASSUME NEW c \in Claims, Prepare(c) \/ Unprepare(c)
      PROVE  StartInv'
    BY <1>5, CallsStart
<1>7. CASE Controls
    BY <1>7, ControlsStart
<1> QED BY <1>1, <1>2, <1>3, <1>4, <1>5, <1>7 DEF Next

\* set-nas-status is called with NotReady, as the Helm chart does: at each place
\* between the two statuses of a start it is known who has written the NAS last.
THEOREM StartInvariant == ASSUME Statuses \subseteq {FALSE} PROVE Spec => []StartInv
<1>1. Init => StartInv
    BY DEF Init, StartInv, ReadyInv, KeptInv, NotYetReady, Clients
<1>2. ProcessTypeOK /\ CopiesInv /\ StartInv /\ [Next]_vars => StartInv'
    BY StartNext
<1> QED BY <1>1, <1>2, ProcessTypeCorrect, CopiesInvariant, PTL DEF Spec

\* SyncsNotReady: under the same condition nobody makes a NAS ready that the plugin is
\* about to synchronise, whatever it and its copy went through before.
THEOREM SyncIsNotReady == ASSUME Statuses \subseteq {FALSE} PROVE Spec => []SyncsNotReady
<1>1. StartInv => SyncsNotReady
    BY DEF StartInv, ReadyInv, NotYetReady, SyncsNotReady
<1> QED BY <1>1, StartInvariant, PTL

\* The step that StartKeepsAllocations is about is Update.
LEMMA UpdateOnly ==
    ASSUME ProcessTypeOK, [Next]_vars, pc["plugin"] = "updatePut", pc'["plugin"] = "ready"
    PROVE  Update
<1>1. "plugin" \in Clients /\ "set-nas-status" \in Clients
    BY DEF Clients
<1>2. ASSUME NEW k \in Clients, Ends(k) \/ Loses(k) PROVE FALSE
    BY <1>1, <1>2 DEF Ends, Loses, Goto, ProcessTypeOK
<1>3. ASSUME NEW k \in Clients, Requests(k) PROVE FALSE
  <2>1. CASE Conflict(k)
      BY <1>1, <1>2, <2>1 DEF Conflict, Goto, ProcessTypeOK
  <2>2. CASE GetOrCreate(k) \/ Create(k)
      BY <1>1, <2>2 DEF GetOrCreate, Create, Goto, ProcessTypeOK
  <2> QED BY <1>2, <1>3, <2>1, <2>2 DEF Requests, CreateFails, Lost, Exit
<1>4. ASSUME Runs, ~Update PROVE FALSE
    BY <1>1, <1>2, <1>3, <1>4 DEF Runs, StartPlugin, Begin, UpdateStatus, Discovers, NewDeviceState,
       NewDeviceStatePanics, NewDeviceStateFails, UpdateGet, Register, ShutdownGet, Goto
<1>5. ASSUME Disturbs PROVE FALSE
    BY <1>1, <1>2, <1>5 DEF Disturbs, Dies, Stop, SetNasStatus, Begin, RepairCdiRoot, DeleteNode,
       RegisterNode, Collect, outside, Goto, ProcessTypeOK
<1>6. ASSUME NEW ready \in Statuses, UpdateStatus("set-nas-status", "notReady", ready, "done")
      PROVE  FALSE
    BY <1>1, <1>6 DEF UpdateStatus, Goto, ProcessTypeOK
<1>7. ASSUME NEW c \in Claims, Prepare(c) \/ Unprepare(c)
      PROVE  FALSE
    BY <1>7 DEF Prepare, Unprepare
<1>8. ASSUME Controls PROVE FALSE
    BY <1>8, ControlsChange
<1> QED BY <1>1, <1>3, <1>4, <1>5, <1>6, <1>7, <1>8 DEF Next, Calm, vars

\* StartKeepsAllocations: under the same condition Update stores a spec that was read
\* before the discovery of the CPUs, over a newer one, and a claim loses its allocation
\* by that only if a worker had seen the NAS ready before the start made it not ready,
\* and stored the claim after that.
THEOREM StartTakesNothing == ASSUME Statuses \subseteq {FALSE} PROVE Spec => StartKeepsAllocations
<1>1. ASSUME ProcessTypeOK, CopiesInv, StartInv, [Next]_vars,
             pc["plugin"] = "updatePut", pc'["plugin"] = "ready",
             NEW c \in Claims \ late, object.spec.allocated[c] # {}
      PROVE  object'.spec.allocated[c] = object.spec.allocated[c]
  <2>1. Update
      BY <1>1, UpdateOnly
  <2>2. object # None /\ object'.spec.allocated[c] = copy["plugin"].spec.allocated[c]
      BY <1>1, <2>1, UpdateChange, SyncedSpec DEF ProcessTypeOK
  <2> QED BY <1>1, <2>2 DEF StartInv, KeptInv, Copied
<1>2. ASSUME ProcessTypeOK, CopiesInv, StartInv, [Next]_vars
      PROVE  pc["plugin"] = "updatePut" /\ pc'["plugin"] = "ready" =>
                \A c \in Claims \ late : object.spec.allocated[c] # {}
                   => object'.spec.allocated[c] = object.spec.allocated[c]
    BY <1>1, <1>2
<1> QED BY <1>2, ProcessTypeCorrect, CopiesInvariant, StartInvariant, PTL DEF Spec, StartKeepsAllocations

\* The steps that make a NAS ready.
LEMMA ReadyOnly ==
    ASSUME Statuses \subseteq {FALSE}, ProcessTypeOK, CopiesInv, [Next]_vars,
           object' # None, object'.ready, object = None \/ ~object.ready
    PROVE  UpdateStatus("plugin", "ready", TRUE, "register")
<1>1. "plugin" \in Clients /\ "set-nas-status" \in Clients
    BY DEF Clients
<1>2. ASSUME NEW k \in Clients, Requests(k) PROVE FALSE
  <2>1. CASE Create(k)
    <3>1. object' = copy[k] /\ NewCopy(k) /\ version[k] = "none"
        BY <2>1 DEF Create, Stores, CopiesInv
    <3> QED BY <3>1 DEF NewCopy
  <2>2. CASE ~Create(k)
      BY <1>2, <2>2 DEF Requests, GetOrCreate, CreateFails, Conflict, Lost, Exit, Ends
  <2> QED BY <2>1, <2>2
<1>3. \A k \in Clients : \A from, to : from # "updatePut" => ~UpdateStatus(k, from, FALSE, to)
    BY StatusChange
<1>4. ~Update
    BY UpdateChange
<1>5. ASSUME Runs PROVE UpdateStatus("plugin", "ready", TRUE, "register")
    BY <1>1, <1>2, <1>3, <1>4, <1>5 DEF Runs, StartPlugin, Begin, Discovers, NewDeviceState,
       NewDeviceStatePanics, NewDeviceStateFails, Ends, UpdateGet, Register, ShutdownGet, outside
<1>6. ASSUME NEW ready \in Statuses, UpdateStatus("set-nas-status", "notReady", ready, "done")
      PROVE  FALSE
    BY <1>1, <1>3, <1>6
<1>7. ASSUME Disturbs PROVE FALSE
    BY <1>7, OthersChange DEF Kept
<1>8. ASSUME NEW c \in Claims, Prepare(c) \/ Unprepare(c)
      PROVE  FALSE
    BY <1>8, CallsChange DEF Served
<1>9. ASSUME Controls PROVE FALSE
    BY <1>9, ControlsChange DEF Served
<1> QED BY <1>1, <1>2, <1>5, <1>6, <1>7, <1>8, <1>9 DEF Next, Calm, vars

\* ReadyPublishes: under the same condition the second status of a start is refused
\* when a worker has stored an older spec after Update, so that a NAS becomes ready only
\* with the CPUs and the claims of the process that serves it.
THEOREM ReadyIsPublished == ASSUME Statuses \subseteq {FALSE} PROVE Spec => ReadyPublishes
<1>1. ASSUME ProcessTypeOK, CopiesInv, StartInv, [Next]_vars
      PROVE  object' # None /\ object'.ready /\ (object = None \/ ~object.ready) =>
                object'.spec = Synced(object'.spec, prepared)
  <2> SUFFICES ASSUME object' # None, object'.ready, object = None \/ ~object.ready
               PROVE  object'.spec = Synced(object'.spec, prepared)
      OBVIOUS
  <2>1. UpdateStatus("plugin", "ready", TRUE, "register")
      BY <1>1, ReadyOnly
  <2>2. "plugin" \in Clients
      BY DEF Clients
  <2>3. Kept /\ copy["plugin"].spec = object.spec /\ pc["plugin"] = "ready"
      BY <1>1, <2>1, <2>2, StatusChange DEF UpdateStatus, CopiesInv, CurrentCopy
  <2> QED BY <1>1, <2>3 DEF Kept, StartInv, ReadyInv
<1> QED BY <1>1, ProcessTypeCorrect, CopiesInvariant, StartInvariant, PTL DEF Spec, ReadyPublishes

----------------------------------------------------------------------------
(***************************************************************************)
(* Prepared claims across restarts, when all CPUs are online.              *)
(***************************************************************************)

\* /proc/cpuinfo lists the CPUs 0, 1, ... without a gap.
Online == \A info \in CpuInfos : \A i \in DOMAIN info : info[i] = i - 1

\* Then the CPU at the position of an ID has that ID.
LEMMA PreparedFromSame ==
    ASSUME Online, NEW info \in CpuInfos, NEW spec \in SpecType,
           \A c \in Claims : spec.prepared[c] \subseteq Positions(info)
    PROVE  \A c \in Claims : PreparedFrom(spec, info)[c] = spec.prepared[c]
<1>1. info \in Seq(Nat)
    BY CpuInfosAssumption
<1>2. ASSUME NEW c \in Claims, NEW d \in spec.prepared[c]
      PROVE  IdAt(info, d) = d
  <2>1. d \in Nat /\ d + 1 \in DOMAIN info
      BY <1>1 DEF Positions
  <2> QED BY <2>1 DEF IdAt, Online
<1>3. ASSUME NEW c \in Claims
      PROVE  {IdAt(info, d) : d \in spec.prepared[c]} = spec.prepared[c]
    BY <1>2
<1> QED BY <1>3 DEF PreparedFrom

\* The kubelet is told nothing, and the object and the process keep what they know.
LEMMA OtherKnown ==
    ASSUME KnownInv, UNCHANGED <<given, revived>>,
           \A c \in Claims \ revived : given[c] # {} => prepared'[c] \in {{}, given[c]},
           object' = None \/ UNCHANGED object \/ Created \/ Kept,
           pc'["plugin"] # "load"
             \/ (pc["plugin"] = "load" /\ copy'["plugin"].spec = copy["plugin"].spec)
    PROVE  KnownInv'
<1>1. Known(prepared)'
    BY DEF Known
<1>2. object' # None => Known(object.spec.prepared)'
  <2>1. CASE Created
      BY <2>1 DEF Created, EmptySpec, NoClaims, Known
  <2> QED BY <2>1 DEF KnownInv, Known, Kept
<1>3. pc'["plugin"] = "load" => Known(copy["plugin"].spec.prepared)'
    BY DEF KnownInv, Known
<1> QED BY <1>1, <1>2, <1>3 DEF KnownInv

LEMMA ProcessEndsKnown ==
    ASSUME ProcessTypeOK, KnownInv, Loses("plugin"), UNCHANGED <<object, given, revived>>
    PROVE  KnownInv'
<1>1. \A c \in Claims : prepared'[c] = {}
    BY DEF Loses, NoClaims
<1>2. pc'["plugin"] = "down" /\ object' = object /\ given' = given
    BY DEF Loses, Goto, ProcessTypeOK, Clients
<1>3. pc'["plugin"] # "load"
    BY <1>2
<1> QED BY <1>1, <1>2, <1>3, OtherKnown

LEMMA RequestsKnown ==
    ASSUME ProcessTypeOK, CopiesInv, KnownInv, Requests("plugin")
    PROVE  KnownInv'
<1>1. "plugin" \in Clients
    BY DEF Clients
<1>2. CASE Ends("plugin")
    BY <1>2, ProcessEndsKnown DEF Ends, outside
<1>3. CASE ~Ends("plugin")
  <2>1. pc'["plugin"] # "load" /\ UNCHANGED <<prepared, given, revived>>
    <3>1. CASE Conflict("plugin")
        BY <1>1, <1>3, <3>1 DEF Conflict, Goto, ProcessTypeOK, stateVars, outside
    <3>2. CASE GetOrCreate("plugin") \/ Create("plugin")
        BY <1>1, <3>2 DEF GetOrCreate, Create, Goto, ProcessTypeOK, stateVars, outside
    <3> QED BY <1>3, <3>1, <3>2 DEF Requests, CreateFails, Lost, Exit
  <2>2. UNCHANGED object \/ Created
      BY <1>1, RequestsChange
  <2>3. \A c \in Claims \ revived : given[c] # {} => prepared'[c] \in {{}, given[c]}
      BY <2>1 DEF KnownInv, Known
  <2> QED BY <2>1, <2>2, <2>3, OtherKnown
<1> QED BY <1>2, <1>3

LEMMA StatusKnown ==
    ASSUME ProcessTypeOK, CopiesInv, KnownInv, NEW ready \in BOOLEAN, NEW from, NEW to, from # "updatePut",
           UpdateStatus("plugin", from, ready, to)
    PROVE  KnownInv'
<1>1. "plugin" \in Clients
    BY DEF Clients
<1>2. Kept /\ copy'["plugin"] = object'
    BY <1>1, StatusChange
<1>3. UNCHANGED <<given, prepared, revived>>
    BY DEF UpdateStatus, stateVars, outside
<1> QED BY <1>2, <1>3 DEF Kept, KnownInv, Known

LEMMA RunsKnown ==
    ASSUME Online, ProcessTypeOK, CopiesInv, KnownInv, Runs
    PROVE  KnownInv'
<1>1. "plugin" \in Clients
    BY DEF Clients
<1>2. CASE StartPlugin
    BY <1>1, <1>2, OtherKnown DEF StartPlugin, Begin, Goto, ProcessTypeOK, stateVars, KnownInv, Known
<1>3. CASE Requests("plugin")
    BY <1>3, RequestsKnown
<1>4. CASE \/ UpdateStatus("plugin", "notReady", FALSE, "load")
           \/ UpdateStatus("plugin", "ready", TRUE, "register")
           \/ UpdateStatus("plugin", "stopPut", FALSE, "done")
    BY <1>4, StatusKnown
<1>5. ASSUME NEW info \in CpuInfos, NewDeviceState(info)
      PROVE  KnownInv'
  <2>1. copy["plugin"].spec \in SpecType
      BY <1>1 DEF ProcessTypeOK, ObjectType
  <2>2. \A c \in Claims : prepared'[c] = copy["plugin"].spec.prepared[c]
      BY <1>5, <2>1, PreparedFromSame DEF NewDeviceState
  <2>3. pc["plugin"] = "load" /\ pc'["plugin"] = "updateGet" /\ UNCHANGED <<object, given, revived>>
      BY <1>1, <1>5 DEF NewDeviceState, Goto, ProcessTypeOK
  <2> QED BY <2>2, <2>3, OtherKnown DEF KnownInv, Known
<1>6. ASSUME NEW info \in CpuInfos, NewDeviceStatePanics(info)
      PROVE  KnownInv'
    BY <1>6, ProcessEndsKnown DEF NewDeviceStatePanics
<1>7. CASE NewDeviceStateFails
    BY <1>7, ProcessEndsKnown DEF NewDeviceStateFails, Ends, outside
<1>8. CASE UpdateGet \/ Register
    BY <1>1, <1>8, OtherKnown DEF UpdateGet, Register, Goto, ProcessTypeOK, stateVars, outside, KnownInv, Known
<1>9. CASE Update
  <2>1. object'.spec.prepared = prepared
      BY <1>9, UpdateChange, SyncedSpec DEF ProcessTypeOK
  <2>2. pc'["plugin"] = "ready" /\ UNCHANGED <<prepared, given, revived>>
      BY <1>1, <1>9 DEF Update, Goto, ProcessTypeOK, stateVars, outside
  <2> QED BY <2>1, <2>2 DEF KnownInv, Known
<1>10. CASE ShutdownGet
    BY <1>1, <1>10, OtherKnown DEF ShutdownGet, Goto, ProcessTypeOK, stateVars, outside, KnownInv, Known
<1> QED BY <1>2, <1>3, <1>4, <1>5, <1>6, <1>7, <1>8, <1>9, <1>10 DEF Runs, Discovers

LEMMA OtherClientKnown ==
    ASSUME ProcessTypeOK, CopiesInv, KnownInv,
           \/ Requests("set-nas-status")
           \/ \E ready \in Statuses : UpdateStatus("set-nas-status", "notReady", ready, "done")
           \/ Dies("set-nas-status") \/ SetNasStatus
    PROVE  KnownInv'
<1> DEFINE k == "set-nas-status"
<1>1. k \in Clients /\ k # "plugin" /\ "plugin" \in Clients
    BY DEF Clients
<1>2. /\ pc'["plugin"] = pc["plugin"] /\ copy'["plugin"] = copy["plugin"]
      /\ UNCHANGED <<prepared, given, revived>>
  <2>1. CASE Ends(k)
      BY <1>1, <2>1 DEF Ends, Loses, Goto, ProcessTypeOK, stateVars, outside
  <2>2. CASE GetOrCreate(k) \/ SetNasStatus
      BY <1>1, <2>2 DEF GetOrCreate, SetNasStatus, Begin, Goto, ProcessTypeOK, stateVars, outside
  <2>3. ASSUME NEW ready \in Statuses, UpdateStatus(k, "notReady", ready, "done")
        PROVE  /\ pc'["plugin"] = pc["plugin"] /\ copy'["plugin"] = copy["plugin"]
               /\ UNCHANGED <<prepared, given, revived>>
      BY <1>1, <2>3, OlderTypes DEF UpdateStatus, Stores, Goto, ProcessTypeOK, stateVars, outside
  <2>4. CASE Create(k)
      BY <1>1, <2>4, OlderTypes DEF Create, Stores, Goto, ProcessTypeOK, stateVars, outside
  <2>5. CASE Conflict(k) /\ ~Ends(k)
      BY <1>1, <2>5 DEF Conflict, Goto, ProcessTypeOK, stateVars, outside
  <2> QED BY <2>1, <2>2, <2>3, <2>4, <2>5 DEF Requests, CreateFails, Lost, Exit, Dies
<1>3. UNCHANGED object \/ Created \/ Kept
  <2>1. CASE Requests(k)
      BY <1>1, <2>1, RequestsChange
  <2>2. ASSUME NEW ready \in Statuses, UpdateStatus(k, "notReady", ready, "done")
        PROVE  Kept
      BY <1>1, <2>2, StatusChange, StatusesAssumption
  <2>3. CASE Dies(k) \/ SetNasStatus
      BY <2>3 DEF Dies, Ends, SetNasStatus, Begin
  <2> QED BY <2>1, <2>2, <2>3
<1> QED BY <1>2, <1>3, OtherKnown DEF KnownInv, Known

LEMMA DisturbsKnown ==
    ASSUME ProcessTypeOK, CopiesInv, KnownInv, Disturbs
    PROVE  KnownInv'
<1>1. "plugin" \in Clients
    BY DEF Clients
<1>2. CASE Dies("plugin")
    BY <1>2, ProcessEndsKnown DEF Dies, Ends, outside
<1>3. CASE Dies("set-nas-status") \/ SetNasStatus
    BY <1>3, OtherClientKnown
<1>4. CASE Stop
    BY <1>1, <1>4, OtherKnown DEF Stop, Goto, ProcessTypeOK, stateVars, outside, KnownInv, Known
<1>5. CASE RepairCdiRoot \/ RegisterNode \/ Collect
    BY <1>5, OtherKnown, OlderTypes DEF RepairCdiRoot, RegisterNode, Collect, stateVars, outside, KnownInv, Known
<1>6. CASE DeleteNode
  <2> DEFINE r == (pc["plugin"] = "down")
  <2>1. copy["plugin"] \in ObjectType /\ r \in BOOLEAN
      BY <1>1 DEF ProcessTypeOK
  <2>2. copy'["plugin"] = [copy["plugin"] EXCEPT !.owned = r]
      BY <1>1, <1>6 DEF DeleteNode
  <2> HIDE DEF r
  <2>3. copy'["plugin"].spec = copy["plugin"].spec
      BY <2>1, <2>2 DEF ObjectType
  <2>4. object' = None \/ Kept
      BY <1>6, Objects DEF DeleteNode, Kept
  <2> QED BY <1>6, <2>3, <2>4, OtherKnown DEF DeleteNode, stateVars, KnownInv, Known
<1> QED BY <1>2, <1>3, <1>4, <1>5, <1>6 DEF Disturbs, Clients

LEMMA CallsKnown ==
    ASSUME ProcessTypeOK, KnownInv, NEW c \in Claims, Prepare(c) \/ Unprepare(c)
    PROVE  KnownInv'
<1>1. /\ object # None /\ object' # None /\ UNCHANGED pc
      /\ object'.spec.prepared \in {object.spec.prepared, prepared'}
    BY CallsChange DEF Served
<1>2. CASE Prepare(c)
  <2>1. pc["plugin"] = "up" /\ prepared' = [prepared EXCEPT ![c] = PreparedRtCpus(c)] /\ given[c] = {}
      BY <1>2 DEF Prepare
  <2>2. CASE copy["plugin"].spec.allocated[c] = {}
    <3>1. Known(prepared)' /\ UNCHANGED <<object, given, revived>>
        BY <1>2, <2>1, <2>2 DEF Prepare, KnownInv, Known, ProcessTypeOK, PreparedClaims
    <3> QED BY <1>1, <2>1, <3>1 DEF KnownInv, Known
  <2>3. CASE copy["plugin"].spec.allocated[c] # {}
    <3>1. given' = [given EXCEPT ![c] = PreparedRtCpus(c)] /\ revived' = revived \ {c}
        BY <1>2, <2>3 DEF Prepare
    <3>2. Known(prepared)'
        BY <2>1, <3>1 DEF KnownInv, Known, ProcessTypeOK, PreparedClaims
    <3>3. object'.spec.prepared = prepared'
      <4>1. prepared' \in PreparedClaims
          BY <1>2, CallsType DEF ProcessTypeOK
      <4> DEFINE s == Synced(object.spec, prepared')
      <4>2. s \in SpecType /\ s.prepared = prepared'
          BY <1>1, <4>1, SyncedSpec
      <4>3. object' = [object EXCEPT !.spec = s]
          BY <1>2, <2>3 DEF Prepare, Stores
      <4> HIDE DEF s
      <4> QED BY <1>1, <4>2, <4>3, SpecStored
    <3> QED BY <1>1, <2>1, <3>2, <3>3 DEF KnownInv, Known
  <2> QED BY <2>2, <2>3
<1>3. CASE Unprepare(c)
  <2>1. /\ pc["plugin"] = "up" /\ prepared' = [prepared EXCEPT ![c] = {}]
        /\ given' = [given EXCEPT ![c] = {}]
      BY <1>3 DEF Unprepare
  <2>2. \A d \in Claims \ revived' : given'[d] # {} =>
           d \notin revived /\ given'[d] = given[d] /\ prepared'[d] = prepared[d]
      BY <1>3, <2>1 DEF Unprepare, ProcessTypeOK, PreparedClaims
  <2> QED BY <1>1, <2>1, <2>2 DEF KnownInv, Known
<1> QED BY <1>2, <1>3

\* What a worker stores is known, or revived.
LEMMA ControlsKnown ==
    ASSUME ProcessTypeOK, KnownInv, Controls
    PROVE  KnownInv'
<1>1. UNCHANGED <<pc, prepared, given>> /\ copy'["plugin"] = copy["plugin"]
    BY ControlsChange
<1>2. CASE ControllerStores
  <2>1. /\ revived \subseteq revived'
        /\ \A c \in Claims \ revived' : section.spec.prepared[c] \in {{}, given[c]}
      BY <1>2 DEF ControllerStores, Revived
  <2>2. UNCHANGED object \/ object'.spec = section.spec
      BY ControlsChange
  <2> QED BY <1>1, <2>1, <2>2 DEF KnownInv, Known
<1>3. CASE ~ControllerStores
  <2>1. UNCHANGED <<object, revived>>
    <3>1. ASSUME NEW c \in Claims, Allocate(c) \/ Deallocate(c)
          PROVE  UNCHANGED <<object, revived>>
        BY <3>1, SectionSpecs
    <3> QED BY <1>3, <3>1 DEF Controls, ControllerGivesUp
  <2> QED BY <1>1, <2>1 DEF KnownInv, Known
<1> QED BY <1>2, <1>3

LEMMA KnownNext ==
    ASSUME Online, ProcessTypeOK, CopiesInv, KnownInv, [Next]_vars
    PROVE  KnownInv'
<1>1. CASE Runs
    BY <1>1, RunsKnown
<1>2. CASE \/ Requests("set-nas-status")
           \/ \E ready \in Statuses : UpdateStatus("set-nas-status", "notReady", ready, "done")
    BY <1>2, OtherClientKnown
<1>3. CASE Disturbs
    BY <1>3, DisturbsKnown
<1>4. CASE Calm \/ UNCHANGED vars
    BY <1>4, OtherKnown DEF Calm, vars, stateVars, KnownInv, Known
<1>5. ASSUME NEW c \in Claims, Prepare(c) \/ Unprepare(c)
      PROVE  KnownInv'
    BY <1>5, CallsKnown
<1>7. CASE Controls
    BY <1>7, ControlsKnown
<1> QED BY <1>1, <1>2, <1>3, <1>4, <1>5, <1>7 DEF Next

\* All CPUs are online: the CPUs of a claim that the kubelet was told is prepared are
\* the same in the NAS, in the copy a new process starts from and in its memory, but
\* for a claim that a worker has stored earlier CPUs for.
THEOREM KnownInvariant == ASSUME Online PROVE Spec => []KnownInv
<1>1. Init => KnownInv
    BY DEF Init, KnownInv, Known, NoClaims, Clients
<1>2. ProcessTypeOK /\ CopiesInv /\ KnownInv /\ [Next]_vars => KnownInv'
    BY KnownNext
<1> QED BY <1>1, <1>2, ProcessTypeCorrect, CopiesInvariant, PTL DEF Spec

\* PreparedIds: under the same condition a prepared claim never changes its CPUs,
\* however often the process ends and reads them back from the NAS, and whatever
\* replaces the NAS, unless a worker stores what it read before the claim was
\* prepared anew.
THEOREM IdsStay == ASSUME Online PROVE Spec => []PreparedIds
<1>1. KnownInv => PreparedIds
    BY DEF KnownInv, Known, PreparedIds
<1> QED BY <1>1, KnownInvariant, PTL

=============================================================================
