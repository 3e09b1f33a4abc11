--------------------------- MODULE KubeletPlugin ---------------------------
(***************************************************************************)
(* The kubelet plugin of every node (cmd/dra-rt-kubeletplugin).  Its gRPC  *)
(* handlers prepare and unprepare claims concurrently.  They share         *)
(*   - the driver's one copy of the node's NAS, without a lock,            *)
(*   - the prepared claims of DeviceState, under its mutex,                *)
(*   - the NAS itself, which the controller writes as well.                *)
(*                                                                         *)
(* One action is the code between two accesses to what is shared.  The     *)
(* loops of RetryOnConflict around the handlers never iterate: the error   *)
(* of Client.Update does not wrap the conflict it reports.                 *)
(***************************************************************************)
EXTENDS NodeAllocationState, CpuPartitioning

CONSTANTS
    Nodes,
    Handlers,       \* gRPC calls that may be in progress at once
    NodeOf,         \* the node whose plugin runs a handler
    Clients,        \* all writers of NAS objects, see nasFresh
    None,
    SharedClaims,   \* the claims that several pods of a node may use
    MaxRetries,     \* maxRetries of Client.Update: 4 in the code
    Faults          \* what may happen: a subset of PluginFaults

\* The process is killed; a request to the API server fails; the process is
\* asked to end, as for an upgrade.
PluginFaults == {"crash", "api", "stop"}

ASSUME PluginRetriesAssumption == MaxRetries \in Nat \ {0}
ASSUME PluginFaultsAssumption == Faults \subseteq PluginFaults
ASSUME SharedClaimsAssumption == SharedClaims \subseteq Claims
ASSUME NodeOfAssumption == NodeOf \in [Handlers -> Nodes]
\* The plugin's shared copy of a NAS is the client named like its node.
ASSUME PluginClientsAssumption == Handlers \cup Nodes \subseteq Clients

VARIABLES
    nas,        \* the NAS object of each node: its status and its spec
    nasFresh,   \* the clients whose last read of a NAS, as far as they still use it,
                \* is its current resourceVersion
    copy,       \* driver.nascrd: the spec of the plugin's copy
    prepared,   \* DeviceState.prepared
    main,       \* the plugin's start and stop
    call,       \* the gRPC calls
    kubelet     \* what the kubelet knows of each claim

pluginVars == <<nas, nasFresh, copy, prepared, main, call, kubelet>>

----------------------------------------------------------------------------
CallIdle ==
    [pc |-> "idle",
     op |-> "none",
     claim |-> None,
     device |-> {},         \* rtCDIDevices: the CPUs the device's name lists, {} for nil
     spec |-> EmptySpec,    \* the object read, then the spec to write
     stored |-> FALSE,      \* Update has succeeded
     tries |-> 0]           \* failed attempts of Update

CallPCs == {"idle", "device", "get", "assign", "assignClaims", "assignUtil", "state",
            "sync", "updateGet", "updatePut", "updateFailed", "done"}

CallType ==
    [pc : CallPCs, op : {"none", "prepare", "unprepare"}, claim : Claims \cup {None},
     device : SUBSET Cpus, spec : SpecType, stored : BOOLEAN, tries : 0 .. MaxRetries]

MainPCs == {"down", "create", "notReady", "load", "updateGet", "updatePut", "ready",
            "up", "stopGet", "stopPut"}

\* The kubelet's cache: not prepared, prepared for a pod with a CDI device, or
\* to be unprepared as the last pod has ended.
KubeletType == [phase : {"none", "prepared", "ending"}, device : SUBSET Cpus]

Unknown == [phase |-> "none", device |-> {}]

PluginTypeOK ==
    /\ nas \in [Nodes -> [ready : BOOLEAN, spec : SpecType]]
    /\ nasFresh \in [Nodes -> SUBSET Clients]
    /\ copy \in [Nodes -> SpecType]
    /\ prepared \in [Nodes -> SUBSET Claims]
    /\ main \in [Nodes -> MainPCs]
    /\ call \in [Handlers -> CallType]
    /\ kubelet \in [Nodes -> [Claims -> KubeletType]]

\* The plugin's own variables before its first start.
PluginInit ==
    /\ copy = [n \in Nodes |-> EmptySpec]
    /\ prepared = [n \in Nodes |-> {}]
    /\ main = [n \in Nodes |-> "down"]
    /\ call = [h \in Handlers |-> CallIdle]
    /\ kubelet = [n \in Nodes |-> [c \in Claims |-> Unknown]]

----------------------------------------------------------------------------
(***************************************************************************)
(* Clients of the API server.  A client that writes knows the new version. *)
(***************************************************************************)
Read(k, n) == nasFresh' = [nasFresh EXCEPT ![n] = @ \cup {k}]

Write(k, n, object) ==
    /\ nas' = [nas EXCEPT ![n] = object]
    /\ nasFresh' = [nasFresh EXCEPT ![n] = k]

Goto(h, pc) == call' = [call EXCEPT ![h].pc = pc]

\* The handler returns an error; the kubelet's cache stays as it is.
Fail(h) == call' = [call EXCEPT ![h] = CallIdle]

\* The CPUs a spec records for a claim: what WriteCgroupToCDI names, and {} where
\* it returns an error (no entry, or one without RtCpu).
CpusIn(spec, c) == IF c \in spec.claims THEN spec.cpus[c] ELSE {}

----------------------------------------------------------------------------
(***************************************************************************)
(* The kubelet's calls.                                                    *)
(***************************************************************************)

Calling(n, c, op) == \E h \in Handlers : NodeOf[h] = n /\ call[h].claim = c /\ call[h].op = op

\* A pod that uses the claim starts on the node; repeated until it succeeds.
\* Pods that share a claim may call at the same time.
PrepareCall(h, c) ==
    LET n == NodeOf[h] IN
    /\ call[h].pc = "idle" /\ main[n] = "up"
    /\ kubelet[n][c].phase = "none"
    /\ c \in SharedClaims \/ ~Calling(n, c, "prepare")
    /\ call' = [call EXCEPT ![h] = [CallIdle EXCEPT !.pc = "device", !.op = "prepare",
                                                    !.claim = c]]
    /\ UNCHANGED <<nas, nasFresh, copy, prepared, main, kubelet>>

\* The last pod that uses the claim has ended; repeated until it succeeds.
UnprepareCall(h, c) ==
    LET n == NodeOf[h] IN
    /\ call[h].pc = "idle" /\ main[n] = "up"
    /\ kubelet[n][c].phase \in {"prepared", "ending"}
    /\ ~Calling(n, c, "unprepare")
    /\ call' = [call EXCEPT ![h] = [CallIdle EXCEPT !.pc = "get", !.op = "unprepare",
                                                    !.claim = c]]
    /\ kubelet' = [kubelet EXCEPT ![n][c] = [@ EXCEPT !.phase = "ending"]]
    /\ UNCHANGED <<nas, nasFresh, copy, prepared, main>>

----------------------------------------------------------------------------
(***************************************************************************)
(* A handler: nodePrepareResource and nodeUnprepareResource.               *)
(***************************************************************************)

\* Mutant of NameDevice: the error is returned, as in the lines commented out.
NameDeviceStrict(h) ==
    LET device == CpusIn(copy[NodeOf[h]], call[h].claim) IN
    /\ call[h].pc = "device"
    /\ IF device = {} THEN Fail(h)
       ELSE call' = [call EXCEPT ![h].device = device, ![h].pc = "get"]
    /\ UNCHANGED <<nas, nasFresh, copy, prepared, main, kubelet>>

\* The device is named after the copy as it is; an error is overwritten by the
\* next statement's.
NameDevice(h) ==
    LET n == NodeOf[h] IN
    /\ call[h].pc = "device"
    /\ call' = [call EXCEPT ![h].device = CpusIn(copy[n], call[h].claim), ![h].pc = "get"]
    /\ UNCHANGED <<nas, nasFresh, copy, prepared, main, kubelet>>

\* A request is made with the call's context, which ends when the server is stopped.
Get(h) ==
    LET n == NodeOf[h] IN
    /\ call[h].pc = "get" /\ main[n] = "up"
    /\ call' = [call EXCEPT ![h].spec = nas[n].spec, ![h].pc = "assign"]
    /\ Read(h, n)
    /\ UNCHANGED <<nas, copy, prepared, main, kubelet>>

GetFails(h) ==
    /\ call[h].pc \in {"get", "updateGet"}
    /\ "api" \in Faults \/ main[NodeOf[h]] # "up"
    /\ IF call[h].pc = "get" THEN Fail(h) ELSE Goto(h, "updateFailed")
    /\ UNCHANGED <<nas, nasFresh, copy, prepared, main, kubelet>>

\* *c.nas = *crd is a plain assignment of a large struct: another handler may
\* read the copy, or assign to it, between two of its fields.  Of the copy's version
\* only Shutdown makes use.
AssignFirst(h) ==
    LET n == NodeOf[h] IN
    /\ call[h].pc = "assign"
    /\ \/ /\ copy' = [copy EXCEPT ![n] = [call[h].spec EXCEPT !.util = copy[n].util]]
          /\ Goto(h, "assignUtil")
       \/ /\ copy' = [copy EXCEPT ![n].util = call[h].spec.util]
          /\ Goto(h, "assignClaims")
    /\ nasFresh' = [nasFresh EXCEPT ![n] = IF h \in @ /\ main[n] = "stopPut"
                                              THEN (@ \ {h}) \cup {n} ELSE @ \ {h, n}]
    /\ UNCHANGED <<nas, prepared, main, kubelet>>

AssignRest(h) ==
    LET n == NodeOf[h] IN
    /\ call[h].pc \in {"assignUtil", "assignClaims"}
    /\ copy' = [copy EXCEPT ![n] = IF call[h].pc = "assignUtil"
                                     THEN [@ EXCEPT !.util = call[h].spec.util]
                                     ELSE [call[h].spec EXCEPT !.util = copy[n].util]]
    /\ call' = [call EXCEPT ![h].pc = IF call[h].stored THEN "done" ELSE "state",
                            ![h].spec = EmptySpec]     \* not used again
    /\ UNCHANGED <<nas, nasFresh, prepared, main, kubelet>>

\* GetClaimDevices puts the name together, and has none for a nil rtCDIDevices.
HasDevice(h) == call[h].device # {}

\* DeviceState.Prepare, under its mutex.  A claim without CPUs in the copy has an
\* unknown device type; another is prepared even if there is no device to return.
Prepare(h) ==
    LET n == NodeOf[h]
        c == call[h].claim
        known == c \in prepared[n] \/ CpusIn(copy[n], c) # {}
    IN
    /\ call[h].pc = "state" /\ call[h].op = "prepare"
    /\ prepared' = [prepared EXCEPT ![n] = IF known THEN @ \cup {c} ELSE @]
    /\ IF known /\ HasDevice(h) THEN Goto(h, "sync") ELSE Fail(h)
    /\ UNCHANGED <<nas, nasFresh, copy, main, kubelet>>

\* Mutant of Unprepare: a claim that is not prepared is an error.
UnprepareStrict(h) ==
    LET n == NodeOf[h] IN
    /\ call[h].pc = "state" /\ call[h].op = "unprepare"
    /\ prepared' = [prepared EXCEPT ![n] = @ \ {call[h].claim}]
    /\ IF call[h].claim \in prepared[n]
         THEN copy' = [copy EXCEPT ![n].prepared = @ \ {call[h].claim}] /\ Goto(h, "sync")
         ELSE UNCHANGED copy /\ Fail(h)
    /\ UNCHANGED <<nas, nasFresh, main, kubelet>>

\* DeviceState.Unprepare, then the entry of the copy.
Unprepare(h) ==
    LET n == NodeOf[h] IN
    /\ call[h].pc = "state" /\ call[h].op = "unprepare"
    /\ prepared' = [prepared EXCEPT ![n] = @ \ {call[h].claim}]
    /\ copy' = [copy EXCEPT ![n].prepared = @ \ {call[h].claim}]
    /\ Goto(h, "sync")
    /\ UNCHANGED <<nas, nasFresh, main, kubelet>>

\* GetUpdatedSpec: the copy with the prepared claims of the node.
GetUpdatedSpec(h) ==
    LET n == NodeOf[h] IN
    /\ call[h].pc = "sync"
    /\ call' = [call EXCEPT ![h].spec = [copy[n] EXCEPT !.prepared = prepared[n]],
                            ![h].pc = "updateGet"]
    /\ UNCHANGED <<nas, nasFresh, copy, prepared, main, kubelet>>

UpdateGet(h) ==
    /\ call[h].pc = "updateGet" /\ main[NodeOf[h]] = "up"
    /\ Read(h, NodeOf[h])
    /\ Goto(h, "updatePut")
    /\ UNCHANGED <<nas, copy, prepared, main, kubelet>>

\* Mutant of UpdatePut: what the controller publishes is left as it is.
UpdatePutMerged(h) ==
    LET n == NodeOf[h] IN
    /\ call[h].pc = "updatePut" /\ h \in nasFresh[n]
    /\ Write({h}, n, [nas[n] EXCEPT !.spec = [call[h].spec EXCEPT !.util = nas[n].spec.util]])
    /\ call' = [call EXCEPT ![h].stored = TRUE, ![h].pc = "assign"]
    /\ UNCHANGED <<copy, prepared, main, kubelet>>

UpdatePut(h) ==
    LET n == NodeOf[h] IN
    /\ call[h].pc = "updatePut" /\ h \in nasFresh[n]
    /\ Write({h}, n, [nas[n] EXCEPT !.spec = call[h].spec])
    /\ call' = [call EXCEPT ![h].stored = TRUE, ![h].pc = "assign"]
    /\ UNCHANGED <<copy, prepared, main, kubelet>>

\* Mutant of UpdateError: one attempt more than the loop makes.
UpdateErrorOnceMore(h) ==
    /\ call[h].pc = "updatePut"
    /\ h \notin nasFresh[NodeOf[h]] \/ "api" \in Faults
    /\ call' = [call EXCEPT ![h].tries = @ + 1,
                            ![h].pc = IF call[h].tries < MaxRetries THEN "updateGet"
                                      ELSE "updateFailed"]
    /\ UNCHANGED <<nas, nasFresh, copy, prepared, main, kubelet>>

\* A conflict, another error, the end of the context, or an answer lost after the write.
UpdateError(h) ==
    LET n == NodeOf[h] IN
    /\ call[h].pc = "updatePut"
    /\ \/ /\ h \notin nasFresh[n] \/ "api" \in Faults \/ main[n] # "up"
          /\ nasFresh' = [nasFresh EXCEPT ![n] = @ \ {h}]
          /\ UNCHANGED nas
       \/ /\ h \in nasFresh[n] /\ ("api" \in Faults \/ main[n] # "up")
          /\ Write({}, n, [nas[n] EXCEPT !.spec = call[h].spec])
    /\ call' = [call EXCEPT ![h].tries = @ + 1,
                            ![h].pc = IF call[h].tries + 1 < MaxRetries THEN "updateGet"
                                      ELSE "updateFailed"]
    /\ UNCHANGED <<copy, prepared, main, kubelet>>

\* Mutant of UpdateFails: the error is shadowed and nil is returned.
UpdateFailsUnnoticed(h) ==
    /\ call[h].pc = "updateFailed"
    /\ Goto(h, "done")
    /\ UNCHANGED <<nas, nasFresh, copy, prepared, main, kubelet>>

\* A prepared claim is unprepared again.
UpdateFails(h) ==
    LET n == NodeOf[h] IN
    /\ call[h].pc = "updateFailed"
    /\ prepared' = [prepared EXCEPT ![n] = IF call[h].op = "prepare" THEN @ \ {call[h].claim}
                                           ELSE @]
    /\ Fail(h)
    /\ UNCHANGED <<nas, nasFresh, copy, main, kubelet>>

\* The answer to the kubelet, unless the server has been stopped.
Done(h) ==
    LET n == NodeOf[h] IN
    /\ call[h].pc = "done"
    /\ kubelet' = [kubelet EXCEPT ![n][call[h].claim] =
                     CASE main[n] # "up" -> @
                       [] main[n] = "up" /\ call[h].op = "prepare" ->
                            [phase |-> "prepared", device |-> call[h].device]
                       [] OTHER -> Unknown]
    /\ call' = [call EXCEPT ![h] = CallIdle]
    /\ UNCHANGED <<nas, nasFresh, copy, prepared, main>>

----------------------------------------------------------------------------
(***************************************************************************)
(* The plugin's start and end: NewDriver and Shutdown.                     *)
(***************************************************************************)
StartPlugin(n) ==
    /\ main[n] = "down"
    /\ main' = [main EXCEPT ![n] = "create"]
    /\ UNCHANGED <<nas, nasFresh, copy, prepared, call, kubelet>>

\* GetOrCreate, and the read of Shutdown.
MainGet(n) ==
    /\ main[n] \in {"create", "stopGet"}
    /\ copy' = [copy EXCEPT ![n] = nas[n].spec]
    /\ Read(n, n)
    /\ main' = [main EXCEPT ![n] = IF @ = "create" THEN "notReady" ELSE "stopPut"]
    /\ UNCHANGED <<nas, prepared, call, kubelet>>

\* UpdateStatus writes the whole copy; the version protects it.
StartNotReady(n) ==
    /\ main[n] = "notReady" /\ n \in nasFresh[n]
    /\ Write({n}, n, [ready |-> FALSE, spec |-> copy[n]])
    /\ main' = [main EXCEPT ![n] = "load"]
    /\ UNCHANGED <<copy, prepared, call, kubelet>>

\* Mutant of LoadState: the prepared claims are not taken from the copy.
LoadStateEmpty(n) ==
    /\ main[n] = "load"
    /\ prepared' = [prepared EXCEPT ![n] = {}]
    /\ main' = [main EXCEPT ![n] = "updateGet"]
    /\ UNCHANGED <<nas, nasFresh, copy, call, kubelet>>

\* NewDeviceState takes the prepared claims from the copy.
LoadState(n) ==
    /\ main[n] = "load"
    /\ prepared' = [prepared EXCEPT ![n] = copy[n].prepared]
    /\ main' = [main EXCEPT ![n] = "updateGet"]
    /\ UNCHANGED <<nas, nasFresh, copy, call, kubelet>>

StartUpdateGet(n) ==
    /\ main[n] = "updateGet"
    /\ Read(n, n)
    /\ main' = [main EXCEPT ![n] = "updatePut"]
    /\ UNCHANGED <<nas, copy, prepared, call, kubelet>>

StartUpdatePut(n) ==
    LET spec == [copy[n] EXCEPT !.prepared = prepared[n]] IN
    /\ main[n] = "updatePut" /\ n \in nasFresh[n]
    /\ Write({n}, n, [nas[n] EXCEPT !.spec = spec])
    /\ copy' = [copy EXCEPT ![n] = spec]
    /\ main' = [main EXCEPT ![n] = "ready"]
    /\ UNCHANGED <<prepared, call, kubelet>>

StartReady(n) ==
    /\ main[n] = "ready" /\ n \in nasFresh[n]
    /\ Write({}, n, [ready |-> TRUE, spec |-> copy[n]])
    /\ main' = [main EXCEPT ![n] = "up"]
    /\ UNCHANGED <<copy, prepared, call, kubelet>>

\* SIGTERM.
StopPlugin(n) ==
    /\ main[n] = "up" /\ "stop" \in Faults
    /\ main' = [main EXCEPT ![n] = "stopGet"]
    /\ UNCHANGED <<nas, nasFresh, copy, prepared, call, kubelet>>

\* The process is gone and with it every handler.
Gone(n) ==
    /\ main' = [main EXCEPT ![n] = "down"]
    /\ prepared' = [prepared EXCEPT ![n] = {}]
    /\ copy' = [copy EXCEPT ![n] = EmptySpec]
    /\ call' = [h \in Handlers |-> IF NodeOf[h] = n THEN CallIdle ELSE call[h]]

StopNotReady(n) ==
    /\ main[n] = "stopPut" /\ n \in nasFresh[n]
    /\ Write({}, n, [ready |-> FALSE, spec |-> copy[n]])
    /\ Gone(n)
    /\ UNCHANGED kubelet

\* A conflict: RetryOnConflict starts over, and gives up after some attempts
\* (their number is left open); Update has a loop of its own.
MainConflict(n) ==
    /\ main[n] \in {"notReady", "updatePut", "ready", "stopPut"} /\ n \notin nasFresh[n]
    /\ \/ /\ main' = [main EXCEPT ![n] = CASE @ = "updatePut" -> "updateGet"
                                           [] @ = "stopPut" -> "stopGet"
                                           [] OTHER -> "create"]
          /\ UNCHANGED <<copy, prepared, call>>
       \/ Gone(n)
    /\ UNCHANGED <<nas, nasFresh, kubelet>>

\* Another error of the API server ends the process.
MainFails(n) ==
    /\ main[n] \notin {"down", "load", "up"} /\ "api" \in Faults
    /\ Gone(n)
    /\ UNCHANGED <<nas, nasFresh, kubelet>>

PluginCrash(n) ==
    /\ main[n] # "down" /\ "crash" \in Faults
    /\ Gone(n)
    /\ UNCHANGED <<nas, nasFresh, kubelet>>

\* The init container and the preStop hook: set-nas-status.
SetNotReady(n) ==
    /\ main[n] = "down" \/ (main[n] = "up" /\ "stop" \in Faults)
    /\ Write({}, n, [ready |-> FALSE, spec |-> nas[n].spec])
    /\ UNCHANGED <<copy, prepared, main, call, kubelet>>

----------------------------------------------------------------------------
Calls(h) == \E c \in Claims : PrepareCall(h, c) \/ UnprepareCall(h, c)

Handles(h) ==
    \/ NameDevice(h) \/ Get(h) \/ GetFails(h) \/ AssignFirst(h) \/ AssignRest(h)
    \/ Prepare(h) \/ Unprepare(h) \/ GetUpdatedSpec(h)
    \/ UpdateGet(h) \/ UpdatePut(h) \/ UpdateError(h) \/ UpdateFails(h) \/ Done(h)

Starts(n) ==
    \/ StartPlugin(n) \/ MainGet(n) \/ StartNotReady(n) \/ LoadState(n) \/ StartUpdateGet(n)
    \/ StartUpdatePut(n) \/ StartReady(n) \/ MainConflict(n)

Ends(n) ==
    \/ StopPlugin(n) \/ StopNotReady(n) \/ MainFails(n) \/ PluginCrash(n) \/ SetNotReady(n)

\* A claim that a pod uses, or that the kubelet has a call in progress about.
InUse(n, c) ==
    \/ kubelet[n][c].phase # "none"
    \/ \E h \in Handlers : NodeOf[h] = n /\ call[h].claim = c
=============================================================================
