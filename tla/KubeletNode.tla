---------------------------- MODULE KubeletNode ----------------------------
(***************************************************************************)
(* The plugins of module KubeletPlugin between the kubelet, which calls    *)
(* them, and the controller, which writes the same NAS objects.  Of the    *)
(* controller there is what a plugin can notice: a worker that holds a     *)
(* node's mutex has read the NAS, changes its copy of the spec, and stores *)
(* that whole copy some time later (Client.Update), with the prepared      *)
(* claims as they were when it read them.  How workers come to a decision  *)
(* is the subject of module Controller.                                    *)
(***************************************************************************)
EXTENDS KubeletPlugin

CONSTANT
    UsedClaims      \* the claims that pods on the nodes use: the kubelet calls for them

VARIABLES
    allocation, \* the node the claim's status names, None for no allocation
    section,    \* the worker that holds a node's mutex: its claim and the spec it is
                \* about to store, None if there is none
    dropped     \* a history variable, read by properties only: the prepared claims
                \* that such a store took out of the NAS, see Restores

vars == <<pluginVars, allocation, section, dropped>>

SectionType == [claim : Claims, spec : SpecType]

ASSUME UsedClaimsAssumption == UsedClaims \subseteq Claims
ASSUME SectionAssumption == None \notin SectionType /\ None \notin Nodes

NodeTypeOK ==
    /\ PluginTypeOK
    /\ allocation \in [Claims -> Nodes \cup {None}]
    /\ section \in [Nodes -> SectionType \cup {None}]
    /\ dropped \in [Nodes -> SUBSET Claims]

----------------------------------------------------------------------------
(***************************************************************************)
(* The controller.                                                         *)
(***************************************************************************)
InSection(c) == \E n \in Nodes : section[n] # None /\ section[n].claim = c

\* allocate reads the NAS and tests its status.  A recorded claim needs no write;
\* for another one the CPUs were chosen in an earlier section (UnsuitableNodes),
\* of which only that they have room is kept.
ControllerAllocates(n, c) ==
    LET spec == nas[n].spec IN
    /\ section[n] = None /\ ~InSection(c)
    /\ allocation[c] = None /\ nas[n].ready
    /\ \/ /\ c \in spec.claims
          /\ allocation' = [allocation EXCEPT ![c] = n]
          /\ UNCHANGED section
       \/ /\ c \notin spec.claims
          /\ \E S \in SUBSET Fitting(spec.util, Util(c)) :
                /\ Cardinality(S) = Request[c].count
                /\ section' = [section EXCEPT ![n] = [claim |-> c, spec |-> AddClaim(spec, c, S)]]
          /\ UNCHANGED allocation
    /\ UNCHANGED <<pluginVars, dropped>>

\* Deallocate, once no pod uses the claim, or again after it has failed.
ControllerReleases(n, c) ==
    LET spec == nas[n].spec IN
    /\ section[n] = None /\ ~InSection(c)
    /\ allocation[c] \in {n, None} /\ ~InUse(n, c)
    /\ allocation' = [allocation EXCEPT ![c] = None]
    /\ section' = [section EXCEPT ![n] = IF c \in spec.claims
                                           THEN [claim |-> c, spec |-> RemoveClaim(spec, c)]
                                           ELSE None]
    /\ UNCHANGED <<pluginVars, dropped>>

\* The read of Client.Update yields the version and the status, so that it and the
\* write that succeeds are one step.  The answer may be lost, and the same spec is
\* stored again; the controller may end before it writes the claim's status.
ControllerStores(n) ==
    LET spec == section[n].spec
        c == section[n].claim
    IN
    /\ section[n] # None
    /\ Write({}, n, [nas[n] EXCEPT !.spec = spec])
    /\ \/ "api" \in Faults /\ UNCHANGED <<section, allocation>>
       \/ /\ section' = [section EXCEPT ![n] = None]
          /\ \/ UNCHANGED allocation
             \/ c \in spec.claims /\ allocation' = [allocation EXCEPT ![c] = n]
    /\ dropped' = [dropped EXCEPT ![n] = @ \cup (nas[n].spec.prepared \ spec.prepared)]
    /\ UNCHANGED <<copy, prepared, main, call, kubelet>>

\* All attempts have failed, or the controller has ended.
ControllerGivesUp(n) ==
    /\ section[n] # None
    /\ section' = [section EXCEPT ![n] = None]
    /\ UNCHANGED <<pluginVars, allocation, dropped>>

Controls(n) ==
    \/ \E c \in Claims : ControllerAllocates(n, c) \/ ControllerReleases(n, c)
    \/ ControllerStores(n) \/ ControllerGivesUp(n)

----------------------------------------------------------------------------
(***************************************************************************)
(* The plugins' steps, and the kubelet's calls for pods with a claim that  *)
(* is allocated on the node.                                               *)
(***************************************************************************)

\* Where a claim is when nothing the plugin holds has lost it.
InPlace(n) ==
    {c \in Claims : /\ c \in nas[n].spec.prepared
                    /\ c \in copy[n].prepared
                    /\ c \in prepared[n]}

\* A call that gets to its end has stored what the plugin has in memory: a claim that
\* is back in place then is no longer a dropped one.
Restores(h) ==
    LET n == NodeOf[h] IN
    dropped' = [dropped EXCEPT ![n] = IF call[h].pc = "done" THEN @ \ InPlace(n) ELSE @]

KubeletPrepares(h, c) == allocation[c] = NodeOf[h] /\ PrepareCall(h, c)

KubeletCalls(h) == \E c \in UsedClaims : KubeletPrepares(h, c) \/ UnprepareCall(h, c)

Init ==
    /\ nas = [n \in Nodes |-> [ready |-> FALSE, spec |-> EmptySpec]]
    /\ nasFresh = [n \in Nodes |-> {}]
    /\ PluginInit
    /\ allocation = [c \in Claims |-> None]
    /\ section = [n \in Nodes |-> None]
    /\ dropped = [n \in Nodes |-> {}]

PluginSteps ==
    /\ \/ \E h \in Handlers : Handles(h) /\ Restores(h)
       \/ /\ \/ \E h \in Handlers : KubeletCalls(h)
             \/ \E n \in Nodes : Starts(n) \/ Ends(n)
          /\ UNCHANGED dropped
    /\ UNCHANGED <<allocation, section>>

Next == PluginSteps \/ \E n \in Nodes : Controls(n)

Spec == Init /\ [][Next]_vars

\* Handlers and a starting plugin go on; the kubelet repeats a call that failed
\* and calls for every pod that starts.  Nothing makes the controller act.
FairSpec ==
    /\ Spec
    /\ \A h \in Handlers : WF_pluginVars(Handles(h))
    /\ \A n \in Nodes : WF_pluginVars(Starts(n))
    /\ \A c \in UsedClaims :
          /\ SF_pluginVars(\E h \in Handlers : KubeletPrepares(h, c))
          /\ SF_pluginVars(\E h \in Handlers : /\ kubelet[NodeOf[h]][c].phase = "ending"
                                               /\ UnprepareCall(h, c))

----------------------------------------------------------------------------
(***************************************************************************)
(* Properties.                                                             *)
(***************************************************************************)

\* What the kubelet was told is prepared is listed in the NAS, from which a new
\* plugin process learns what it has to unprepare one day.  Only the controller
\* takes it out, which stores a spec it read before the claim was prepared.
PreparedStored ==
    \A n \in Nodes, c \in Claims :
       kubelet[n][c].phase = "prepared" => c \in nas[n].spec.prepared \cup dropped[n]

\* A plugin that serves calls knows every claim the kubelet was told is
\* prepared, whatever failed and however often the process was replaced; but for
\* one that the controller took out of the NAS, which a new process does not find.
PreparedKnown ==
    \A n \in Nodes, c \in Claims :
       main[n] = "up" /\ kubelet[n][c].phase = "prepared" => c \in prepared[n] \cup dropped[n]

\* The device handed to the containers names the CPUs allocated to the claim.
DeviceAllocated ==
    \A n \in Nodes, c \in Claims :
       kubelet[n][c].phase = "prepared" /\ c \in nas[n].spec.claims
          => kubelet[n][c].device = nas[n].spec.cpus[c]

\* From some point on the process on node n runs, nobody else writes the node's
\* NAS, and no request fails for another reason than a conflict.
Calm(n) ==
    /\ <>[](main[n] = "up")
    /\ <>[][/\ ~ControllerStores(n) /\ ~SetNotReady(n)
            /\ \A h \in Handlers : ~GetFails(h) /\ ~(h \in nasFresh[n] /\ UpdateError(h))
           ]_vars

\* A claim that stays allocated and recorded is prepared after enough calls, although
\* the copy that names its device is older than the one it is prepared from, and
\* whatever was lost before in crashes, failures and other clients' writes.
PrepareSucceeds ==
    \A n \in Nodes, c \in UsedClaims :
       Calm(n) /\ <>[](allocation[c] = n /\ c \in nas[n].spec.claims)
          => []<>(kubelet[n][c].phase = "prepared")

\* A claim to be unprepared is so after enough calls, although an earlier call
\* may have unprepared it in memory and failed to store that, and although the
\* process it was prepared by may be gone, or does not know of it.
UnprepareSucceeds ==
    \A n \in Nodes, c \in UsedClaims :
       Calm(n) => (kubelet[n][c].phase = "ending" ~> kubelet[n][c].phase = "none")
=============================================================================
