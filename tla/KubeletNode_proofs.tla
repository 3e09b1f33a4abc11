------------------------- MODULE KubeletNode_proofs -------------------------
(***************************************************************************)
(* Theorems about KubeletNode, for any nodes, claims and handlers.         *)
(***************************************************************************)
EXTENDS KubeletNode, UtilSums

----------------------------------------------------------------------------
(***************************************************************************)
(* Type correctness.                                                       *)
(***************************************************************************)

\* A call has a claim; it counts its attempts only while it updates the NAS, and
\* makes one more only if there is one left.
CallShape(j) ==
    /\ j.pc # "idle" => j.claim \in Claims
    /\ j.pc \in {"device", "get", "state", "sync"} => j.tries = 0
    /\ j.pc \in {"assign", "assignClaims", "assignUtil"} => j.stored \/ j.tries = 0
    /\ j.pc \in {"updateGet", "updatePut"} => j.tries < MaxRetries

CallOK == \A h \in Handlers : CallShape(call[h])

PluginTypeInv == PluginTypeOK /\ CallOK

NodeTypeInv == NodeTypeOK /\ CallOK

LEMMA SpecFields ==
    ASSUME NEW s \in SpecType, NEW t \in SpecType, NEW P \in SUBSET Claims
    PROVE  [s EXCEPT !.util = t.util] \in SpecType /\ [s EXCEPT !.prepared = P] \in SpecType
BY DEF SpecType

LEMMA CpusInType ==
    ASSUME NEW s \in SpecType, NEW c \in Claims
    PROVE  CpusIn(s, c) \in SUBSET Cpus
BY DEF CpusIn, SpecType

LEMMA IdleCall == CallIdle \in CallType /\ CallShape(CallIdle)
<1>1. 0 \in 0 .. MaxRetries
    BY PluginRetriesAssumption
<1> QED BY <1>1, EmptySpecType DEF CallIdle, CallType, CallPCs, CallShape

\* What a handler's variables hold.
LEMMA CallFacts ==
    ASSUME PluginTypeInv, NEW h \in Handlers
    PROVE  /\ NodeOf[h] \in Nodes /\ call[h] \in CallType /\ CallShape(call[h])
           /\ copy[NodeOf[h]] \in SpecType /\ nas[NodeOf[h]].spec \in SpecType
           /\ prepared[NodeOf[h]] \in SUBSET Claims
BY NodeOfAssumption DEF PluginTypeInv, PluginTypeOK, CallOK

LEMMA CallBecomes ==
    ASSUME PluginTypeInv, NEW h \in Handlers, NEW j \in CallType, CallShape(j),
           call' = [call EXCEPT ![h] = j]
    PROVE  call' \in [Handlers -> CallType] /\ CallOK'
BY DEF PluginTypeInv, PluginTypeOK, CallOK

LEMMA FailType ==
    ASSUME PluginTypeInv, NEW h \in Handlers, Fail(h)
    PROVE  call' \in [Handlers -> CallType] /\ CallOK'
BY IdleCall, CallBecomes DEF Fail

\* A step to a place in the code that asks nothing more of the variables.
LEMMA GotoType ==
    ASSUME PluginTypeInv, NEW h \in Handlers, NEW pc \in CallPCs, Goto(h, pc),
           CallShape([call[h] EXCEPT !.pc = pc])
    PROVE  call' \in [Handlers -> CallType] /\ CallOK'
<1> DEFINE j == [call[h] EXCEPT !.pc = pc]
<1>1. j \in CallType
    BY CallFacts DEF CallType
<1>2. call' = [call EXCEPT ![h] = j]
    BY DEF Goto
<1> HIDE DEF j
<1>3. CallShape(j)
    BY DEF j
<1> QED BY <1>1, <1>2, <1>3, CallBecomes

LEMMA ReadType ==
    ASSUME PluginTypeInv, NEW k \in Clients, NEW n \in Nodes, Read(k, n)
    PROVE  nasFresh' \in [Nodes -> SUBSET Clients]
BY DEF Read, PluginTypeInv, PluginTypeOK

LEMMA WriteType ==
    ASSUME PluginTypeInv, NEW k \in SUBSET Clients, NEW n \in Nodes, NEW r \in BOOLEAN,
           NEW s \in SpecType, Write(k, n, [ready |-> r, spec |-> s])
    PROVE  /\ nas' \in [Nodes -> [ready : BOOLEAN, spec : SpecType]]
           /\ nasFresh' \in [Nodes -> SUBSET Clients]
BY DEF Write, PluginTypeInv, PluginTypeOK

\* A write that keeps the status.
LEMMA WriteSpecType ==
    ASSUME PluginTypeInv, NEW k \in SUBSET Clients, NEW n \in Nodes,
           NEW s \in SpecType, Write(k, n, [nas[n] EXCEPT !.spec = s])
    PROVE  /\ nas' \in [Nodes -> [ready : BOOLEAN, spec : SpecType]]
           /\ nasFresh' \in [Nodes -> SUBSET Clients]
<1> DEFINE T == [ready : BOOLEAN, spec : SpecType]
           v == [nas[n] EXCEPT !.spec = s]
<1>1. nas \in [Nodes -> T] /\ nasFresh \in [Nodes -> SUBSET Clients]
    BY DEF PluginTypeInv, PluginTypeOK
<1>2. v \in T
    BY <1>1
<1>3. nas' = [nas EXCEPT ![n] = v] /\ nasFresh' = [nasFresh EXCEPT ![n] = k]
    BY DEF Write
<1> HIDE DEF T, v
<1>4. nas' \in [Nodes -> T] /\ nasFresh' \in [Nodes -> SUBSET Clients]
    BY <1>1, <1>2, <1>3
<1> QED BY <1>4 DEF T

LEMMA CallsType ==
    ASSUME PluginTypeInv, NEW h \in Handlers, NEW c \in Claims
    PROVE  PrepareCall(h, c) \/ UnprepareCall(h, c) => PluginTypeInv'
<1>1. ASSUME PrepareCall(h, c) PROVE PluginTypeInv'
  <2> DEFINE j == [CallIdle EXCEPT !.pc = "device", !.op = "prepare", !.claim = c]
  <2>1. j \in CallType /\ CallShape(j)
      BY IdleCall DEF CallType, CallPCs, CallShape, CallIdle
  <2>2. call' = [call EXCEPT ![h] = j]
      BY <1>1 DEF PrepareCall
  <2> HIDE DEF j
  <2>3. call' \in [Handlers -> CallType] /\ CallOK'
      BY <2>1, <2>2, CallBecomes
  <2> QED BY <1>1, <2>3 DEF PrepareCall, PluginTypeInv, PluginTypeOK
<1>2. ASSUME UnprepareCall(h, c) PROVE PluginTypeInv'
  <2> DEFINE j == [CallIdle EXCEPT !.pc = "get", !.op = "unprepare", !.claim = c]
  <2>1. j \in CallType /\ CallShape(j)
      BY IdleCall DEF CallType, CallPCs, CallShape, CallIdle
  <2>2. call' = [call EXCEPT ![h] = j]
      BY <1>2 DEF UnprepareCall
  <2> HIDE DEF j
  <2>3. call' \in [Handlers -> CallType] /\ CallOK'
      BY <2>1, <2>2, CallBecomes
  <2> DEFINE n == NodeOf[h]
             k == [kubelet[n][c] EXCEPT !.phase = "ending"]
  <2>5. n \in Nodes
      BY CallFacts
  <2>8. kubelet[n][c] \in KubeletType
      BY <2>5 DEF PluginTypeInv, PluginTypeOK
  <2>6. k \in KubeletType
      BY <2>8 DEF KubeletType
  <2>7. kubelet' = [kubelet EXCEPT ![n] = [kubelet[n] EXCEPT ![c] = k]]
      BY <1>2 DEF UnprepareCall
  <2> HIDE DEF n, k
  <2>4. kubelet' \in [Nodes -> [Claims -> KubeletType]]
      BY <2>5, <2>6, <2>7 DEF PluginTypeInv, PluginTypeOK
  <2> QED BY <1>2, <2>3, <2>4 DEF UnprepareCall, PluginTypeInv, PluginTypeOK
<1> QED BY <1>1, <1>2

\* The handlers' steps.
LEMMA HandlesType ==
    ASSUME PluginTypeInv, NEW h \in Handlers
    PROVE  Handles(h) => PluginTypeInv'
<1> DEFINE n == NodeOf[h]
<1>0. /\ n \in Nodes /\ call[h] \in CallType /\ CallShape(call[h])
      /\ copy[n] \in SpecType /\ nas[n].spec \in SpecType /\ prepared[n] \in SUBSET Claims
    BY CallFacts
<1>a. h \in Clients
    BY PluginClientsAssumption
<1>b. call[h].spec \in SpecType /\ call[h].tries \in 0 .. MaxRetries
    BY <1>0 DEF CallType
<1>1. ASSUME NameDevice(h) PROVE PluginTypeInv'
  <2> DEFINE j == [call[h] EXCEPT !.device = CpusIn(copy[n], call[h].claim), !.pc = "get"]
  <2>1. call[h].claim \in Claims
      BY <1>0, <1>1 DEF NameDevice, CallShape
  <2>2. j \in CallType
      BY <1>0, <2>1, CpusInType DEF CallType, CallPCs
  <2>3. CallShape(j)
      BY <1>0, <1>1 DEF NameDevice, CallType, CallShape
  <2>4. call' = [call EXCEPT ![h] = j]
      BY <1>1 DEF NameDevice
  <2> HIDE DEF j
  <2>5. call' \in [Handlers -> CallType] /\ CallOK'
      BY <2>2, <2>3, <2>4, CallBecomes
  <2> QED BY <1>1, <2>5 DEF NameDevice, PluginTypeInv, PluginTypeOK
<1>2. ASSUME Get(h) PROVE PluginTypeInv'
  <2> DEFINE j == [call[h] EXCEPT !.spec = nas[n].spec, !.pc = "assign"]
  <2>2. j \in CallType
      BY <1>0 DEF CallType, CallPCs
  <2>3. CallShape(j)
      BY <1>0, <1>2 DEF Get, CallType, CallShape
  <2>4. call' = [call EXCEPT ![h] = j]
      BY <1>2 DEF Get
  <2> HIDE DEF j
  <2>5. call' \in [Handlers -> CallType] /\ CallOK'
      BY <2>2, <2>3, <2>4, CallBecomes
  <2>6. nasFresh' \in [Nodes -> SUBSET Clients]
      BY <1>0, <1>a, <1>2, ReadType DEF Get
  <2> QED BY <1>2, <2>5, <2>6 DEF Get, PluginTypeInv, PluginTypeOK
<1>3. ASSUME GetFails(h) PROVE PluginTypeInv'
  <2>1. CASE call[h].pc = "get"
      BY <1>3, <2>1, FailType DEF GetFails, PluginTypeInv, PluginTypeOK
  <2>2. CASE call[h].pc # "get"
    <3>1. CallShape([call[h] EXCEPT !.pc = "updateFailed"])
        BY <1>0, <1>3 DEF GetFails, CallType, CallShape
    <3>2. call' \in [Handlers -> CallType] /\ CallOK'
        BY <1>3, <2>2, <3>1, GotoType DEF GetFails, CallPCs
    <3> QED BY <1>3, <3>2 DEF GetFails, PluginTypeInv, PluginTypeOK
  <2> QED BY <2>1, <2>2
<1>4. ASSUME AssignFirst(h) PROVE PluginTypeInv'
  <2>1. /\ CallShape([call[h] EXCEPT !.pc = "assignUtil"])
        /\ CallShape([call[h] EXCEPT !.pc = "assignClaims"])
      BY <1>0, <1>4 DEF AssignFirst, CallType, CallShape
  <2>2. call' \in [Handlers -> CallType] /\ CallOK'
      BY <1>4, <2>1, GotoType DEF AssignFirst, CallPCs
  <2>3. /\ [call[h].spec EXCEPT !.util = copy[n].util] \in SpecType
        /\ [copy[n] EXCEPT !.util = call[h].spec.util] \in SpecType
      BY <1>0, <1>b, SpecFields
  <2>4. \/ copy' = [copy EXCEPT ![n] = [call[h].spec EXCEPT !.util = copy[n].util]]
        \/ copy' = [copy EXCEPT ![n] = [copy[n] EXCEPT !.util = call[h].spec.util]]
      BY <1>4 DEF AssignFirst
  <2>5. copy' \in [Nodes -> SpecType]
      BY <2>3, <2>4 DEF PluginTypeInv, PluginTypeOK
  <2>6. nasFresh' \in [Nodes -> SUBSET Clients]
      BY <1>0, <1>4, PluginClientsAssumption DEF AssignFirst, PluginTypeInv, PluginTypeOK
  <2> QED BY <1>4, <2>2, <2>5, <2>6 DEF AssignFirst, PluginTypeInv, PluginTypeOK
<1>5. ASSUME AssignRest(h) PROVE PluginTypeInv'
  <2> DEFINE pc == IF call[h].stored THEN "done" ELSE "state"
             j == [call[h] EXCEPT !.pc = pc, !.spec = EmptySpec]
  <2>1. j \in CallType
      BY <1>0, EmptySpecType DEF CallType, CallPCs
  <2>2. CallShape(j)
      BY <1>0, <1>5 DEF AssignRest, CallType, CallShape
  <2>3. call' = [call EXCEPT ![h] = j]
      BY <1>5 DEF AssignRest
  <2> HIDE DEF j
  <2>4. call' \in [Handlers -> CallType] /\ CallOK'
      BY <2>1, <2>2, <2>3, CallBecomes
  <2>5. /\ [call[h].spec EXCEPT !.util = copy[n].util] \in SpecType
        /\ [copy[n] EXCEPT !.util = call[h].spec.util] \in SpecType
      BY <1>0, <1>b, SpecFields
  <2>6. \/ copy' = [copy EXCEPT ![n] = [call[h].spec EXCEPT !.util = copy[n].util]]
        \/ copy' = [copy EXCEPT ![n] = [copy[n] EXCEPT !.util = call[h].spec.util]]
      BY <1>5 DEF AssignRest
  <2>7. copy' \in [Nodes -> SpecType]
      BY <2>5, <2>6 DEF PluginTypeInv, PluginTypeOK
  <2> QED BY <1>5, <2>4, <2>7 DEF AssignRest, PluginTypeInv, PluginTypeOK
<1>6. ASSUME Prepare(h) PROVE PluginTypeInv'
  <2>1. call[h].claim \in Claims /\ CallShape([call[h] EXCEPT !.pc = "sync"])
      BY <1>0, <1>6 DEF Prepare, HasDevice, CallType, CallShape
  <2>2. call' \in [Handlers -> CallType] /\ CallOK'
      BY <1>6, <2>1, FailType, GotoType DEF Prepare, HasDevice, CallPCs
  <2>3. prepared' \in [Nodes -> SUBSET Claims]
      BY <1>6, <2>1 DEF Prepare, HasDevice, PluginTypeInv, PluginTypeOK
  <2> QED BY <1>6, <2>2, <2>3 DEF Prepare, HasDevice, PluginTypeInv, PluginTypeOK
<1>7. ASSUME Unprepare(h) PROVE PluginTypeInv'
  <2>1. CallShape([call[h] EXCEPT !.pc = "sync"])
      BY <1>0, <1>7 DEF Unprepare, CallType, CallShape
  <2>2. call' \in [Handlers -> CallType] /\ CallOK'
      BY <1>7, <2>1, GotoType DEF Unprepare, CallPCs
  <2>3. prepared' \in [Nodes -> SUBSET Claims]
      BY <1>7 DEF Unprepare, PluginTypeInv, PluginTypeOK
  <2>4. copy[n].prepared \ {call[h].claim} \in SUBSET Claims
      BY <1>0 DEF SpecType
  <2>5. [copy[n] EXCEPT !.prepared = copy[n].prepared \ {call[h].claim}] \in SpecType
      BY <1>0, <2>4, SpecFields
  <2>6. copy' = [copy EXCEPT ![n] =
                    [copy[n] EXCEPT !.prepared = copy[n].prepared \ {call[h].claim}]]
      BY <1>7 DEF Unprepare
  <2>7. copy' \in [Nodes -> SpecType]
      BY <2>5, <2>6 DEF PluginTypeInv, PluginTypeOK
  <2> QED BY <1>7, <2>2, <2>3, <2>7 DEF Unprepare, PluginTypeInv, PluginTypeOK
<1>8. ASSUME GetUpdatedSpec(h) PROVE PluginTypeInv'
  <2> DEFINE j == [call[h] EXCEPT !.spec = [copy[n] EXCEPT !.prepared = prepared[n]],
                                  !.pc = "updateGet"]
  <2>1. [copy[n] EXCEPT !.prepared = prepared[n]] \in SpecType
      BY <1>0, SpecFields
  <2>2. j \in CallType
      BY <1>0, <2>1 DEF CallType, CallPCs
  <2>3. CallShape(j)
      BY <1>0, <1>8, PluginRetriesAssumption DEF GetUpdatedSpec, CallType, CallShape
  <2>4. call' = [call EXCEPT ![h] = j]
      BY <1>8 DEF GetUpdatedSpec
  <2> HIDE DEF j
  <2>5. call' \in [Handlers -> CallType] /\ CallOK'
      BY <2>2, <2>3, <2>4, CallBecomes
  <2> QED BY <1>8, <2>5 DEF GetUpdatedSpec, PluginTypeInv, PluginTypeOK
<1>9. ASSUME UpdateGet(h) PROVE PluginTypeInv'
  <2>1. CallShape([call[h] EXCEPT !.pc = "updatePut"])
      BY <1>0, <1>9 DEF UpdateGet, CallType, CallShape
  <2>2. call' \in [Handlers -> CallType] /\ CallOK'
      BY <1>9, <2>1, GotoType DEF UpdateGet, CallPCs
  <2>3. nasFresh' \in [Nodes -> SUBSET Clients]
      BY <1>0, <1>a, <1>9, ReadType DEF UpdateGet
  <2> QED BY <1>9, <2>2, <2>3 DEF UpdateGet, PluginTypeInv, PluginTypeOK
<1>10. ASSUME UpdatePut(h) PROVE PluginTypeInv'
  <2> DEFINE j == [call[h] EXCEPT !.stored = TRUE, !.pc = "assign"]
  <2>1. j \in CallType
      BY <1>0 DEF CallType, CallPCs
  <2>2. CallShape(j)
      BY <1>0, <1>10 DEF UpdatePut, CallType, CallShape
  <2>3. call' = [call EXCEPT ![h] = j]
      BY <1>10 DEF UpdatePut
  <2> HIDE DEF j
  <2>4. call' \in [Handlers -> CallType] /\ CallOK'
      BY <2>1, <2>2, <2>3, CallBecomes
  <2>5. /\ nas' \in [Nodes -> [ready : BOOLEAN, spec : SpecType]]
        /\ nasFresh' \in [Nodes -> SUBSET Clients]
    <3>1. Write({h}, n, [nas[n] EXCEPT !.spec = call[h].spec])
        BY <1>10 DEF UpdatePut
    <3>2. {h} \in SUBSET Clients
        BY <1>a
    <3> QED BY <1>0, <1>b, <3>1, <3>2, WriteSpecType
  <2> QED BY <1>10, <2>4, <2>5 DEF UpdatePut, PluginTypeInv, PluginTypeOK
<1>11. ASSUME UpdateError(h) PROVE PluginTypeInv'
  <2> DEFINE pc == IF call[h].tries + 1 < MaxRetries THEN "updateGet" ELSE "updateFailed"
             j == [call[h] EXCEPT !.tries = @ + 1, !.pc = pc]
  <2>1. call[h].tries < MaxRetries
      BY <1>0, <1>11 DEF UpdateError, CallShape
  <2>2. call[h].tries + 1 \in 0 .. MaxRetries
      BY <1>b, <2>1, PluginRetriesAssumption
  <2>3. j \in CallType
      BY <1>0, <2>2 DEF CallType, CallPCs
  <2>4. CallShape(j)
      BY <1>0, <1>11 DEF UpdateError, CallType, CallShape
  <2>5. call' = [call EXCEPT ![h] = j]
      BY <1>11 DEF UpdateError
  <2> HIDE DEF j
  <2>6. call' \in [Handlers -> CallType] /\ CallOK'
      BY <2>3, <2>4, <2>5, CallBecomes
  <2>7. \/ nas' = nas /\ nasFresh' = [nasFresh EXCEPT ![n] = @ \ {h}]
        \/ Write({}, n, [nas[n] EXCEPT !.spec = call[h].spec])
      BY <1>11 DEF UpdateError
  <2>8. /\ nas' \in [Nodes -> [ready : BOOLEAN, spec : SpecType]]
        /\ nasFresh' \in [Nodes -> SUBSET Clients]
      BY <1>0, <1>b, <2>7, WriteSpecType DEF PluginTypeInv, PluginTypeOK
  <2> QED BY <1>11, <2>6, <2>8 DEF UpdateError, PluginTypeInv, PluginTypeOK
<1>12. ASSUME UpdateFails(h) PROVE PluginTypeInv'
  <2>1. prepared' \in [Nodes -> SUBSET Claims]
      BY <1>12 DEF UpdateFails, PluginTypeInv, PluginTypeOK
  <2> QED BY <1>12, <2>1, FailType DEF UpdateFails, PluginTypeInv, PluginTypeOK
<1>13. ASSUME Done(h) PROVE PluginTypeInv'
  <2>1. call[h].claim \in Claims /\ call[h].device \in SUBSET Cpus
      BY <1>0, <1>13 DEF Done, CallType, CallShape
  <2>2. /\ kubelet[n][call[h].claim] \in KubeletType /\ Unknown \in KubeletType
        /\ [phase |-> "prepared", device |-> call[h].device] \in KubeletType
      BY <1>0, <2>1 DEF PluginTypeInv, PluginTypeOK, KubeletType, Unknown
  <2> DEFINE c == call[h].claim
             v == CASE main[n] # "up" -> kubelet[n][c]
                    [] main[n] = "up" /\ call[h].op = "prepare" ->
                         [phase |-> "prepared", device |-> call[h].device]
                    [] OTHER -> Unknown
  <2>3. v \in KubeletType
      BY <2>2
  <2>6. kubelet' = [kubelet EXCEPT ![n] = [kubelet[n] EXCEPT ![c] = v]]
      BY <1>13 DEF Done
  <2> HIDE DEF v, c
  <2>4. kubelet' \in [Nodes -> [Claims -> KubeletType]]
      BY <1>0, <2>1, <2>3, <2>6 DEF PluginTypeInv, PluginTypeOK
  <2>5. call' \in [Handlers -> CallType] /\ CallOK'
      BY <1>13, IdleCall, CallBecomes DEF Done
  <2> QED BY <1>13, <2>4, <2>5 DEF Done, PluginTypeInv, PluginTypeOK
<1> QED BY <1>1, <1>2, <1>3, <1>4, <1>5, <1>6, <1>7, <1>8, <1>9, <1>10, <1>11, <1>12, <1>13
        DEF Handles

\* The plugin's start and end.
LEMMA GoneType ==
    ASSUME PluginTypeInv, NEW n \in Nodes, Gone(n)
    PROVE  /\ main' \in [Nodes -> MainPCs] /\ prepared' \in [Nodes -> SUBSET Claims]
           /\ copy' \in [Nodes -> SpecType]
           /\ call' \in [Handlers -> CallType] /\ CallOK'
<1>1. call' \in [Handlers -> CallType] /\ CallOK'
    BY IdleCall DEF Gone, PluginTypeInv, PluginTypeOK, CallOK
<1>2. copy' \in [Nodes -> SpecType]
    BY EmptySpecType DEF Gone, PluginTypeInv, PluginTypeOK
<1> QED BY <1>1, <1>2 DEF Gone, PluginTypeInv, PluginTypeOK, MainPCs

LEMMA StartsEndsType ==
    ASSUME PluginTypeInv, NEW n \in Nodes
    PROVE  Starts(n) \/ Ends(n) => PluginTypeInv'
<1>0. /\ copy[n] \in SpecType /\ nas[n] \in [ready : BOOLEAN, spec : SpecType]
      /\ prepared[n] \in SUBSET Claims /\ main[n] \in MainPCs
    BY DEF PluginTypeInv, PluginTypeOK
<1>a. n \in Clients /\ {n} \in SUBSET Clients /\ nas[n].spec \in SpecType
    BY <1>0, PluginClientsAssumption
<1>1. ASSUME StartPlugin(n) \/ StopPlugin(n) PROVE PluginTypeInv'
    BY <1>1 DEF StartPlugin, StopPlugin, PluginTypeInv, PluginTypeOK, MainPCs, CallOK
<1>2. ASSUME MainGet(n) PROVE PluginTypeInv'
  <2>1. nasFresh' \in [Nodes -> SUBSET Clients]
      BY <1>a, <1>2, ReadType DEF MainGet
  <2>2. copy' \in [Nodes -> SpecType] /\ main' \in [Nodes -> MainPCs]
      BY <1>a, <1>2 DEF MainGet, PluginTypeInv, PluginTypeOK, MainPCs
  <2> QED BY <1>2, <2>1, <2>2 DEF MainGet, PluginTypeInv, PluginTypeOK, CallOK
<1>3. ASSUME StartNotReady(n) PROVE PluginTypeInv'
  <2>1. /\ nas' \in [Nodes -> [ready : BOOLEAN, spec : SpecType]]
        /\ nasFresh' \in [Nodes -> SUBSET Clients]
      BY <1>0, <1>a, <1>3, WriteType DEF StartNotReady
  <2>2. main' \in [Nodes -> MainPCs]
      BY <1>3 DEF StartNotReady, PluginTypeInv, PluginTypeOK, MainPCs
  <2> QED BY <1>3, <2>1, <2>2 DEF StartNotReady, PluginTypeInv, PluginTypeOK, CallOK
<1>4. ASSUME LoadState(n) PROVE PluginTypeInv'
  <2>1. copy[n].prepared \in SUBSET Claims
      BY <1>0 DEF SpecType
  <2> QED BY <1>4, <2>1 DEF LoadState, PluginTypeInv, PluginTypeOK, MainPCs, CallOK
<1>5. ASSUME StartUpdateGet(n) PROVE PluginTypeInv'
  <2>1. nasFresh' \in [Nodes -> SUBSET Clients]
      BY <1>a, <1>5, ReadType DEF StartUpdateGet
  <2> QED BY <1>5, <2>1 DEF StartUpdateGet, PluginTypeInv, PluginTypeOK, MainPCs, CallOK
<1>6. ASSUME StartUpdatePut(n) PROVE PluginTypeInv'
  <2> DEFINE spec == [copy[n] EXCEPT !.prepared = prepared[n]]
  <2>1. spec \in SpecType
      BY <1>0, SpecFields
  <2>2. Write({n}, n, [nas[n] EXCEPT !.spec = spec]) /\ copy' = [copy EXCEPT ![n] = spec]
      BY <1>6 DEF StartUpdatePut
  <2> HIDE DEF spec
  <2>3. /\ nas' \in [Nodes -> [ready : BOOLEAN, spec : SpecType]]
        /\ nasFresh' \in [Nodes -> SUBSET Clients]
      BY <1>a, <2>1, <2>2, WriteSpecType
  <2>4. copy' \in [Nodes -> SpecType]
      BY <2>1, <2>2 DEF PluginTypeInv, PluginTypeOK
  <2>5. main' \in [Nodes -> MainPCs]
      BY <1>6 DEF StartUpdatePut, PluginTypeInv, PluginTypeOK, MainPCs
  <2> QED BY <1>6, <2>3, <2>4, <2>5 DEF StartUpdatePut, PluginTypeInv, PluginTypeOK, CallOK
<1>7. ASSUME StartReady(n) PROVE PluginTypeInv'
  <2>1. /\ nas' \in [Nodes -> [ready : BOOLEAN, spec : SpecType]]
        /\ nasFresh' \in [Nodes -> SUBSET Clients]
      BY <1>0, <1>a, <1>7, WriteType DEF StartReady
  <2>2. main' \in [Nodes -> MainPCs]
      BY <1>7 DEF StartReady, PluginTypeInv, PluginTypeOK, MainPCs
  <2> QED BY <1>7, <2>1, <2>2 DEF StartReady, PluginTypeInv, PluginTypeOK, CallOK
<1>8. ASSUME MainConflict(n) PROVE PluginTypeInv'
  <2>1. CASE Gone(n)
      BY <1>8, <2>1, GoneType DEF MainConflict, PluginTypeInv, PluginTypeOK
  <2>2. CASE ~Gone(n)
    <3>1. main' \in [Nodes -> MainPCs]
        BY <1>8, <2>2 DEF MainConflict, PluginTypeInv, PluginTypeOK, MainPCs
    <3> QED BY <1>8, <2>2, <3>1 DEF MainConflict, PluginTypeInv, PluginTypeOK, CallOK
  <2> QED BY <2>1, <2>2
<1>9. ASSUME StopNotReady(n) PROVE PluginTypeInv'
  <2>1. /\ nas' \in [Nodes -> [ready : BOOLEAN, spec : SpecType]]
        /\ nasFresh' \in [Nodes -> SUBSET Clients]
      BY <1>0, <1>9, WriteType DEF StopNotReady
  <2> QED BY <1>9, <2>1, GoneType DEF StopNotReady, PluginTypeInv, PluginTypeOK
<1>10. ASSUME MainFails(n) \/ PluginCrash(n) PROVE PluginTypeInv'
    BY <1>10, GoneType DEF MainFails, PluginCrash, PluginTypeInv, PluginTypeOK
<1>11. ASSUME SetNotReady(n) PROVE PluginTypeInv'
  <2>1. Write({}, n, [ready |-> FALSE, spec |-> nas[n].spec])
      BY <1>11 DEF SetNotReady
  <2>2. /\ nas' \in [Nodes -> [ready : BOOLEAN, spec : SpecType]]
        /\ nasFresh' \in [Nodes -> SUBSET Clients]
      BY <1>a, <2>1, WriteType
  <2> QED BY <1>11, <2>2 DEF SetNotReady, PluginTypeInv, PluginTypeOK, CallOK
<1> QED BY <1>1, <1>2, <1>3, <1>4, <1>5, <1>6, <1>7, <1>8, <1>9, <1>10, <1>11 DEF Starts, Ends

\* What a worker has in its section, and what it stores.
LEMMA ControlsType ==
    ASSUME NodeTypeInv, NEW n \in Nodes
    PROVE  Controls(n) => NodeTypeInv'
<1>0. /\ PluginTypeInv /\ nas[n].spec \in SpecType
      /\ allocation \in [Claims -> Nodes \cup {None}]
      /\ section \in [Nodes -> SectionType \cup {None}]
      /\ dropped \in [Nodes -> SUBSET Claims]
    BY DEF NodeTypeInv, NodeTypeOK, PluginTypeInv, PluginTypeOK
<1>1. ASSUME UNCHANGED pluginVars,
             allocation' \in [Claims -> Nodes \cup {None}],
             section' \in [Nodes -> SectionType \cup {None}],
             dropped' \in [Nodes -> SUBSET Claims]
      PROVE  NodeTypeInv'
    BY <1>1 DEF NodeTypeInv, NodeTypeOK, pluginVars, PluginTypeOK, CallOK
<1>2. ASSUME NEW c \in Claims, ControllerAllocates(n, c) PROVE NodeTypeInv'
  <2>1. ASSUME NEW S \in SUBSET Fitting(nas[n].spec.util, Util(c)),
               section' = [section EXCEPT ![n] = [claim |-> c, spec |-> AddClaim(nas[n].spec, c, S)]]
        PROVE  section' \in [Nodes -> SectionType \cup {None}]
    <3>1. S \in SUBSET Cpus
        BY <1>0 DEF Fitting, SpecType
    <3>2. AddClaim(nas[n].spec, c, S) \in SpecType
        BY <1>0, <3>1, AddClaimType
    <3> QED BY <1>0, <2>1, <3>2 DEF SectionType
  <2>2. section' \in [Nodes -> SectionType \cup {None}]
      BY <1>0, <1>2, <2>1 DEF ControllerAllocates
  <2>3. allocation' \in [Claims -> Nodes \cup {None}]
      BY <1>0, <1>2 DEF ControllerAllocates
  <2> QED BY <1>0, <1>1, <1>2, <2>2, <2>3 DEF ControllerAllocates
<1>3. ASSUME NEW c \in Claims, ControllerReleases(n, c) PROVE NodeTypeInv'
  <2>1. [claim |-> c, spec |-> RemoveClaim(nas[n].spec, c)] \in SectionType
      BY <1>0, RemoveClaimType DEF SectionType
  <2>2. section' \in [Nodes -> SectionType \cup {None}]
      BY <1>0, <1>3, <2>1 DEF ControllerReleases
  <2>3. allocation' \in [Claims -> Nodes \cup {None}]
      BY <1>0, <1>3 DEF ControllerReleases
  <2> QED BY <1>0, <1>1, <1>3, <2>2, <2>3 DEF ControllerReleases
<1>4. ASSUME ControllerStores(n) PROVE NodeTypeInv'
  <2>1. section[n].spec \in SpecType /\ Write({}, n, [nas[n] EXCEPT !.spec = section[n].spec])
      BY <1>0, <1>4 DEF ControllerStores, SectionType
  <2>2. /\ nas' \in [Nodes -> [ready : BOOLEAN, spec : SpecType]]
        /\ nasFresh' \in [Nodes -> SUBSET Clients]
      BY <1>0, <2>1, WriteSpecType
  <2>3. /\ section' \in [Nodes -> SectionType \cup {None}]
        /\ allocation' \in [Claims -> Nodes \cup {None}]
      BY <1>0, <1>4 DEF ControllerStores
  <2>4. dropped' \in [Nodes -> SUBSET Claims]
    <3>1. nas[n].spec.prepared \in SUBSET Claims
        BY <1>0 DEF SpecType
    <3> QED BY <1>0, <1>4, <3>1 DEF ControllerStores
  <2> QED BY <1>4, <2>2, <2>3, <2>4
          DEF ControllerStores, NodeTypeInv, NodeTypeOK, PluginTypeOK, CallOK
<1>5. ASSUME ControllerGivesUp(n) PROVE NodeTypeInv'
  <2>1. section' \in [Nodes -> SectionType \cup {None}]
      BY <1>0, <1>5 DEF ControllerGivesUp
  <2> QED BY <1>0, <1>1, <1>5, <2>1 DEF ControllerGivesUp
<1> QED BY <1>2, <1>3, <1>4, <1>5 DEF Controls

LEMMA NodeInitType == Init => NodeTypeInv
<1>1. Init => PluginTypeInv
    BY IdleCall, EmptySpecType, NodeOfAssumption
       DEF Init, PluginInit, PluginTypeInv, PluginTypeOK, CallOK, KubeletType, Unknown, MainPCs
<1> QED BY <1>1 DEF Init, PluginTypeInv, NodeTypeInv, NodeTypeOK

LEMMA PluginStepsType == NodeTypeInv /\ PluginSteps => NodeTypeInv'
<1> SUFFICES ASSUME NodeTypeInv, PluginSteps PROVE NodeTypeInv'
    OBVIOUS
<1>0. PluginTypeInv
    BY DEF NodeTypeInv, NodeTypeOK, PluginTypeInv
<1>1. ASSUME NEW h \in Handlers, Handles(h), Restores(h) PROVE NodeTypeInv'
  <2>1. PluginTypeInv'
      BY <1>0, <1>1, HandlesType
  <2>2. dropped' \in [Nodes -> SUBSET Claims]
      BY <1>1 DEF Restores, NodeTypeInv, NodeTypeOK
  <2> QED BY <2>1, <2>2 DEF PluginSteps, PluginTypeInv, NodeTypeInv, NodeTypeOK
<1>2. ASSUME NEW h \in Handlers, KubeletCalls(h), UNCHANGED dropped PROVE NodeTypeInv'
  <2>1. PluginTypeInv'
      BY <1>0, <1>2, CallsType, UsedClaimsAssumption DEF KubeletCalls, KubeletPrepares
  <2> QED BY <1>2, <2>1 DEF PluginSteps, PluginTypeInv, NodeTypeInv, NodeTypeOK
<1>3. ASSUME NEW n \in Nodes, Starts(n) \/ Ends(n), UNCHANGED dropped PROVE NodeTypeInv'
  <2>1. PluginTypeInv'
      BY <1>0, <1>3, StartsEndsType
  <2> QED BY <1>3, <2>1 DEF PluginSteps, PluginTypeInv, NodeTypeInv, NodeTypeOK
<1> QED BY <1>1, <1>2, <1>3 DEF PluginSteps

LEMMA NodeNextType == NodeTypeInv /\ [Next]_vars => NodeTypeInv'
<1> SUFFICES ASSUME NodeTypeInv, [Next]_vars PROVE NodeTypeInv'
    OBVIOUS
<1>1. CASE UNCHANGED vars
    BY <1>1 DEF vars, pluginVars, NodeTypeInv, NodeTypeOK, PluginTypeOK, CallOK
<1> QED BY <1>1, PluginStepsType, ControlsType DEF Next

THEOREM NodeTypeInvariant == Spec => []NodeTypeInv
<1> QED BY NodeInitType, NodeNextType, PTL DEF Spec

\* Every variable has its type in every reachable state, however many handlers share
\* the copy and whatever spec the controller puts back: no call acts for a claim it
\* was not given and none makes more attempts than Client.Update allows.
THEOREM NodeTypeCorrect == Spec => []NodeTypeOK
<1>1. NodeTypeInv => NodeTypeOK
    BY DEF NodeTypeInv
<1> QED BY <1>1, NodeTypeInvariant, PTL

----------------------------------------------------------------------------
(***************************************************************************)
(* What the plugin knows, if no claim is shared and nothing fails but      *)
(* requests to the API server.                                             *)
(***************************************************************************)

\* The claim of a call that prepares is prepared once the call writes it.
Writing(j) == j.stored \/ j.pc \in {"sync", "updateGet", "updatePut", "done"}

\* A call in progress is one the kubelet waits for.
Serves(h) ==
    LET j == call[h]
        n == NodeOf[h]
    IN
    /\ j.pc = "idle" <=> j.op = "none"
    /\ j.op # "none" => main[n] = "up"
    /\ j.op = "prepare" => kubelet[n][j.claim].phase = "none"
    /\ j.op = "unprepare" => kubelet[n][j.claim].phase = "ending"
    /\ j.op = "prepare" /\ Writing(j) => j.claim \in prepared[n]

\* Two calls of one plugin are about different claims.
Apart ==
    \A g, h \in Handlers :
       g # h /\ NodeOf[g] = NodeOf[h] /\ call[g].op # "none" /\ call[h].op # "none"
          => call[g].claim # call[h].claim

\* The kubelet knows of a claim only while a plugin serves.
KnownWhileUp == \A n \in Nodes, c \in Claims : main[n] # "up" => kubelet[n][c].phase = "none"

\* A serving plugin has every claim in memory that the kubelet was told is prepared.
Remembered ==
    \A n \in Nodes, c \in Claims :
       main[n] = "up" /\ kubelet[n][c].phase = "prepared" => c \in prepared[n]

ServingInv == (\A h \in Handlers : Serves(h)) /\ Apart /\ KnownWhileUp /\ Remembered

KnownInv == PluginTypeInv /\ ServingInv

\* A step of a handler that ends neither with an answer nor with a success.
LEMMA HandlerServes ==
    ASSUME KnownInv, NEW h \in Handlers, NEW j \in CallType,
           call[h].op # "none",
           call' = [call EXCEPT ![h] = j], UNCHANGED <<main, kubelet>>,
           j.pc = "idle" <=> j.op = "none",
           j.op # "none" => j.op = call[h].op /\ j.claim = call[h].claim,
           j.op = "prepare" /\ Writing(j) => j.claim \in prepared'[NodeOf[h]],
           \A m \in Nodes, c \in Claims :
              c \in prepared[m] \ prepared'[m]
                 => m = NodeOf[h] /\ c = call[h].claim
    PROVE  ServingInv'
<1> USE DEF KnownInv, ServingInv
<1> DEFINE n == NodeOf[h]
<1>0. /\ n \in Nodes /\ call \in [Handlers -> CallType] /\ call[h].claim \in Claims
      /\ call[h].op \in {"prepare", "unprepare"} /\ CallType = CallType'
    BY CallFacts DEF PluginTypeInv, PluginTypeOK, CallType, CallShape, Serves
<1>1. /\ call'[h] = j
      /\ \A g \in Handlers : g # h => call'[g] = call[g]
    BY <1>0
<1>2. Serves(h)'
    BY <1>0, <1>1 DEF Serves, Writing
<1>3. ASSUME NEW g \in Handlers, g # h PROVE Serves(g)'
  <2>1. Serves(g) /\ call'[g] = call[g]
      BY <1>1, <1>3
  <2>2. NodeOf[g] \in Nodes /\ (call[g].op # "none" => call[g].claim \in Claims)
      BY CallFacts, <2>1 DEF Serves, CallShape
  <2>3. ASSUME call[g].op = "prepare", call[g].claim \in prepared[NodeOf[g]]
        PROVE  call[g].claim \in prepared'[NodeOf[g]]
      BY <1>3, <2>2, <2>3 DEF Apart
  <2> QED BY <2>1, <2>3 DEF Serves, Writing
<1>4. Apart'
    BY <1>0, <1>1 DEF Apart
<1>5. kubelet[n][call[h].claim].phase # "prepared"
    BY <1>0 DEF Serves
<1>6. KnownWhileUp' /\ Remembered'
    BY <1>5 DEF KnownWhileUp, Remembered
<1> QED BY <1>2, <1>3, <1>4, <1>6

\* A handler that returns an error.
LEMMA FailServes ==
    ASSUME KnownInv, NEW h \in Handlers, Fail(h), call[h].op # "none",
           UNCHANGED <<main, kubelet>>,
           \A m \in Nodes, c \in Claims :
              c \in prepared[m] \ prepared'[m]
                 => m = NodeOf[h] /\ c = call[h].claim
    PROVE  ServingInv'
<1>1. CallIdle \in CallType /\ CallIdle.pc = "idle" /\ CallIdle.op = "none"
    BY IdleCall DEF CallIdle
<1>2. call' = [call EXCEPT ![h] = CallIdle]
    BY DEF Fail
<1> QED BY <1>1, <1>2, HandlerServes

\* A handler that goes on.
LEMMA GotoServes ==
    ASSUME KnownInv, NEW h \in Handlers, NEW pc \in CallPCs, pc # "idle", Goto(h, pc),
           call[h].op # "none", UNCHANGED <<main, kubelet>>,
           call[h].op = "prepare" /\ Writing([call[h] EXCEPT !.pc = pc])
              => call[h].claim \in prepared'[NodeOf[h]],
           \A m \in Nodes, c \in Claims :
              c \in prepared[m] \ prepared'[m]
                 => m = NodeOf[h] /\ c = call[h].claim
    PROVE  ServingInv'
<1> DEFINE j == [call[h] EXCEPT !.pc = pc]
<1>1. PluginTypeInv /\ call[h] \in CallType
    BY CallFacts DEF KnownInv
<1>2. /\ j \in CallType /\ j.pc = pc /\ j.op = call[h].op /\ j.claim = call[h].claim
    BY <1>1 DEF CallType
<1>3. call' = [call EXCEPT ![h] = j]
    BY DEF Goto
<1>4. call[h].op = "prepare" /\ Writing(j) => call[h].claim \in prepared'[NodeOf[h]]
    OBVIOUS
<1> HIDE DEF j
<1> QED BY <1>2, <1>3, <1>4, HandlerServes

LEMMA CallsServe ==
    ASSUME KnownInv, SharedClaims = {}, NEW h \in Handlers, NEW c \in Claims
    PROVE  PrepareCall(h, c) \/ UnprepareCall(h, c) => ServingInv'
<1> USE DEF KnownInv, ServingInv
<1> DEFINE n == NodeOf[h]
<1>0. /\ n \in Nodes /\ call \in [Handlers -> CallType]
      /\ kubelet \in [Nodes -> [Claims -> KubeletType]]
    BY CallFacts DEF PluginTypeInv, PluginTypeOK
<1>a. \A g \in Handlers : /\ call[g].op \in {"none", "prepare", "unprepare"}
                          /\ NodeOf[g] \in Nodes
                          /\ call[g].op # "none" => call[g].claim \in Claims
    BY CallFacts DEF Serves, CallShape, CallType
<1>1. ASSUME PrepareCall(h, c) PROVE ServingInv'
  <2> DEFINE j == [CallIdle EXCEPT !.pc = "device", !.op = "prepare", !.claim = c]
  <2>1. /\ j.pc = "device" /\ j.op = "prepare" /\ j.claim = c /\ j.stored = FALSE
      BY DEF CallIdle
  <2>2. call' = [call EXCEPT ![h] = j] /\ UNCHANGED <<main, kubelet, prepared>>
      BY <1>1 DEF PrepareCall
  <2> HIDE DEF j
  <2>3. /\ call'[h] = j
        /\ \A g \in Handlers : g # h => call'[g] = call[g]
      BY <1>0, <2>2
  <2>4. /\ main[n] = "up" /\ kubelet[n][c].phase = "none"
        /\ \A g \in Handlers : NodeOf[g] = n /\ call[g].claim = c => call[g].op # "prepare"
      BY <1>1 DEF PrepareCall, Calling
  <2>5. \A g \in Handlers : Serves(g)'
      BY <2>1, <2>2, <2>3, <2>4 DEF Serves, Writing
  <2>6. \A g \in Handlers : NodeOf[g] = n /\ call[g].op # "none" => call[g].claim # c
      BY <1>a, <2>4 DEF Serves
  <2>7. Apart'
      BY <2>1, <2>3, <2>6 DEF Apart
  <2> QED BY <2>2, <2>5, <2>7 DEF KnownWhileUp, Remembered
<1>2. ASSUME UnprepareCall(h, c) PROVE ServingInv'
  <2> DEFINE j == [CallIdle EXCEPT !.pc = "get", !.op = "unprepare", !.claim = c]
             k == [kubelet[n][c] EXCEPT !.phase = "ending"]
  <2>1. /\ j.pc = "get" /\ j.op = "unprepare" /\ j.claim = c /\ j.stored = FALSE
      BY DEF CallIdle
  <2>2. /\ call' = [call EXCEPT ![h] = j] /\ UNCHANGED <<main, prepared>>
        /\ kubelet' = [kubelet EXCEPT ![n] = [kubelet[n] EXCEPT ![c] = k]]
      BY <1>2 DEF UnprepareCall
  <2>3. k.phase = "ending"
      BY <1>0 DEF KubeletType
  <2> HIDE DEF j, k
  <2>4. /\ call'[h] = j
        /\ \A g \in Handlers : g # h => call'[g] = call[g]
      BY <1>0, <2>2
  <2>5. /\ kubelet'[n][c].phase = "ending"
        /\ \A m \in Nodes, d \in Claims : m # n \/ d # c => kubelet'[m][d] = kubelet[m][d]
      BY <1>0, <2>2, <2>3
  <2>6. /\ main[n] = "up" /\ kubelet[n][c].phase \in {"prepared", "ending"}
        /\ \A g \in Handlers : NodeOf[g] = n /\ call[g].claim = c => call[g].op # "unprepare"
      BY <1>2 DEF UnprepareCall, Calling
  <2>7. \A g \in Handlers : NodeOf[g] = n /\ call[g].op # "none" => call[g].claim # c
      BY <1>a, <2>6 DEF Serves
  <2>8. Serves(h)'
      BY <2>1, <2>2, <2>4, <2>5, <2>6 DEF Serves, Writing
  <2>9. \A g \in Handlers : g # h => Serves(g)'
      BY <1>a, <2>2, <2>4, <2>5, <2>7 DEF Serves, Writing
  <2>10. Apart'
      BY <2>1, <2>4, <2>7 DEF Apart
  <2>11. KnownWhileUp' /\ Remembered'
      BY <1>0, <2>2, <2>5, <2>6 DEF KnownWhileUp, Remembered
  <2> QED BY <2>8, <2>9, <2>10, <2>11
<1> QED BY <1>1, <1>2

LEMMA HandlesServe ==
    ASSUME KnownInv, NEW h \in Handlers
    PROVE  Handles(h) => ServingInv'
<1> DEFINE n == NodeOf[h]
<1>0. /\ n \in Nodes /\ call[h] \in CallType /\ Serves(h) /\ PluginTypeInv
      /\ prepared \in [Nodes -> SUBSET Claims]
    BY CallFacts DEF KnownInv, ServingInv, PluginTypeInv, PluginTypeOK
<1>a. call[h].pc # "idle" => call[h].op # "none" /\ call[h].claim \in Claims
    BY <1>0, CallFacts DEF Serves, CallShape
<1>1. ASSUME NameDevice(h) PROVE ServingInv'
  <2> DEFINE j == [call[h] EXCEPT !.device = CpusIn(copy[n], call[h].claim), !.pc = "get"]
  <2>1. call' = [call EXCEPT ![h] = j]
      BY <1>1 DEF NameDevice
  <2>2. CpusIn(copy[n], call[h].claim) \in SUBSET Cpus
      BY <1>0, <1>1, <1>a, CallFacts, CpusInType DEF NameDevice
  <2>3. /\ j \in CallType /\ j.pc = "get" /\ j.op = call[h].op /\ j.claim = call[h].claim
        /\ j.stored = call[h].stored
      BY <1>0, <2>2 DEF CallType, CallPCs
  <2> HIDE DEF j
  <2> QED BY <1>0, <1>1, <1>a, <2>1, <2>3, HandlerServes DEF NameDevice, Serves, Writing
<1>2. ASSUME Get(h) PROVE ServingInv'
  <2> DEFINE j == [call[h] EXCEPT !.spec = nas[n].spec, !.pc = "assign"]
  <2>1. call' = [call EXCEPT ![h] = j]
      BY <1>2 DEF Get
  <2>3. /\ j \in CallType /\ j.pc = "assign" /\ j.op = call[h].op /\ j.claim = call[h].claim
        /\ j.stored = call[h].stored
      BY <1>0, CallFacts DEF CallType, CallPCs
  <2> HIDE DEF j
  <2> QED BY <1>0, <1>2, <1>a, <2>1, <2>3, HandlerServes DEF Get, Serves, Writing
<1>3. ASSUME GetFails(h) PROVE ServingInv'
  <2>1. call[h].op # "none" /\ UNCHANGED <<main, kubelet, prepared>>
      BY <1>3, <1>a DEF GetFails
  <2>2. CASE Fail(h)
      BY <2>1, <2>2, FailServes
  <2>3. CASE Goto(h, "updateFailed") /\ call[h].pc = "updateGet"
    <3>1. call[h].op = "prepare" => call[h].claim \in prepared[n]
        BY <1>0, <2>3 DEF Serves, Writing
    <3> QED BY <2>1, <2>3, <3>1, GotoServes DEF CallPCs
  <2> QED BY <1>3, <2>2, <2>3 DEF GetFails
<1>4. ASSUME AssignFirst(h) PROVE ServingInv'
  <2>1. /\ call[h].op # "none" /\ UNCHANGED <<main, kubelet, prepared>>
        /\ Goto(h, "assignUtil") \/ Goto(h, "assignClaims")
      BY <1>4, <1>a DEF AssignFirst
  <2>2. \A pc \in {"assignUtil", "assignClaims"} :
           call[h].op = "prepare" /\ Writing([call[h] EXCEPT !.pc = pc])
              => call[h].claim \in prepared[n]
      BY <1>0 DEF Serves, Writing, CallType
  <2> QED BY <2>1, <2>2, GotoServes DEF CallPCs
<1>5. ASSUME AssignRest(h) PROVE ServingInv'
  <2> DEFINE j == [call[h] EXCEPT !.pc = IF call[h].stored THEN "done" ELSE "state",
                                  !.spec = EmptySpec]
  <2>1. call' = [call EXCEPT ![h] = j]
      BY <1>5 DEF AssignRest
  <2>3. /\ j \in CallType /\ j.op = call[h].op /\ j.claim = call[h].claim
        /\ j.stored = call[h].stored /\ j.pc \in {"done", "state"}
        /\ j.pc = "done" => j.stored
      BY <1>0, EmptySpecType DEF CallType, CallPCs
  <2> HIDE DEF j
  <2> QED BY <1>0, <1>5, <1>a, <2>1, <2>3, HandlerServes DEF AssignRest, Serves, Writing
<1>6. ASSUME Prepare(h) PROVE ServingInv'
  <2>1. /\ call[h].op # "none" /\ UNCHANGED <<main, kubelet>>
        /\ \/ UNCHANGED prepared /\ Fail(h)
           \/ /\ prepared' = [prepared EXCEPT ![n] = prepared[n] \cup {call[h].claim}]
              /\ Fail(h) \/ Goto(h, "sync")
      BY <1>0, <1>6, <1>a DEF Prepare
  <2>2. /\ ~Fail(h) => call[h].claim \in prepared'[n]
        /\ \A m \in Nodes, c \in Claims : c \notin prepared[m] \ prepared'[m]
      BY <1>0, <2>1
  <2> QED BY <2>1, <2>2, FailServes, GotoServes DEF CallPCs
<1>7. ASSUME Unprepare(h) PROVE ServingInv'
  <2>1. /\ call[h].op = "unprepare" /\ UNCHANGED <<main, kubelet>>
        /\ prepared' = [prepared EXCEPT ![n] = prepared[n] \ {call[h].claim}]
        /\ Goto(h, "sync")
      BY <1>7 DEF Unprepare
  <2>2. \A m \in Nodes, c \in Claims :
           c \in prepared[m] \ prepared'[m] => m = n /\ c = call[h].claim
      BY <1>0, <2>1
  <2> QED BY <2>1, <2>2, GotoServes DEF CallPCs
<1>8. ASSUME GetUpdatedSpec(h) PROVE ServingInv'
  <2> DEFINE j == [call[h] EXCEPT !.spec = [copy[n] EXCEPT !.prepared = prepared[n]],
                                  !.pc = "updateGet"]
  <2>1. call' = [call EXCEPT ![h] = j]
      BY <1>8 DEF GetUpdatedSpec
  <2>2. [copy[n] EXCEPT !.prepared = prepared[n]] \in SpecType
      BY <1>0, CallFacts, SpecFields
  <2>3. /\ j \in CallType /\ j.pc = "updateGet" /\ j.op = call[h].op
        /\ j.claim = call[h].claim
      BY <1>0, <2>2 DEF CallType, CallPCs
  <2> HIDE DEF j
  <2> QED BY <1>0, <1>8, <1>a, <2>1, <2>3, HandlerServes DEF GetUpdatedSpec, Serves, Writing
<1>9. ASSUME UpdateGet(h) PROVE ServingInv'
  <2>1. /\ call[h].op # "none" /\ UNCHANGED <<main, kubelet, prepared>>
        /\ Goto(h, "updatePut") /\ (call[h].op = "prepare" => call[h].claim \in prepared[n])
      BY <1>0, <1>9, <1>a DEF UpdateGet, Serves, Writing
  <2> QED BY <2>1, GotoServes DEF CallPCs
<1>10. ASSUME UpdatePut(h) PROVE ServingInv'
  <2> DEFINE j == [call[h] EXCEPT !.stored = TRUE, !.pc = "assign"]
  <2>1. call' = [call EXCEPT ![h] = j]
      BY <1>10 DEF UpdatePut
  <2>3. /\ j \in CallType /\ j.pc = "assign" /\ j.op = call[h].op
        /\ j.claim = call[h].claim
      BY <1>0 DEF CallType, CallPCs
  <2> HIDE DEF j
  <2> QED BY <1>0, <1>10, <1>a, <2>1, <2>3, HandlerServes DEF UpdatePut, Serves, Writing
<1>11. ASSUME UpdateError(h) PROVE ServingInv'
  <2> DEFINE pc == IF call[h].tries + 1 < MaxRetries THEN "updateGet" ELSE "updateFailed"
             j == [call[h] EXCEPT !.tries = @ + 1, !.pc = pc]
  <2>1. call' = [call EXCEPT ![h] = j]
      BY <1>11 DEF UpdateError
  <2>2. call[h].tries + 1 \in 0 .. MaxRetries
      BY <1>0, <1>11, CallFacts, PluginRetriesAssumption DEF UpdateError, CallShape, CallType
  <2>3. /\ j \in CallType /\ j.op = call[h].op /\ j.claim = call[h].claim
        /\ j.pc # "idle"
      BY <1>0, <2>2 DEF CallType, CallPCs
  <2> HIDE DEF j
  <2> QED BY <1>0, <1>11, <1>a, <2>1, <2>3, HandlerServes DEF UpdateError, Serves, Writing
<1>12. ASSUME UpdateFails(h) PROVE ServingInv'
  <2>1. /\ call[h].op # "none" /\ UNCHANGED <<main, kubelet>> /\ Fail(h)
        /\ \A m \in Nodes, c \in Claims :
              c \in prepared[m] \ prepared'[m] => m = n /\ c = call[h].claim
      BY <1>0, <1>12, <1>a DEF UpdateFails
  <2> QED BY <2>1, FailServes
<1>13. ASSUME Done(h) PROVE ServingInv'
  <2> DEFINE c == call[h].claim
  <2>1. /\ call[h].pc = "done" /\ call[h].op # "none" /\ c \in Claims /\ main[n] = "up"
        /\ UNCHANGED <<main, prepared>> /\ call' = [call EXCEPT ![h] = CallIdle]
      BY <1>0, <1>13, <1>a DEF Done, Serves
  <2> DEFINE v == IF call[h].op = "prepare"
                    THEN [phase |-> "prepared", device |-> call[h].device] ELSE Unknown
  <2>2. kubelet' = [kubelet EXCEPT ![n] = [kubelet[n] EXCEPT ![c] = v]]
      BY <1>13, <2>1 DEF Done
  <2>3. /\ v.phase \in {"prepared", "none"}
        /\ v.phase = "prepared" => c \in prepared[n]
      BY <1>0, <2>1 DEF Unknown, Serves, Writing
  <2> HIDE DEF v
  <2>4. /\ kubelet'[n][c] = v
        /\ \A m \in Nodes, d \in Claims : m # n \/ d # c => kubelet'[m][d] = kubelet[m][d]
      BY <1>0, <2>1, <2>2 DEF PluginTypeInv, PluginTypeOK
  <2>5. /\ call'[h] = CallIdle /\ CallIdle.op = "none" /\ CallIdle.pc = "idle"
        /\ \A g \in Handlers : g # h => call'[g] = call[g]
      BY <1>0, <2>1 DEF CallIdle, PluginTypeInv, PluginTypeOK
  <2>6. Serves(h)'
      BY <2>5 DEF Serves
  <2>7. ASSUME NEW g \in Handlers, g # h PROVE Serves(g)'
    <3>1. Serves(g) /\ call'[g] = call[g] /\ NodeOf[g] \in Nodes
        BY <2>5, <2>7, CallFacts, <1>0 DEF KnownInv, ServingInv
    <3>2. call[g].op # "none" => /\ call[g].claim \in Claims
                                 /\ NodeOf[g] # n \/ call[g].claim # c
        BY <1>0, <2>1, <2>7, <3>1, CallFacts
           DEF KnownInv, ServingInv, Apart, Serves, CallShape
    <3> QED BY <2>1, <2>4, <3>1, <3>2 DEF Serves, Writing
  <2>8. Apart'
      BY <2>5 DEF KnownInv, ServingInv, Apart
  <2>9. KnownWhileUp' /\ Remembered'
      BY <1>0, <2>1, <2>3, <2>4 DEF KnownInv, ServingInv, KnownWhileUp, Remembered
  <2> QED BY <2>6, <2>7, <2>8, <2>9 DEF ServingInv
<1> QED BY <1>1, <1>2, <1>3, <1>4, <1>5, <1>6, <1>7, <1>8, <1>9, <1>10, <1>11, <1>12, <1>13
        DEF Handles

LEMMA StartsEndsServe ==
    ASSUME KnownInv, Faults \subseteq {"api"}, NEW n \in Nodes
    PROVE  Starts(n) \/ Ends(n) => ServingInv'
<1> USE DEF KnownInv, ServingInv
<1>0. /\ main \in [Nodes -> MainPCs] /\ prepared \in [Nodes -> SUBSET Claims]
      /\ CallIdle.pc = "idle" /\ CallIdle.op = "none"
      /\ \A h \in Handlers : NodeOf[h] \in Nodes
    BY NodeOfAssumption DEF PluginTypeInv, PluginTypeOK, CallIdle
\* A step of a plugin that does not serve, before or after.
<1>1. ASSUME main[n] # "up", UNCHANGED <<kubelet, call>>,
             main' \in [Nodes -> MainPCs], prepared' \in [Nodes -> SUBSET Claims],
             \A m \in Nodes : m # n => main'[m] = main[m] /\ prepared'[m] = prepared[m]
      PROVE  ServingInv'
  <2>1. \A c \in Claims : kubelet[n][c].phase = "none"
      BY <1>1 DEF KnownWhileUp
  <2>2. ASSUME NEW h \in Handlers PROVE Serves(h)'
    <3>1. CASE NodeOf[h] = n
        BY <1>1, <3>1 DEF Serves
    <3>2. CASE NodeOf[h] # n
        BY <1>0, <1>1, <3>2 DEF Serves, Writing
    <3> QED BY <3>1, <3>2
  <2>3. Apart' /\ KnownWhileUp' /\ Remembered'
      BY <1>1, <2>1 DEF Apart, KnownWhileUp, Remembered
  <2> QED BY <2>2, <2>3
\* The end of one.
<1>2. ASSUME main[n] # "up", Gone(n), UNCHANGED kubelet PROVE ServingInv'
  <2>1. \A h \in Handlers : NodeOf[h] = n => call[h].op = "none"
      BY <1>2 DEF Serves
  <2>2. ASSUME NEW h \in Handlers PROVE Serves(h)'
    <3>1. CASE NodeOf[h] = n
        BY <1>0, <1>2, <3>1 DEF Gone, Serves
    <3>2. CASE NodeOf[h] # n
        BY <1>0, <1>2, <3>2 DEF Gone, Serves, Writing
    <3> QED BY <3>1, <3>2
  <2>3. Apart'
      BY <1>0, <1>2 DEF Gone, Apart
  <2>4. KnownWhileUp' /\ Remembered'
      BY <1>0, <1>2 DEF Gone, KnownWhileUp, Remembered
  <2> QED BY <2>2, <2>3, <2>4
<1>3. ASSUME UNCHANGED <<main, prepared, kubelet, call>> PROVE ServingInv'
    BY <1>3 DEF Serves, Apart, KnownWhileUp, Remembered
<1>4. PluginTypeInv' => main' \in [Nodes -> MainPCs] /\ prepared' \in [Nodes -> SUBSET Claims]
    BY DEF PluginTypeInv, PluginTypeOK, MainPCs
<1>5. Starts(n) => PluginTypeInv'
    BY StartsEndsType
<1>6. CASE Starts(n)
  <2>1. CASE MainConflict(n) /\ Gone(n)
      BY <1>2, <2>1 DEF MainConflict
  <2>2. CASE ~(MainConflict(n) /\ Gone(n))
    <3>1. /\ main[n] # "up" /\ UNCHANGED <<kubelet, call>>
          /\ \A m \in Nodes : m # n => main'[m] = main[m] /\ prepared'[m] = prepared[m]
        BY <1>0, <1>6, <2>2 DEF Starts, StartPlugin, MainGet, StartNotReady, LoadState,
             StartUpdateGet, StartUpdatePut, StartReady, MainConflict
    <3> QED BY <1>1, <1>4, <1>5, <1>6, <3>1
  <2> QED BY <2>1, <2>2
<1>7. CASE Ends(n)
  <2>1. ~StopPlugin(n) /\ ~PluginCrash(n)
      BY DEF StopPlugin, PluginCrash
  <2>2. CASE StopNotReady(n) \/ MainFails(n)
      BY <1>2, <2>2 DEF StopNotReady, MainFails
  <2>3. CASE SetNotReady(n)
      BY <1>3, <2>3 DEF SetNotReady
  <2> QED BY <1>7, <2>1, <2>2, <2>3 DEF Ends
<1> QED BY <1>6, <1>7

LEMMA KnownInit == Init => KnownInv
<1>1. Init => ServingInv
    BY NodeOfAssumption DEF Init, PluginInit, ServingInv, Serves, Apart, KnownWhileUp,
         Remembered, CallIdle, Unknown, Writing
<1>2. NodeTypeInv => PluginTypeInv
    BY DEF NodeTypeInv, NodeTypeOK, PluginTypeInv
<1> QED BY <1>1, <1>2, NodeInitType DEF KnownInv

LEMMA KnownNext ==
    ASSUME SharedClaims = {}, Faults \subseteq {"api"}
    PROVE  NodeTypeInv /\ KnownInv /\ [Next]_vars => KnownInv'
<1> SUFFICES ASSUME NodeTypeInv, KnownInv, [Next]_vars PROVE KnownInv'
    OBVIOUS
<1>0. PluginTypeInv'
    BY NodeNextType DEF NodeTypeInv, NodeTypeOK, PluginTypeInv
<1>1. ASSUME NEW h \in Handlers, KubeletCalls(h) PROVE ServingInv'
    BY <1>1, CallsServe, UsedClaimsAssumption DEF KubeletCalls, KubeletPrepares
<1>2. ASSUME NEW h \in Handlers, Handles(h) PROVE ServingInv'
    BY <1>2, HandlesServe
<1>3. ASSUME NEW n \in Nodes, Starts(n) \/ Ends(n) PROVE ServingInv'
    BY <1>3, StartsEndsServe
<1>4. ASSUME UNCHANGED <<main, prepared, kubelet, call>> PROVE ServingInv'
    BY <1>4 DEF KnownInv, ServingInv, Serves, Apart, KnownWhileUp, Remembered
<1>5. ASSUME NEW n \in Nodes, Controls(n) PROVE ServingInv'
  <2>1. UNCHANGED <<main, prepared, kubelet, call>>
      BY <1>5 DEF Controls, ControllerAllocates, ControllerReleases, ControllerStores,
           ControllerGivesUp, pluginVars
  <2> QED BY <1>4, <2>1
<1>6. CASE UNCHANGED vars
    BY <1>0, <1>4, <1>6 DEF vars, pluginVars, KnownInv
<1> QED BY <1>0, <1>1, <1>2, <1>3, <1>5, <1>6 DEF Next, PluginSteps, KnownInv

\* Where pods share no claim and processes are not replaced, a plugin that serves has
\* every claim in memory that the kubelet was told is prepared, what the controller
\* took out of the NAS included, and so PreparedKnown holds: a call that fails
\* unprepares only its own claim, since no other call of the plugin is about the same
\* claim, and lost or failing requests never take a prepared claim from DeviceState.
THEOREM PreparedIsKnown ==
    ASSUME SharedClaims = {}, Faults \subseteq {"api"}
    PROVE  Spec => [](Remembered /\ PreparedKnown)
<1>1. KnownInv => Remembered /\ PreparedKnown
    BY DEF KnownInv, ServingInv, Remembered, PreparedKnown
<1>2. NodeTypeInv /\ KnownInv /\ [Next]_vars => KnownInv'
    BY KnownNext
<1> QED BY <1>1, <1>2, KnownInit, NodeTypeInvariant, PTL DEF Spec

----------------------------------------------------------------------------
(***************************************************************************)
(* A plugin that handles one call at a time, with every fault.             *)
(***************************************************************************)
OneCall == \A g, h \in Handlers : NodeOf[g] = NodeOf[h] => g = h

\* All the claims that the kubelet was told are prepared on node n are among these, but
\* for those that the controller took out of the NAS.
Covers(n, claims) ==
    \A c \in Claims : kubelet[n][c].phase = "prepared" => c \in claims \cup dropped[n]

Assigning == {"assign", "assignClaims", "assignUtil"}

\* A process that has read the NAS has those claims in its copy, and in memory when
\* it has loaded them.  Only one that serves, or served, has calls in progress.
NodeStored(n) ==
    /\ Covers(n, nas[n].spec.prepared)
    /\ main[n] \notin {"down", "create"} => Covers(n, copy[n].prepared)
    /\ main[n] \notin {"down", "create", "notReady", "load"} => Covers(n, prepared[n])

\* What a call in progress means to the kubelet, and what it carries.  A claim whose
\* preparation is stored is in the NAS until the kubelet is told, unless the controller
\* has taken it out, and in the copy if it is told.
CallStored(h) ==
    LET n == NodeOf[h]
        c == call[h].claim
        preparing == call[h].pc # "idle" /\ call[h].op = "prepare"
    IN
    /\ call[h].pc # "idle" =>
         /\ main[n] \in {"up", "stopGet", "stopPut"}
         /\ kubelet[n][c].phase # "prepared"
    /\ call[h].pc \in Assigning \cup {"updateGet", "updatePut"} => Covers(n, call[h].spec.prepared)
    /\ call[h].stored => call[h].pc \in Assigning \cup {"done"}
    /\ call[h].pc = "done" => call[h].stored
    /\ preparing /\ call[h].pc \in {"sync", "updateGet", "updatePut"} => c \in prepared[n]
    /\ preparing /\ call[h].pc \in {"updateGet", "updatePut"} => c \in call[h].spec.prepared
    /\ preparing /\ call[h].stored =>
         /\ c \in prepared[n] /\ c \in nas[n].spec.prepared \cup dropped[n]
         /\ call[h].pc \in Assigning => c \in call[h].spec.prepared
         /\ main[n] = "up" /\ call[h].pc \in {"assignUtil", "done"} => c \in copy[n].prepared

StoredInv == (\A n \in Nodes : NodeStored(n)) /\ (\A h \in Handlers : CallStored(h))

\* A step of a handler, the only one of its node, or of the kubelet's call that it
\* takes: other nodes are left alone.
LEMMA CallStep ==
    ASSUME PluginTypeInv, StoredInv, OneCall, NEW h \in Handlers, UNCHANGED main,
           \A m \in Nodes \ {NodeOf[h]} :
              /\ nas'[m] = nas[m] /\ copy'[m] = copy[m]
              /\ prepared'[m] = prepared[m] /\ kubelet'[m] = kubelet[m]
              /\ dropped'[m] = dropped[m],
           \A g \in Handlers \ {h} : call'[g] = call[g],
           NodeStored(NodeOf[h])', CallStored(h)'
    PROVE  StoredInv'
<1>1. ASSUME NEW m \in Nodes, m # NodeOf[h]
      PROVE  NodeStored(m)'
    BY <1>1 DEF StoredInv, NodeStored, Covers
<1>2. ASSUME NEW g \in Handlers, g # h
      PROVE  CallStored(g)'
  <2>1. NodeOf[g] \in Nodes \ {NodeOf[h]}
      BY <1>2, NodeOfAssumption DEF OneCall
  <2> QED BY <1>2, <2>1 DEF StoredInv, CallStored, Covers
<1> QED BY <1>1, <1>2 DEF StoredInv

\* The places and variables of a call that a step changes.
LEMMA Called ==
    ASSUME PluginTypeInv, NEW h \in Handlers, NEW j, call' = [call EXCEPT ![h] = j]
    PROVE  call'[h] = j /\ \A g \in Handlers \ {h} : call'[g] = call[g]
BY DEF PluginTypeInv, PluginTypeOK

LEMMA Went ==
    ASSUME PluginTypeInv, NEW h \in Handlers, NEW to, Goto(h, to)
    PROVE  /\ call'[h].pc = to /\ call'[h].op = call[h].op /\ call'[h].claim = call[h].claim
           /\ call'[h].stored = call[h].stored /\ call'[h].spec = call[h].spec
           /\ \A g \in Handlers \ {h} : call'[g] = call[g]
BY CallFacts DEF PluginTypeInv, PluginTypeOK, Goto, CallType

\* A call that returns an error, of a claim that nobody was told is prepared.
LEMMA FailStored ==
    ASSUME PluginTypeInv, StoredInv, UNCHANGED dropped, OneCall, NEW h \in Handlers, call[h].pc # "idle", Fail(h),
           UNCHANGED <<nas, copy, main, kubelet>>,
           \A m \in Nodes \ {NodeOf[h]} : prepared'[m] = prepared[m],
           \A c \in Claims : c # call[h].claim /\ c \in prepared[NodeOf[h]] => c \in prepared'[NodeOf[h]]
    PROVE  StoredInv'
<1>1. call'[h] = CallIdle /\ \A g \in Handlers \ {h} : call'[g] = call[g]
    BY Called DEF Fail
<1>2. CallStored(h)'
    BY <1>1 DEF CallStored, CallIdle, Assigning
<1>3. NodeOf[h] \in Nodes /\ kubelet[NodeOf[h]][call[h].claim].phase # "prepared"
    BY CallFacts DEF StoredInv, CallStored
<1>4. NodeStored(NodeOf[h])'
    BY <1>3 DEF StoredInv, NodeStored, Covers
<1> QED BY <1>1, <1>2, <1>4, CallStep

\* A call that goes on, without a change of anything else.
LEMMA GotoStored ==
    ASSUME PluginTypeInv, StoredInv, UNCHANGED dropped, OneCall, NEW h \in Handlers, NEW to, Goto(h, to),
           call[h].pc # "idle", call[h].pc \notin Assigning, ~call[h].stored,
           UNCHANGED <<nas, copy, main, kubelet, prepared>>,
           \/ to = "updateFailed"
           \/ (to = "updatePut" /\ call[h].pc = "updateGet")
    PROVE  StoredInv'
<1>1. /\ call'[h].pc = to /\ call'[h].op = call[h].op /\ call'[h].claim = call[h].claim
      /\ ~call'[h].stored /\ call'[h].spec = call[h].spec
      /\ \A g \in Handlers \ {h} : call'[g] = call[g]
    BY Went
<1>2. NodeOf[h] \in Nodes
    BY CallFacts
<1>3. NodeStored(NodeOf[h])'
    BY <1>2 DEF StoredInv, NodeStored, Covers
<1>4. CallStored(h)'
    BY <1>1 DEF StoredInv, CallStored, Covers, Assigning
<1> QED BY <1>1, <1>3, <1>4, CallStep

LEMMA CallsStored ==
    ASSUME PluginTypeInv, StoredInv, UNCHANGED dropped, OneCall, NEW h \in Handlers, NEW c \in Claims
    PROVE  PrepareCall(h, c) \/ UnprepareCall(h, c) => StoredInv'
<1> DEFINE n == NodeOf[h]
<1>0. n \in Nodes /\ kubelet \in [Nodes -> [Claims -> KubeletType]]
    BY CallFacts DEF PluginTypeInv, PluginTypeOK
<1>1. ASSUME PrepareCall(h, c) PROVE StoredInv'
  <2> DEFINE j == [CallIdle EXCEPT !.pc = "device", !.op = "prepare", !.claim = c]
  <2>1. j.pc = "device" /\ j.claim = c /\ j.stored = FALSE
      BY DEF CallIdle
  <2>2. call' = [call EXCEPT ![h] = j]
      BY <1>1 DEF PrepareCall
  <2> HIDE DEF j
  <2>3. call'[h] = j /\ \A g \in Handlers \ {h} : call'[g] = call[g]
      BY <2>2, Called
  <2>4. CallStored(h)'
      BY <1>1, <2>1, <2>3 DEF PrepareCall, CallStored, Assigning
  <2>5. NodeStored(n)'
      BY <1>0, <1>1 DEF PrepareCall, StoredInv, NodeStored, Covers
  <2> QED BY <1>1, <2>3, <2>4, <2>5, CallStep DEF PrepareCall
<1>2. ASSUME UnprepareCall(h, c) PROVE StoredInv'
  <2> DEFINE j == [CallIdle EXCEPT !.pc = "get", !.op = "unprepare", !.claim = c]
             k == [kubelet[n][c] EXCEPT !.phase = "ending"]
  <2>1. j.pc = "get" /\ j.op = "unprepare" /\ j.claim = c /\ j.stored = FALSE
      BY DEF CallIdle
  <2>2. /\ call' = [call EXCEPT ![h] = j]
        /\ kubelet' = [kubelet EXCEPT ![n] = [kubelet[n] EXCEPT ![c] = k]]
      BY <1>2 DEF UnprepareCall
  <2>3. k.phase = "ending"
      BY <1>0 DEF KubeletType
  <2> HIDE DEF j, k
  <2>4. call'[h] = j /\ \A g \in Handlers \ {h} : call'[g] = call[g]
      BY <2>2, Called
  <2>5. /\ kubelet'[n][c].phase = "ending"
        /\ \A d \in Claims : kubelet'[n][d].phase = "prepared" => kubelet[n][d].phase = "prepared"
        /\ \A m \in Nodes \ {n} : kubelet'[m] = kubelet[m]
      BY <1>0, <2>2, <2>3
  <2>6. CallStored(h)'
      BY <1>2, <2>1, <2>4, <2>5 DEF UnprepareCall, CallStored, Assigning
  <2>7. NodeStored(n)'
      BY <1>0, <1>2, <2>5 DEF UnprepareCall, StoredInv, NodeStored, Covers
  <2> QED BY <1>2, <2>4, <2>5, <2>6, <2>7, CallStep DEF UnprepareCall
<1> QED BY <1>1, <1>2

\* The first steps of a handler, which read.
LEMMA ReadsStored ==
    ASSUME PluginTypeInv, StoredInv, UNCHANGED dropped, OneCall, NEW h \in Handlers
    PROVE  NameDevice(h) \/ Get(h) \/ GetFails(h) \/ UpdateGet(h) \/ GetUpdatedSpec(h) => StoredInv'
<1> DEFINE n == NodeOf[h]
<1>0. /\ n \in Nodes /\ call[h] \in CallType /\ nas[n].spec \in SpecType /\ copy[n] \in SpecType
      /\ CallStored(h) /\ NodeStored(n)
    BY CallFacts DEF StoredInv
<1>1. ASSUME NameDevice(h) PROVE StoredInv'
  <2> DEFINE j == [call[h] EXCEPT !.device = CpusIn(copy[n], call[h].claim), !.pc = "get"]
  <2>1. call' = [call EXCEPT ![h] = j]
      BY <1>1 DEF NameDevice
  <2>2. /\ j.pc = "get" /\ j.op = call[h].op /\ j.claim = call[h].claim
        /\ j.stored = call[h].stored
      BY <1>0 DEF CallType
  <2> HIDE DEF j
  <2>3. call'[h] = j /\ \A g \in Handlers \ {h} : call'[g] = call[g]
      BY <2>1, Called
  <2>4. CallStored(h)'
      BY <1>0, <1>1, <2>2, <2>3 DEF NameDevice, CallStored, Assigning
  <2>5. NodeStored(n)'
      BY <1>0, <1>1 DEF NameDevice, NodeStored, Covers
  <2> QED BY <1>1, <2>3, <2>4, <2>5, CallStep DEF NameDevice
<1>2. ASSUME Get(h) PROVE StoredInv'
  <2> DEFINE j == [call[h] EXCEPT !.spec = nas[n].spec, !.pc = "assign"]
  <2>1. call' = [call EXCEPT ![h] = j]
      BY <1>2 DEF Get
  <2>2. /\ j.pc = "assign" /\ j.op = call[h].op /\ j.claim = call[h].claim
        /\ j.stored = call[h].stored /\ j.spec = nas[n].spec
      BY <1>0 DEF CallType
  <2> HIDE DEF j
  <2>3. call'[h] = j /\ \A g \in Handlers \ {h} : call'[g] = call[g]
      BY <2>1, Called
  <2>4. CallStored(h)'
      BY <1>0, <1>2, <2>2, <2>3 DEF Get, CallStored, NodeStored, Covers, Assigning
  <2>5. NodeStored(n)'
      BY <1>0, <1>2 DEF Get, NodeStored, Covers
  <2> QED BY <1>2, <2>3, <2>4, <2>5, CallStep DEF Get
<1>3. ASSUME GetFails(h) PROVE StoredInv'
  <2>1. CASE Fail(h)
      BY <1>3, <2>1, FailStored DEF GetFails
  <2>2. CASE Goto(h, "updateFailed") /\ call[h].pc = "updateGet"
      BY <1>0, <1>3, <2>2, GotoStored DEF GetFails, CallStored, Assigning
  <2> QED BY <1>3, <2>1, <2>2 DEF GetFails
<1>4. ASSUME UpdateGet(h) PROVE StoredInv'
    BY <1>0, <1>4, GotoStored DEF UpdateGet, CallStored, Assigning
<1>5. ASSUME GetUpdatedSpec(h) PROVE StoredInv'
  <2> DEFINE s == [copy[n] EXCEPT !.prepared = prepared[n]]
             j == [call[h] EXCEPT !.spec = s, !.pc = "updateGet"]
  <2>1. call' = [call EXCEPT ![h] = j] /\ s.prepared = prepared[n]
      BY <1>0, <1>5 DEF GetUpdatedSpec, SpecType
  <2> HIDE DEF s
  <2>2. /\ j.pc = "updateGet" /\ j.op = call[h].op /\ j.claim = call[h].claim
        /\ j.stored = call[h].stored /\ j.spec = s
      BY <1>0 DEF CallType
  <2> HIDE DEF j
  <2>3. call'[h] = j /\ \A g \in Handlers \ {h} : call'[g] = call[g]
      BY <2>1, Called
  <2>4. CallStored(h)'
      BY <1>0, <1>5, <2>1, <2>2, <2>3 DEF GetUpdatedSpec, CallStored, NodeStored, Covers, Assigning
  <2>5. NodeStored(n)'
      BY <1>0, <1>5 DEF GetUpdatedSpec, NodeStored, Covers
  <2> QED BY <1>5, <2>3, <2>4, <2>5, CallStep DEF GetUpdatedSpec
<1> QED BY <1>1, <1>2, <1>3, <1>4, <1>5

\* The assignment to the shared copy, in either order of its parts.
LEMMA AssignStored ==
    ASSUME PluginTypeInv, StoredInv, UNCHANGED dropped, OneCall, NEW h \in Handlers
    PROVE  AssignFirst(h) \/ AssignRest(h) => StoredInv'
<1> DEFINE n == NodeOf[h]
<1>0. /\ n \in Nodes /\ call[h] \in CallType /\ call[h].spec \in SpecType /\ copy[n] \in SpecType
      /\ copy \in [Nodes -> SpecType] /\ CallStored(h) /\ NodeStored(n)
    BY CallFacts DEF StoredInv, CallType, PluginTypeInv, PluginTypeOK
<1>1. /\ [call[h].spec EXCEPT !.util = copy[n].util].prepared = call[h].spec.prepared
      /\ [copy[n] EXCEPT !.util = call[h].spec.util].prepared = copy[n].prepared
    BY <1>0 DEF SpecType
<1>2. ASSUME AssignFirst(h) PROVE StoredInv'
  <2>1. \/ /\ copy'[n].prepared = call[h].spec.prepared
           /\ Goto(h, "assignUtil")
        \/ /\ copy'[n].prepared = copy[n].prepared
           /\ Goto(h, "assignClaims")
      BY <1>0, <1>1, <1>2 DEF AssignFirst
  <2>2. /\ call'[h].op = call[h].op /\ call'[h].claim = call[h].claim
        /\ call'[h].stored = call[h].stored /\ call'[h].spec = call[h].spec
        /\ \/ call'[h].pc = "assignUtil" /\ copy'[n].prepared = call[h].spec.prepared
           \/ call'[h].pc = "assignClaims" /\ copy'[n].prepared = copy[n].prepared
        /\ \A g \in Handlers \ {h} : call'[g] = call[g]
      BY <2>1, Went
  <2>3. \A m \in Nodes \ {n} : copy'[m] = copy[m]
      BY <1>0, <1>2 DEF AssignFirst
  <2>4. call[h].pc = "assign" /\ UNCHANGED <<nas, prepared, main, kubelet>>
      BY <1>2 DEF AssignFirst
  <2>5. CallStored(h)'
      BY <1>0, <2>2, <2>4 DEF CallStored, Covers, Assigning
  <2>6. NodeStored(n)'
      BY <1>0, <2>2, <2>4 DEF NodeStored, CallStored, Covers, Assigning
  <2> QED BY <2>2, <2>3, <2>4, <2>5, <2>6, CallStep
<1>3. ASSUME AssignRest(h) PROVE StoredInv'
  <2> DEFINE j == [call[h] EXCEPT !.pc = IF call[h].stored THEN "done" ELSE "state",
                                  !.spec = EmptySpec]
  <2>1. call' = [call EXCEPT ![h] = j]
      BY <1>3 DEF AssignRest
  <2>2. /\ j.op = call[h].op /\ j.claim = call[h].claim /\ j.stored = call[h].stored
        /\ j.pc = IF call[h].stored THEN "done" ELSE "state"
      BY <1>0 DEF CallType
  <2> HIDE DEF j
  <2>3. call'[h] = j /\ \A g \in Handlers \ {h} : call'[g] = call[g]
      BY <2>1, Called
  <2>4. /\ copy'[n].prepared = IF call[h].pc = "assignUtil" THEN copy[n].prepared
                               ELSE call[h].spec.prepared
        /\ \A m \in Nodes \ {n} : copy'[m] = copy[m]
      BY <1>0, <1>1, <1>3 DEF AssignRest
  <2>5. call[h].pc \in {"assignUtil", "assignClaims"} /\ UNCHANGED <<nas, prepared, main, kubelet>>
      BY <1>3 DEF AssignRest
  <2>6. CallStored(h)'
      BY <1>0, <2>2, <2>3, <2>4, <2>5 DEF CallStored, Assigning
  <2>7. NodeStored(n)'
      BY <1>0, <2>4, <2>5 DEF NodeStored, CallStored, Covers, Assigning
  <2> QED BY <2>3, <2>4, <2>5, <2>6, <2>7, CallStep
<1> QED BY <1>2, <1>3

LEMMA StateStored ==
    ASSUME PluginTypeInv, StoredInv, UNCHANGED dropped, OneCall, NEW h \in Handlers
    PROVE  Prepare(h) \/ Unprepare(h) => StoredInv'
<1> DEFINE n == NodeOf[h]
           c == call[h].claim
<1>0. /\ n \in Nodes /\ call[h] \in CallType /\ copy[n] \in SpecType
      /\ copy \in [Nodes -> SpecType] /\ prepared \in [Nodes -> SUBSET Claims]
      /\ CallStored(h) /\ NodeStored(n)
    BY CallFacts DEF StoredInv, PluginTypeInv, PluginTypeOK
<1>1. ASSUME Prepare(h) PROVE StoredInv'
  <2>1. /\ call[h].pc = "state" /\ call[h].op = "prepare"
        /\ UNCHANGED <<nas, copy, main, kubelet>>
        /\ \A m \in Nodes \ {n} : prepared'[m] = prepared[m]
        /\ \A d \in prepared[n] : d \in prepared'[n]
        /\ Fail(h) \/ (Goto(h, "sync") /\ c \in prepared'[n])
      BY <1>0, <1>1 DEF Prepare
  <2>2. CASE Fail(h)
      BY <2>1, <2>2, FailStored
  <2>3. CASE Goto(h, "sync") /\ c \in prepared'[n]
    <3>1. /\ call'[h].pc = "sync" /\ call'[h].claim = c /\ call'[h].stored = call[h].stored
          /\ \A g \in Handlers \ {h} : call'[g] = call[g]
        BY <2>3, Went
    <3>2. CallStored(h)'
        BY <1>0, <2>1, <2>3, <3>1 DEF CallStored, Assigning
    <3>3. NodeStored(n)'
        BY <1>0, <2>1 DEF NodeStored, Covers
    <3> QED BY <2>1, <3>1, <3>2, <3>3, CallStep
  <2> QED BY <2>1, <2>2, <2>3
<1>2. ASSUME Unprepare(h) PROVE StoredInv'
  <2> DEFINE s == [copy[n] EXCEPT !.prepared = copy[n].prepared \ {c}]
  <2>1. /\ call[h].pc = "state" /\ call[h].op = "unprepare"
        /\ UNCHANGED <<nas, main, kubelet>> /\ Goto(h, "sync")
        /\ prepared' = [prepared EXCEPT ![n] = prepared[n] \ {c}]
        /\ copy' = [copy EXCEPT ![n] = s]
      BY <1>2 DEF Unprepare
  <2>2. s.prepared = copy[n].prepared \ {c}
      BY <1>0 DEF SpecType
  <2> HIDE DEF s
  <2>3. /\ prepared'[n] = prepared[n] \ {c} /\ copy'[n].prepared = copy[n].prepared \ {c}
        /\ \A m \in Nodes \ {n} : prepared'[m] = prepared[m] /\ copy'[m] = copy[m]
      BY <1>0, <2>1, <2>2
  <2>4. /\ call'[h].pc = "sync" /\ call'[h].op = "unprepare" /\ call'[h].claim = c
        /\ call'[h].stored = call[h].stored
        /\ \A g \in Handlers \ {h} : call'[g] = call[g]
      BY <2>1, Went
  <2>5. CallStored(h)'
      BY <1>0, <2>1, <2>4 DEF CallStored, Assigning
  <2>6. NodeStored(n)'
      BY <1>0, <2>1, <2>3 DEF NodeStored, CallStored, Covers
  <2> QED BY <2>1, <2>3, <2>4, <2>5, <2>6, CallStep
<1> QED BY <1>1, <1>2

\* The NAS of a node is overwritten with the spec of a call.
LEMMA SpecWritten ==
    ASSUME PluginTypeInv, NEW n \in Nodes, NEW k, NEW s \in SpecType, Write(k, n, [nas[n] EXCEPT !.spec = s])
    PROVE  nas'[n].spec = s /\ \A m \in Nodes \ {n} : nas'[m] = nas[m]
BY DEF Write, PluginTypeInv, PluginTypeOK

LEMMA PutStored ==
    ASSUME PluginTypeInv, StoredInv, UNCHANGED dropped, OneCall, NEW h \in Handlers
    PROVE  UpdatePut(h) \/ UpdateError(h) \/ UpdateFails(h) => StoredInv'
<1> DEFINE n == NodeOf[h]
<1>0. /\ n \in Nodes /\ call[h] \in CallType /\ call[h].spec \in SpecType
      /\ prepared \in [Nodes -> SUBSET Claims]
      /\ CallStored(h) /\ NodeStored(n)
    BY CallFacts DEF StoredInv, CallType, PluginTypeInv, PluginTypeOK
<1>1. ASSUME UpdatePut(h) PROVE StoredInv'
  <2> DEFINE j == [call[h] EXCEPT !.stored = TRUE, !.pc = "assign"]
  <2>1. call' = [call EXCEPT ![h] = j]
      BY <1>1 DEF UpdatePut
  <2>2. /\ j.pc = "assign" /\ j.op = call[h].op /\ j.claim = call[h].claim
        /\ j.spec = call[h].spec
      BY <1>0 DEF CallType
  <2> HIDE DEF j
  <2>3. call'[h] = j /\ \A g \in Handlers \ {h} : call'[g] = call[g]
      BY <2>1, Called
  <2>4. nas'[n].spec = call[h].spec /\ \A m \in Nodes \ {n} : nas'[m] = nas[m]
      BY <1>0, <1>1, SpecWritten DEF UpdatePut
  <2>5. call[h].pc = "updatePut" /\ UNCHANGED <<copy, prepared, main, kubelet>>
      BY <1>1 DEF UpdatePut
  <2>6. CallStored(h)'
      BY <1>0, <2>2, <2>3, <2>4, <2>5 DEF CallStored, Covers, Assigning
  <2>7. NodeStored(n)'
      BY <1>0, <2>4, <2>5 DEF NodeStored, CallStored, Covers
  <2> QED BY <2>3, <2>4, <2>5, <2>6, <2>7, CallStep
<1>2. ASSUME UpdateError(h) PROVE StoredInv'
  <2> DEFINE pc == IF call[h].tries + 1 < MaxRetries THEN "updateGet" ELSE "updateFailed"
             j == [call[h] EXCEPT !.tries = @ + 1, !.pc = pc]
  <2>1. call' = [call EXCEPT ![h] = j]
      BY <1>2 DEF UpdateError
  <2>2. /\ j.pc \in {"updateGet", "updateFailed"} /\ j.op = call[h].op /\ j.claim = call[h].claim
        /\ j.spec = call[h].spec /\ j.stored = call[h].stored
      BY <1>0 DEF CallType
  <2> HIDE DEF j
  <2>3. call'[h] = j /\ \A g \in Handlers \ {h} : call'[g] = call[g]
      BY <2>1, Called
  <2>4. /\ UNCHANGED nas \/ nas'[n].spec = call[h].spec
        /\ \A m \in Nodes \ {n} : nas'[m] = nas[m]
    <3>1. CASE UNCHANGED nas
        BY <3>1
    <3>2. CASE Write({}, n, [nas[n] EXCEPT !.spec = call[h].spec])
        BY <1>0, <3>2, SpecWritten
    <3> QED BY <1>2, <3>1, <3>2 DEF UpdateError
  <2>5. call[h].pc = "updatePut" /\ UNCHANGED <<copy, prepared, main, kubelet>>
      BY <1>2 DEF UpdateError
  <2>6. CallStored(h)'
      BY <1>0, <2>2, <2>3, <2>5 DEF CallStored, Covers, Assigning
  <2>7. NodeStored(n)'
      BY <1>0, <2>4, <2>5 DEF NodeStored, CallStored, Covers
  <2> QED BY <2>3, <2>4, <2>5, <2>6, <2>7, CallStep
<1>3. ASSUME UpdateFails(h) PROVE StoredInv'
  <2>1. /\ call[h].pc = "updateFailed" /\ Fail(h) /\ UNCHANGED <<nas, copy, main, kubelet>>
        /\ \A m \in Nodes \ {n} : prepared'[m] = prepared[m]
        /\ \A c \in Claims : c # call[h].claim /\ c \in prepared[n] => c \in prepared'[n]
      BY <1>0, <1>3 DEF UpdateFails
  <2> QED BY <2>1, FailStored
<1> QED BY <1>1, <1>2, <1>3

\* The answer to the kubelet, when all that holds its claim is in place.
LEMMA DoneStored ==
    ASSUME PluginTypeInv, StoredInv, OneCall, NEW h \in Handlers, Done(h), Restores(h),
           dropped \in [Nodes -> SUBSET Claims]
    PROVE  StoredInv'
<1> DEFINE n == NodeOf[h]
           c == call[h].claim
           told == main[n] = "up"
<1>0. /\ n \in Nodes /\ c \in Claims /\ call[h] \in CallType
      /\ kubelet \in [Nodes -> [Claims -> KubeletType]]
      /\ CallStored(h) /\ NodeStored(n) /\ call[h].pc = "done"
    BY CallFacts DEF Done, CallShape, StoredInv, PluginTypeInv, PluginTypeOK
<1>1. call'[h] = CallIdle /\ \A g \in Handlers \ {h} : call'[g] = call[g]
    BY Called DEF Done
<1>2. /\ UNCHANGED <<nas, copy, prepared, main>>
      /\ \A m \in Nodes \ {n} : kubelet'[m] = kubelet[m]
    BY <1>0 DEF Done
<1>3. \A d \in Claims : kubelet'[n][d].phase = "prepared" =>
         \/ kubelet[n][d].phase = "prepared"
         \/ d = c /\ told /\ call[h].op = "prepare"
  <2>1. CASE ~told
    <3>1. kubelet' = kubelet
      <4>1. kubelet' = [kubelet EXCEPT ![n] = [kubelet[n] EXCEPT ![c] = kubelet[n][c]]]
          BY <2>1 DEF Done
      <4>2. kubelet[n] \in [Claims -> KubeletType]
          BY <1>0
      <4>3. [kubelet[n] EXCEPT ![c] = kubelet[n][c]] = kubelet[n]
          BY <1>0, <4>2
      <4>4. [kubelet EXCEPT ![n] = kubelet[n]] = kubelet
          BY <1>0
      <4> QED BY <4>1, <4>3, <4>4
    <3> QED BY <3>1
  <2>2. CASE told
    <3> DEFINE v == IF call[h].op = "prepare"
                      THEN [phase |-> "prepared", device |-> call[h].device] ELSE Unknown
    <3>1. kubelet' = [kubelet EXCEPT ![n] = [kubelet[n] EXCEPT ![c] = v]]
        BY <2>2 DEF Done
    <3>2. v.phase = "prepared" => call[h].op = "prepare"
        BY DEF Unknown
    <3> HIDE DEF v
    <3>3. \A d \in Claims : kubelet'[n][d] = IF d = c THEN v ELSE kubelet[n][d]
        BY <1>0, <3>1
    <3> QED BY <2>2, <3>2, <3>3
  <2> QED BY <2>1, <2>2
<1>4. told /\ call[h].op = "prepare"
         => /\ c \in nas[n].spec.prepared \cup dropped[n]
            /\ c \in copy[n].prepared /\ c \in prepared[n]
    BY <1>0 DEF CallStored
<1>7. /\ dropped'[n] = dropped[n] \ InPlace(n)
      /\ \A m \in Nodes \ {n} : dropped'[m] = dropped[m]
    BY <1>0 DEF Restores
<1>8. \A d \in Claims : d \in dropped[n] => d \in InPlace(n) \/ d \in dropped'[n]
    BY <1>7
<1>5. NodeStored(n)'
    BY <1>0, <1>2, <1>3, <1>4, <1>8 DEF NodeStored, Covers, InPlace
<1>6. CallStored(h)'
    BY <1>1 DEF CallStored, CallIdle, Assigning
<1> QED BY <1>1, <1>2, <1>5, <1>6, <1>7, CallStep

\* A step of the process on node n, or of somebody who writes the node's NAS.
LEMMA MainStep ==
    ASSUME PluginTypeInv, StoredInv, NEW n \in Nodes, UNCHANGED kubelet,
           \A m \in Nodes \ {n} :
              /\ nas'[m] = nas[m] /\ copy'[m] = copy[m]
              /\ prepared'[m] = prepared[m] /\ main'[m] = main[m] /\ dropped'[m] = dropped[m],
           \A h \in Handlers : NodeOf[h] # n => call'[h] = call[h],
           NodeStored(n)', \A h \in Handlers : NodeOf[h] = n => CallStored(h)'
    PROVE  StoredInv'
<1>1. ASSUME NEW m \in Nodes, m # n
      PROVE  NodeStored(m)'
    BY <1>1 DEF StoredInv, NodeStored, Covers
<1>2. ASSUME NEW h \in Handlers, NodeOf[h] # n
      PROVE  CallStored(h)'
  <2>1. NodeOf[h] \in Nodes \ {n} /\ call'[h] = call[h]
      BY <1>2, NodeOfAssumption
  <2> QED BY <2>1 DEF StoredInv, CallStored, Covers
<1> QED BY <1>1, <1>2 DEF StoredInv

\* The process is gone; whoever wrote the NAS at last, or did not, left the claims in it.
LEMMA GoneStored ==
    ASSUME PluginTypeInv, StoredInv, UNCHANGED dropped, NEW n \in Nodes, Gone(n), UNCHANGED kubelet,
           \A m \in Nodes \ {n} : nas'[m] = nas[m], Covers(n, nas'[n].spec.prepared)
    PROVE  StoredInv'
<1>1. /\ main'[n] = "down"
      /\ \A m \in Nodes \ {n} : copy'[m] = copy[m] /\ prepared'[m] = prepared[m] /\ main'[m] = main[m]
    BY DEF Gone, PluginTypeInv, PluginTypeOK
<1>2. \A h \in Handlers : call'[h] = IF NodeOf[h] = n THEN CallIdle ELSE call[h]
    BY DEF Gone
<1>3. NodeStored(n)'
    BY <1>1 DEF NodeStored, Covers
<1>4. \A h \in Handlers : NodeOf[h] = n => CallStored(h)'
    BY <1>2 DEF CallStored, CallIdle, Assigning
<1> QED BY <1>1, <1>2, <1>3, <1>4, MainStep

\* The process goes on, and no call is in progress that could be disturbed.
LEMMA QuietStep ==
    ASSUME PluginTypeInv, StoredInv, UNCHANGED dropped, NEW n \in Nodes, UNCHANGED <<kubelet, call>>,
           \A m \in Nodes \ {n} :
              /\ nas'[m] = nas[m] /\ copy'[m] = copy[m]
              /\ prepared'[m] = prepared[m] /\ main'[m] = main[m],
           main[n] \notin {"up", "stopGet", "stopPut"}, NodeStored(n)'
    PROVE  StoredInv'
<1>1. \A h \in Handlers : NodeOf[h] = n => CallStored(h)'
    BY DEF StoredInv, CallStored, Assigning
<1> QED BY <1>1, MainStep

\* Somebody else writes the NAS of node n; what prepared claims it takes out are noted.
LEMMA OtherWrites ==
    ASSUME PluginTypeInv, StoredInv, NEW n \in Nodes, UNCHANGED <<kubelet, call, copy, prepared, main>>,
           \A m \in Nodes \ {n} : nas'[m] = nas[m] /\ dropped'[m] = dropped[m],
           nas[n].spec.prepared \cup dropped[n] \subseteq nas'[n].spec.prepared \cup dropped'[n],
           dropped[n] \subseteq dropped'[n]
    PROVE  StoredInv'
<1>1. NodeStored(n)'
    BY DEF StoredInv, NodeStored, Covers
<1>2. \A h \in Handlers : NodeOf[h] = n => CallStored(h)'
  <2> SUFFICES ASSUME NEW h \in Handlers, NodeOf[h] = n PROVE CallStored(h)'
      OBVIOUS
  <2>1. CallStored(h)
      BY DEF StoredInv
  <2> QED BY <2>1 DEF CallStored, Covers
<1> QED BY <1>1, <1>2, MainStep

LEMMA StartsStored ==
    ASSUME PluginTypeInv, StoredInv, UNCHANGED dropped, NEW n \in Nodes
    PROVE  Starts(n) => StoredInv'
<1>0. /\ nas \in [Nodes -> [ready : BOOLEAN, spec : SpecType]] /\ nas[n].spec \in SpecType
      /\ copy \in [Nodes -> SpecType] /\ prepared \in [Nodes -> SUBSET Claims]
      /\ main \in [Nodes -> MainPCs] /\ NodeStored(n)
    BY DEF PluginTypeInv, PluginTypeOK, StoredInv
<1>1. CASE StartPlugin(n)
  <2>1. NodeStored(n)'
      BY <1>0, <1>1 DEF StartPlugin, NodeStored, Covers
  <2> QED BY <1>0, <1>1, <2>1, QuietStep DEF StartPlugin
<1>2. CASE MainGet(n)
  <2>1. /\ copy'[n] = nas[n].spec /\ main'[n] = IF main[n] = "create" THEN "notReady" ELSE "stopPut"
        /\ \A m \in Nodes \ {n} : copy'[m] = copy[m] /\ main'[m] = main[m]
        /\ UNCHANGED <<nas, prepared, call, kubelet>> /\ main[n] \in {"create", "stopGet"}
      BY <1>0, <1>2 DEF MainGet
  <2>2. NodeStored(n)'
      BY <1>0, <2>1 DEF NodeStored, Covers
  <2>3. ASSUME NEW h \in Handlers, NodeOf[h] = n
        PROVE  CallStored(h)'
      BY <2>1, <2>3 DEF StoredInv, CallStored, Covers, Assigning
  <2> QED BY <2>1, <2>2, <2>3, MainStep
<1>3. CASE StartNotReady(n)
  <2>1. /\ nas'[n].spec = copy[n] /\ main'[n] = "load" /\ main[n] = "notReady"
        /\ \A m \in Nodes \ {n} : nas'[m] = nas[m] /\ main'[m] = main[m]
        /\ UNCHANGED <<copy, prepared, call, kubelet>>
      BY <1>0, <1>3 DEF StartNotReady, Write
  <2>2. NodeStored(n)'
      BY <1>0, <2>1 DEF NodeStored, Covers
  <2> QED BY <2>1, <2>2, QuietStep
<1>4. CASE LoadState(n)
  <2>1. /\ prepared'[n] = copy[n].prepared /\ main'[n] = "updateGet" /\ main[n] = "load"
        /\ \A m \in Nodes \ {n} : prepared'[m] = prepared[m] /\ main'[m] = main[m]
        /\ UNCHANGED <<nas, copy, call, kubelet>>
      BY <1>0, <1>4 DEF LoadState
  <2>2. NodeStored(n)'
      BY <1>0, <2>1 DEF NodeStored, Covers
  <2> QED BY <2>1, <2>2, QuietStep
<1>5. CASE StartUpdateGet(n)
  <2>1. NodeStored(n)'
      BY <1>0, <1>5 DEF StartUpdateGet, NodeStored, Covers
  <2> QED BY <1>0, <1>5, <2>1, QuietStep DEF StartUpdateGet
<1>6. CASE StartUpdatePut(n)
  <2> DEFINE s == [copy[n] EXCEPT !.prepared = prepared[n]]
  <2>1. s \in SpecType /\ s.prepared = prepared[n]
      BY <1>0, SpecFields DEF SpecType
  <2>2. /\ Write({n}, n, [nas[n] EXCEPT !.spec = s]) /\ copy' = [copy EXCEPT ![n] = s]
        /\ main[n] = "updatePut" /\ main' = [main EXCEPT ![n] = "ready"]
        /\ UNCHANGED <<prepared, call, kubelet>>
      BY <1>6 DEF StartUpdatePut
  <2> HIDE DEF s
  <2>3. nas'[n].spec = s /\ \A m \in Nodes \ {n} : nas'[m] = nas[m]
      BY <2>1, <2>2, SpecWritten
  <2>4. NodeStored(n)'
      BY <1>0, <2>1, <2>2, <2>3 DEF NodeStored, Covers
  <2> QED BY <1>0, <2>2, <2>3, <2>4, QuietStep
<1>7. CASE StartReady(n)
  <2>1. /\ nas'[n].spec = copy[n] /\ main'[n] = "up" /\ main[n] = "ready"
        /\ \A m \in Nodes \ {n} : nas'[m] = nas[m] /\ main'[m] = main[m]
        /\ UNCHANGED <<copy, prepared, call, kubelet>>
      BY <1>0, <1>7 DEF StartReady, Write
  <2>2. NodeStored(n)'
      BY <1>0, <2>1 DEF NodeStored, Covers
  <2> QED BY <2>1, <2>2, QuietStep
<1>8. CASE MainConflict(n) /\ ~Gone(n)
  <2> DEFINE to == CASE main[n] = "updatePut" -> "updateGet"
                     [] main[n] = "stopPut" -> "stopGet"
                     [] OTHER -> "create"
  <2>1. /\ main' = [main EXCEPT ![n] = to] /\ UNCHANGED <<nas, copy, prepared, call, kubelet>>
        /\ main[n] \in {"notReady", "updatePut", "ready", "stopPut"}
      BY <1>8 DEF MainConflict
  <2>2. /\ main[n] = "updatePut" => to = "updateGet"
        /\ main[n] = "stopPut" => to = "stopGet"
        /\ main[n] \in {"notReady", "ready"} => to = "create"
      OBVIOUS
  <2> HIDE DEF to
  <2>3. main'[n] = to /\ \A m \in Nodes \ {n} : main'[m] = main[m]
      BY <1>0, <2>1
  <2>4. NodeStored(n)'
      BY <1>0, <2>1, <2>2, <2>3 DEF NodeStored, Covers
  <2>5. ASSUME NEW h \in Handlers, NodeOf[h] = n
        PROVE  CallStored(h)'
      BY <2>1, <2>2, <2>3, <2>5 DEF StoredInv, CallStored, Covers, Assigning
  <2> QED BY <2>1, <2>3, <2>4, <2>5, MainStep
<1>9. CASE MainConflict(n) /\ Gone(n)
  <2>1. Covers(n, nas'[n].spec.prepared) /\ UNCHANGED <<nas, kubelet>>
      BY <1>0, <1>9 DEF MainConflict, NodeStored
  <2> QED BY <1>9, <2>1, GoneStored
<1> QED BY <1>1, <1>2, <1>3, <1>4, <1>5, <1>6, <1>7, <1>8, <1>9 DEF Starts

LEMMA EndsStored ==
    ASSUME PluginTypeInv, StoredInv, UNCHANGED dropped, NEW n \in Nodes
    PROVE  Ends(n) => StoredInv'
<1>0. /\ nas \in [Nodes -> [ready : BOOLEAN, spec : SpecType]]
      /\ main \in [Nodes -> MainPCs] /\ NodeStored(n)
    BY DEF PluginTypeInv, PluginTypeOK, StoredInv
<1>1. CASE StopPlugin(n)
  <2>1. /\ main[n] = "up" /\ main'[n] = "stopGet" /\ \A m \in Nodes \ {n} : main'[m] = main[m]
        /\ UNCHANGED <<nas, copy, prepared, call, kubelet>>
      BY <1>0, <1>1 DEF StopPlugin
  <2>2. NodeStored(n)'
      BY <1>0, <2>1 DEF NodeStored, Covers
  <2>3. ASSUME NEW h \in Handlers, NodeOf[h] = n
        PROVE  CallStored(h)'
      BY <2>1, <2>3 DEF StoredInv, CallStored, Covers, Assigning
  <2> QED BY <2>1, <2>2, <2>3, MainStep
<1>2. CASE StopNotReady(n)
  <2>1. /\ nas'[n].spec = copy[n] /\ \A m \in Nodes \ {n} : nas'[m] = nas[m]
        /\ main[n] = "stopPut" /\ Gone(n) /\ UNCHANGED kubelet
      BY <1>0, <1>2 DEF StopNotReady, Write
  <2>2. Covers(n, nas'[n].spec.prepared)
      BY <1>0, <2>1 DEF NodeStored
  <2> QED BY <2>1, <2>2, GoneStored
<1>3. CASE MainFails(n) \/ PluginCrash(n)
  <2>1. Gone(n) /\ UNCHANGED <<nas, kubelet>>
      BY <1>3 DEF MainFails, PluginCrash
  <2>2. Covers(n, nas'[n].spec.prepared)
      BY <1>0, <2>1 DEF NodeStored
  <2> QED BY <2>1, <2>2, GoneStored
<1>4. CASE SetNotReady(n)
  <2>1. /\ nas'[n].spec = nas[n].spec /\ \A m \in Nodes \ {n} : nas'[m] = nas[m]
        /\ UNCHANGED <<kubelet, call, copy, prepared, main>>
      BY <1>0, <1>4 DEF SetNotReady, Write
  <2> QED BY <2>1, OtherWrites
<1> QED BY <1>1, <1>2, <1>3, <1>4 DEF Ends

LEMMA ControlsStored ==
    ASSUME NodeTypeInv, PluginTypeInv, StoredInv, NEW n \in Nodes
    PROVE  Controls(n) => StoredInv'
<1>1. ASSUME UNCHANGED pluginVars, UNCHANGED dropped PROVE StoredInv'
    BY <1>1 DEF pluginVars, StoredInv, NodeStored, CallStored, Covers
<1>2. ASSUME ControllerStores(n) PROVE StoredInv'
  <2> DEFINE spec == section[n].spec
  <2>1. spec \in SpecType /\ dropped \in [Nodes -> SUBSET Claims]
      BY <1>2 DEF ControllerStores, NodeTypeInv, NodeTypeOK, SectionType
  <2>2. /\ Write({}, n, [nas[n] EXCEPT !.spec = spec])
        /\ dropped' = [dropped EXCEPT ![n] = dropped[n] \cup (nas[n].spec.prepared \ spec.prepared)]
        /\ UNCHANGED <<copy, prepared, main, call, kubelet>>
      BY <1>2 DEF ControllerStores
  <2> HIDE DEF spec
  <2>3. nas'[n].spec = spec /\ \A m \in Nodes \ {n} : nas'[m] = nas[m]
      BY <2>1, <2>2, SpecWritten
  <2>4. /\ dropped'[n] = dropped[n] \cup (nas[n].spec.prepared \ spec.prepared)
        /\ \A m \in Nodes \ {n} : dropped'[m] = dropped[m]
      BY <2>1, <2>2
  <2>5. nas[n].spec.prepared \cup dropped[n] \subseteq nas'[n].spec.prepared \cup dropped'[n]
      BY <2>3, <2>4
  <2> QED BY <2>2, <2>3, <2>4, <2>5, OtherWrites
<1> QED BY <1>1, <1>2 DEF Controls, ControllerAllocates, ControllerReleases, ControllerGivesUp

LEMMA StoredNext ==
    ASSUME OneCall
    PROVE  NodeTypeInv /\ StoredInv /\ [Next]_vars => StoredInv'
<1> SUFFICES ASSUME NodeTypeInv, StoredInv, [Next]_vars PROVE StoredInv'
    OBVIOUS
<1>0. PluginTypeInv /\ dropped \in [Nodes -> SUBSET Claims]
    BY DEF NodeTypeInv, NodeTypeOK, PluginTypeInv
<1>1. ASSUME NEW h \in Handlers, Handles(h), Restores(h) PROVE StoredInv'
  <2>1. CASE call[h].pc = "done"
    <3>1. Done(h)
        BY <1>1, <2>1 DEF Handles, NameDevice, Get, GetFails, AssignFirst, AssignRest, Prepare,
           Unprepare, GetUpdatedSpec, UpdateGet, UpdatePut, UpdateError, UpdateFails
    <3> QED BY <1>0, <1>1, <3>1, DoneStored
  <2>2. CASE call[h].pc # "done"
    <3>1. UNCHANGED dropped
      <4>1. dropped' = [dropped EXCEPT ![NodeOf[h]] = dropped[NodeOf[h]]]
          BY <1>1, <2>2 DEF Restores
      <4> QED BY <1>0, <4>1, NodeOfAssumption
    <3>2. ~Done(h)
        BY <2>2 DEF Done
    <3> QED BY <1>0, <1>1, <3>1, <3>2, ReadsStored, AssignStored, StateStored, PutStored
            DEF Handles
  <2> QED BY <2>1, <2>2
<1>2. ASSUME NEW h \in Handlers, KubeletCalls(h), UNCHANGED dropped PROVE StoredInv'
    BY <1>0, <1>2, CallsStored, UsedClaimsAssumption DEF KubeletCalls, KubeletPrepares
<1>3. ASSUME NEW n \in Nodes, Starts(n) \/ Ends(n), UNCHANGED dropped PROVE StoredInv'
    BY <1>0, <1>3, StartsStored, EndsStored
<1>4. ASSUME NEW n \in Nodes, Controls(n) PROVE StoredInv'
    BY <1>0, <1>4, ControlsStored
<1>5. CASE UNCHANGED vars
    BY <1>5 DEF vars, pluginVars, StoredInv, NodeStored, CallStored, Covers
<1> QED BY <1>1, <1>2, <1>3, <1>4, <1>5 DEF Next, PluginSteps

\* A plugin that handles one call at a time: what its copy, its memory and the spec of
\* a call in progress hold of the claims the kubelet was told are prepared, but for
\* those that a store of the controller took out of the NAS.
THEOREM StoredInvariant == ASSUME OneCall PROVE Spec => []StoredInv
<1>1. Init => StoredInv
  <2> SUFFICES ASSUME Init PROVE StoredInv
      OBVIOUS
  <2>1. \A n \in Nodes : \A claims : Covers(n, claims)
      BY DEF Init, PluginInit, Unknown, Covers
  <2>2. \A h \in Handlers : CallStored(h)
      BY DEF Init, PluginInit, CallIdle, CallStored, Assigning
  <2> QED BY <2>1, <2>2 DEF StoredInv, NodeStored
<1>2. NodeTypeInv /\ StoredInv /\ [Next]_vars => StoredInv'
    BY StoredNext
<1> QED BY <1>1, <1>2, NodeTypeInvariant, PTL DEF Spec

\* PreparedStored: then a claim that is in use is in the NAS a new process reads,
\* whatever requests fail, answers are lost and processes are killed or stopped in
\* the middle of a call; only the controller, which stores specs it has read
\* some time ago, takes one out.
THEOREM PreparedIsStored == ASSUME OneCall PROVE Spec => []PreparedStored
<1>1. StoredInv => PreparedStored
    BY DEF StoredInv, NodeStored, Covers, PreparedStored
<1> QED BY <1>1, StoredInvariant, PTL

\* PreparedKnown: then a serving plugin knows the claims in use although it is a new
\* process that has learned them from the NAS, with shared claims and every fault;
\* it may miss only what the controller had taken out of the NAS.
THEOREM PreparedIsKnownAgain == ASSUME OneCall PROVE Spec => []PreparedKnown
<1>1. StoredInv => PreparedKnown
    BY DEF StoredInv, NodeStored, Covers, PreparedKnown
<1> QED BY <1>1, StoredInvariant, PTL

=============================================================================
