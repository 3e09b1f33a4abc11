------------------------ MODULE SharedMemory_proofs ------------------------
(***************************************************************************)
(* The locks of the controller's memory, for any number of workers, nodes  *)
(* and claims: a node's mutex, made on demand, has one holder and is the   *)
(* variable of module NodeMutex; nobody reads a map under the read lock    *)
(* while it is written.                                                    *)
(***************************************************************************)
EXTENDS SharedMemory, TLAPS

\* The read locks that a worker holds at each place in the code.
ReadLocks(pc) ==
    IF pc = "get" THEN 2
    ELSE IF pc \in {"visit", "exists", "nestedRLock", "nested"} THEN 1 ELSE 0

\* The sync.RWMutex: the read locks are those that the workers' places tell, who
\* waits for one is about to take it, a writer is known as such, and has waited for
\* the readers before it writes.
LockOK(w) ==
    /\ readers[w] = ReadLocks(job[w].pc)
    /\ w \in queue => job[w].pc \in RLockPCs
    /\ job[w].pc \in {"wait", "write", "written"} <=> writer = w
    /\ job[w].pc \in {"write", "written"} => \A r \in Workers : readers[r] = 0

RWInv == \A w \in Workers : LockOK(w)

\* The places before a worker holds the mutex of its node for the first time, and
\* those of the two calls of PerNodeMutex.Get, with the mutex or without it.
Outside == {"idle", "acquire"}
Getting == {"outer", "check", "create", "got"}

\* PerNodeMutex: Get works under the outer mutex, the mutex it returned is the one
\* in the map, and who is inside holds that.
HoldOK(w) ==
    LET j == job[w] IN
    /\ j.pc # "idle" => j.node \in Nodes
    /\ j.pc \in {"check", "create", "got"} => outer = w
    /\ j.pc = "create" => submutex[j.node] = None
    /\ j.inside \/ j.pc \in {"got", "acquire"} => j.mutex \in Workers /\ submutex[j.node] = j.mutex
    /\ j.inside => holder[j.node][j.mutex] = w
    /\ j.pc \in Outside => ~j.inside
    /\ j.pc \notin Outside \cup Getting => j.inside

MutexInv ==
    /\ \A w \in Workers : HoldOK(w)
    /\ \A n \in Nodes, m \in Workers : holder[n][m] # None => submutex[n] = m

MemoryInv == MemoryTypeOK /\ RWInv /\ MutexInv

LEMMA InitMemory == Init => MemoryInv
<1> SUFFICES ASSUME Init PROVE MemoryInv
    OBVIOUS
<1>1. Idle \in JobType /\ Idle.pc = "idle" /\ Idle.inside = FALSE
    BY DEF Idle, JobType, PCs, Ops, Methods
<1>2. MemoryTypeOK
    BY <1>1 DEF Init, MemoryTypeOK
<1>3. RWInv
    BY <1>1, MemoryNoneAssumption DEF Init, RWInv, LockOK, ReadLocks, RLockPCs
<1>4. MutexInv
    BY <1>1 DEF Init, MutexInv, HoldOK, Outside, Getting
<1> QED BY <1>2, <1>3, <1>4 DEF MemoryInv

\* A print that meets a write ends the process; the next one starts afresh.
LEMMA FatalMemory == ASSUME NEW w \in Workers, FatalPrint(w) PROVE MemoryInv'
<1>1. Idle \in JobType /\ Idle.pc = "idle" /\ Idle.inside = FALSE
    BY DEF Idle, JobType, PCs, Ops, Methods
<1>2. MemoryTypeOK'
    BY <1>1 DEF FatalPrint, MemoryTypeOK
<1>3. RWInv'
    BY <1>1, MemoryNoneAssumption DEF FatalPrint, RWInv, LockOK, ReadLocks, RLockPCs
<1>4. MutexInv'
    BY <1>1 DEF FatalPrint, MutexInv, HoldOK, Outside, Getting
<1> QED BY <1>2, <1>3, <1>4 DEF MemoryInv

----------------------------------------------------------------------------
(***************************************************************************)
(* Types.                                                                  *)
(***************************************************************************)

\* A job is well-formed after a change of some of its fields.
LEMMA JobFields ==
    ASSUME NEW j \in JobType
    PROVE  /\ \A pc \in PCs : [j EXCEPT !.pc = pc] \in JobType
           /\ \A pc \in PCs, m \in Methods : [j EXCEPT !.pc = pc, !.method = m] \in JobType
           /\ \A pc \in PCs, m \in Workers : [j EXCEPT !.pc = pc, !.mutex = m] \in JobType
BY DEF JobType

LEMMA PlacesType ==
    /\ MutexPCs \cup ReadPCs \cup RLockPCs \cup WritePCs \cup {"idle", "place", "update", "print"} = PCs
    /\ \A op : FirstPC(op) \in PCs
    /\ \A pc \in PCs : AfterRLock(pc) \in PCs
    /\ \A j : AfterWrite(j) \in PCs
BY DEF PCs, MutexPCs, ReadPCs, RLockPCs, WritePCs, FirstPC, AfterRLock, AfterWrite

LEMMA GotoType ==
    ASSUME MemoryTypeOK, NEW w \in Workers, NEW pc \in PCs, Goto(w, pc)
    PROVE  job' \in [Workers -> JobType]
BY JobFields DEF MemoryTypeOK, Goto

LEMMA BecomeType ==
    ASSUME MemoryTypeOK, NEW w \in Workers, NEW j \in JobType, Become(w, j)
    PROVE  job' \in [Workers -> JobType]
BY DEF MemoryTypeOK, Become

LEMMA MutexTypes ==
    ASSUME MemoryInv, NEW w \in Workers,
           LockOuter(w) \/ CheckSubmutex(w) \/ CreateSubmutex(w) \/ UnlockOuter(w)
             \/ LockNode(w) \/ UnlockNode(w)
    PROVE  MemoryTypeOK'
<1>0. /\ MemoryTypeOK /\ job[w] \in JobType
      /\ job[w].pc # "idle" => job[w].node \in Nodes
      /\ \A pc \in {"check", "create", "got", "outer", "acquire"} : pc \in PCs
    BY PlacesType DEF MemoryInv, MemoryTypeOK, MutexInv, HoldOK, MutexPCs, PCs
<1>1. CASE LockOuter(w)
    BY <1>0, <1>1, GotoType DEF LockOuter, MemoryTypeOK, rwVars, mapVars
<1>2. CASE CheckSubmutex(w)
  <2>1. /\ [job[w] EXCEPT !.pc = "create"] \in JobType
        /\ \A m \in Workers : [job[w] EXCEPT !.pc = "got", !.mutex = m] \in JobType
      BY <1>0, JobFields
  <2>2. submutex[job[w].node] \in Workers \cup {None}
      BY <1>0, <1>2 DEF CheckSubmutex, MemoryTypeOK
  <2>3. job' \in [Workers -> JobType]
      BY <1>0, <1>2, <2>1, <2>2, BecomeType DEF CheckSubmutex
  <2> QED BY <1>0, <1>2, <2>3 DEF CheckSubmutex, MemoryTypeOK, mutexVars, rwVars, mapVars
<1>3. CASE CreateSubmutex(w)
  <2>1. [job[w] EXCEPT !.pc = "got", !.mutex = w] \in JobType
      BY <1>0, JobFields
  <2>2. job' \in [Workers -> JobType]
      BY <1>0, <1>3, <2>1, BecomeType DEF CreateSubmutex
  <2> QED BY <1>0, <1>3, <2>2 DEF CreateSubmutex, MemoryTypeOK, rwVars, mapVars
<1>4. CASE UnlockOuter(w)
    BY <1>0, <1>4, GotoType, PlacesType DEF UnlockOuter, MemoryTypeOK, rwVars, mapVars
<1>5. CASE LockNode(w)
  <2>1. [job[w] EXCEPT !.pc = "outer", !.inside = TRUE] \in JobType
      BY <1>0 DEF JobType
  <2>2. job' \in [Workers -> JobType]
      BY <1>0, <1>5, <2>1, BecomeType DEF LockNode
  <2>3. holder' \in [Nodes -> [Workers -> Workers \cup {None}]]
      BY <1>0, <1>5 DEF LockNode, MemoryTypeOK
  <2> QED BY <1>0, <1>5, <2>2, <2>3 DEF LockNode, MemoryTypeOK, rwVars, mapVars
<1>6. CASE UnlockNode(w)
  <2>1. Idle \in JobType
      BY DEF Idle, JobType, PCs, Ops, Methods
  <2>2. job' \in [Workers -> JobType]
      BY <1>0, <1>6, <2>1, BecomeType DEF UnlockNode
  <2>3. holder' \in [Nodes -> [Workers -> Workers \cup {None}]]
      BY <1>0, <1>6 DEF UnlockNode, MemoryTypeOK
  <2> QED BY <1>0, <1>6, <2>2, <2>3 DEF UnlockNode, MemoryTypeOK, rwVars, mapVars
<1> QED BY <1>1, <1>2, <1>3, <1>4, <1>5, <1>6

LEMMA WriterTypes ==
    ASSUME MemoryInv, NEW w \in Workers,
           RLock(w) \/ Lock(w) \/ LockGranted(w) \/ BeginWrite(w) \/ EndWrite(w)
    PROVE  MemoryTypeOK'
<1>0. /\ MemoryTypeOK /\ job[w] \in JobType /\ job[w].pc \in PCs
      /\ job[w].pc # "idle" => job[w].node \in Nodes
      /\ \A pc \in {"wait", "write", "written"} : pc \in PCs
    BY PlacesType DEF MemoryInv, MemoryTypeOK, MutexInv, HoldOK, WritePCs, JobType, PCs
<1>1. CASE RLock(w)
  <2>1. CASE Goto(w, AfterRLock(job[w].pc)) /\ readers' = [readers EXCEPT ![w] = @ + 1] /\ UNCHANGED queue
    <3>1. job' \in [Workers -> JobType]
        BY <1>0, <2>1, GotoType, PlacesType
    <3>2. readers[w] \in {0, 1}
      <4>1. readers[w] = ReadLocks(job[w].pc) /\ job[w].pc \in RLockPCs
          BY <1>1 DEF RLock, MemoryInv, RWInv, LockOK
      <4> QED BY <4>1 DEF ReadLocks, RLockPCs
    <3>3. readers' \in [Workers -> 0 .. 2]
        BY <1>0, <2>1, <3>2 DEF MemoryTypeOK
    <3> QED BY <1>0, <1>1, <2>1, <3>1, <3>3 DEF RLock, MemoryTypeOK, mutexVars, mapVars
  <2>2. CASE queue' = queue \cup {w} /\ UNCHANGED <<readers, job>>
      BY <1>0, <1>1, <2>2 DEF RLock, MemoryTypeOK, mutexVars, mapVars
  <2> QED BY <1>1, <2>1, <2>2 DEF RLock
<1>2. CASE Lock(w)
    BY <1>0, <1>2, GotoType DEF Lock, MemoryTypeOK, mutexVars, mapVars
<1>3. CASE LockGranted(w)
    BY <1>0, <1>3, GotoType DEF LockGranted, MemoryTypeOK, mutexVars, rwVars, mapVars
<1>4. CASE BeginWrite(w)
    BY <1>0, <1>4, GotoType DEF BeginWrite, MemoryTypeOK, mutexVars, rwVars, mapVars
<1>5. CASE EndWrite(w)
  <2>1. Written(job[w]) \in JobType
    <3>1. AfterWrite(job[w]) \in PCs
        BY PlacesType
    <3>2. \A pc \in PCs, p \in Methods, m \in Methods :
             [job[w] EXCEPT !.pc = pc, !.print = p, !.method = m] \in JobType
        BY <1>0 DEF JobType
    <3>3. job[w].method \in Methods
        BY <1>0 DEF JobType
    <3> QED BY <3>1, <3>2, <3>3 DEF Written, Methods
  <2>2. ASSUME NEW r \in Workers PROVE [job[r] EXCEPT !.pc = AfterRLock(job[r].pc)] \in JobType
    <3>1. job[r] \in JobType /\ job[r].pc \in PCs
        BY <1>0 DEF MemoryTypeOK, JobType
    <3> QED BY <3>1, JobFields, PlacesType
  <2>3. job' \in [Workers -> JobType]
      BY <1>0, <1>5, <2>1, <2>2 DEF EndWrite, MemoryTypeOK
  <2>4. ASSUME NEW r \in queue PROVE readers[r] \in {0, 1}
    <3>1. r \in Workers /\ readers[r] = ReadLocks(job[r].pc) /\ job[r].pc \in RLockPCs
        BY <1>0 DEF MemoryInv, RWInv, LockOK, MemoryTypeOK
    <3> QED BY <3>1 DEF ReadLocks, RLockPCs
  <2>5. readers' \in [Workers -> 0 .. 2] /\ queue' = {} /\ writer' = None
    <3>1. \A r \in Workers : readers[r] \in 0 .. 2
        BY <1>0 DEF MemoryTypeOK
    <3> QED BY <1>5, <2>4, <3>1 DEF EndWrite
  <2>6. allocations' \in [Claims -> SUBSET Nodes]
    <3>1. job[w].node \in Nodes
        BY <1>0, <1>5 DEF EndWrite
    <3> QED BY <1>0, <1>5, <3>1 DEF EndWrite, MemoryTypeOK
  <2>7. utilisation' \in SUBSET Nodes
    <3>1. job[w].node \in Nodes
        BY <1>0, <1>5 DEF EndWrite
    <3> QED BY <1>0, <1>5, <3>1 DEF EndWrite, MemoryTypeOK
  <2> QED BY <1>0, <1>5, <2>3, <2>5, <2>6, <2>7 DEF EndWrite, MemoryTypeOK, mutexVars
<1> QED BY <1>1, <1>2, <1>3, <1>4, <1>5

\* Giving up a read lock keeps the count in bounds.
LEMMA UnlockType ==
    ASSUME MemoryInv, NEW w \in Workers, job[w].pc \in ReadPCs, RUnlock(w)
    PROVE  readers' \in [Workers -> 0 .. 2]
<1>1. readers[w] \in {1, 2}
    BY DEF MemoryInv, RWInv, LockOK, ReadLocks, ReadPCs
<1> QED BY <1>1 DEF MemoryInv, MemoryTypeOK, RUnlock

LEMMA MethodTypes ==
    ASSUME MemoryInv, NEW w \in Workers,
           \/ Starts(w)
           \/ \E c \in Claims : VisitClaim(w, c) \/ Place(w, c)
           \/ VisitEnds(w) \/ PlaceEnds(w) \/ Exists(w) \/ Get(w) \/ Update(w) \/ PrintMaps(w)
    PROVE  MemoryTypeOK'
<1>0. /\ MemoryTypeOK /\ job[w] \in JobType /\ job[w].visited \in SUBSET Claims
      /\ job[w].todo \in SUBSET Claims
    BY DEF MemoryInv, MemoryTypeOK, JobType
<1>p. /\ {"outer", "visitRLock", "lock", "place", "release", "getRLock", "nested", "update"}
            \subseteq PCs
      /\ {"none", "Set", "SetUtil", "Remove", "RemoveUtil", "RemoveUtilOtherNodes"} = Methods
      /\ {"none", "unsuitable", "allocate", "deallocate"} = Ops
    BY DEF PCs, MutexPCs, ReadPCs, RLockPCs, WritePCs, Methods, Ops
<1>b. ASSUME NEW j \in JobType, Become(w, j), UNCHANGED <<mutexVars, queue, writer, mapVars>>,
             readers' \in [Workers -> 0 .. 2]
      PROVE  MemoryTypeOK'
  <2>1. job' \in [Workers -> JobType]
      BY <1>0, <1>b, BecomeType
  <2> QED BY <1>0, <1>b, <2>1 DEF MemoryTypeOK, mutexVars, mapVars
<1>c. ASSUME NEW j \in JobType, Become(w, j), UNCHANGED <<mutexVars, rwVars, mapVars>>
      PROVE  MemoryTypeOK'
  <2>1. readers' \in [Workers -> 0 .. 2] /\ UNCHANGED <<queue, writer>>
      BY <1>0, <1>c DEF rwVars, MemoryTypeOK
  <2> QED BY <1>b, <1>c, <2>1
<1>1. ASSUME NEW op \in Ops, NEW n \in Nodes, NEW c \in Claims \cup {None}, Start(w, op, n, c)
      PROVE  MemoryTypeOK'
  <2>1. [Idle EXCEPT !.pc = "outer", !.op = op, !.node = n, !.claim = c] \in JobType
      BY <1>p DEF Idle, JobType
  <2> QED BY <1>1, <1>c, <2>1 DEF Start
<1>2. ASSUME NEW c \in Claims, VisitClaim(w, c) PROVE MemoryTypeOK'
  <2> DEFINE j == [job[w] EXCEPT !.visited = @ \cup {c}]
             j1 == [j EXCEPT !.pc = "visitRLock"]
             j2 == [j EXCEPT !.pc = "lock", !.method = "Remove", !.claim = c]
  <2>1. j1 \in JobType /\ j2 \in JobType
      BY <1>0, <1>p DEF JobType
  <2>2. readers' \in [Workers -> 0 .. 2]
      BY <1>2, UnlockType DEF VisitClaim, ReadPCs
  <2>3. UNCHANGED <<mutexVars, queue, writer, mapVars>> /\ (Become(w, j1) \/ Become(w, j2))
      BY <1>2 DEF VisitClaim
  <2> HIDE DEF j1, j2
  <2> QED BY <1>b, <2>1, <2>2, <2>3
<1>3. ASSUME VisitEnds(w) PROVE MemoryTypeOK'
  <2>1. PICK todo \in SUBSET Claims :
           Become(w, [job[w] EXCEPT !.pc = "place", !.todo = todo, !.visited = {}, !.claim = None])
      BY <1>3 DEF VisitEnds
  <2>2. [job[w] EXCEPT !.pc = "place", !.todo = todo, !.visited = {}, !.claim = None] \in JobType
      BY <1>0, <1>p DEF JobType
  <2>3. readers' \in [Workers -> 0 .. 2]
      BY <1>3, UnlockType DEF VisitEnds, ReadPCs
  <2> QED BY <1>3, <1>b, <2>1, <2>2, <2>3 DEF VisitEnds
<1>4. ASSUME NEW c \in Claims, Place(w, c) PROVE MemoryTypeOK'
  <2>1. /\ [job[w] EXCEPT !.pc = "lock", !.method = "Set", !.claim = c, !.todo = @ \ {c}] \in JobType
        /\ [job[w] EXCEPT !.pc = "release", !.todo = {}] \in JobType
      BY <1>0, <1>p DEF JobType
  <2> QED BY <1>4, <1>c, <2>1 DEF Place
<1>5. ASSUME PlaceEnds(w) \/ Update(w) PROVE MemoryTypeOK'
  <2>1. /\ \A m \in Methods : [job[w] EXCEPT !.pc = "lock", !.method = m] \in JobType
        /\ [job[w] EXCEPT !.pc = "release"] \in JobType
      BY <1>0, <1>p, JobFields
  <2> QED BY <1>5, <1>c, <1>p, <2>1 DEF PlaceEnds, Update, Write, Goto, Become
<1>6. ASSUME Exists(w) PROVE MemoryTypeOK'
  <2>1. \A pc \in {"getRLock", "release"} : [job[w] EXCEPT !.pc = pc] \in JobType
      BY <1>0, <1>p, JobFields
  <2>2. readers' \in [Workers -> 0 .. 2]
      BY <1>6, UnlockType DEF Exists, ReadPCs
  <2> QED BY <1>6, <1>b, <2>1, <2>2 DEF Exists, Goto, Become
<1>7. ASSUME Get(w) PROVE MemoryTypeOK'
  <2>1. \A pc \in {"nested", "update"} : [job[w] EXCEPT !.pc = pc] \in JobType
      BY <1>0, <1>p, JobFields
  <2>2. readers' \in [Workers -> 0 .. 2]
      BY <1>7, UnlockType DEF Get, ReadPCs
  <2> QED BY <1>7, <1>b, <2>1, <2>2 DEF Get, Goto, Become
<1>8. ASSUME PrintMaps(w) PROVE MemoryTypeOK'
  <2> DEFINE j == [job[w] EXCEPT !.print = "none"]
  <2>1. j \in JobType
      BY <1>0, <1>p DEF JobType
  <2>2. /\ [j EXCEPT !.pc = "lock", !.method = "RemoveUtil"] \in JobType
        /\ [j EXCEPT !.pc = "place", !.claim = None] \in JobType
        /\ [j EXCEPT !.pc = "release"] \in JobType
      BY <1>p, <2>1 DEF JobType
  <2>3. AfterPrint(w) \in JobType
      BY <2>2 DEF AfterPrint
  <2> QED BY <1>8, <1>c, <2>3 DEF PrintMaps
<1> QED BY <1>1, <1>2, <1>3, <1>4, <1>5, <1>6, <1>7, <1>8, <1>p DEF Starts

----------------------------------------------------------------------------
(***************************************************************************)
(* The locks: what a step of worker w does to its own place, while the     *)
(* other workers stay where they are.                                      *)
(***************************************************************************)
\* Steps without a lock operation of the RWMutex.
Unlocked(w) ==
    /\ UNCHANGED rwVars
    /\ \A v \in Workers \ {w} : job'[v] = job[v]
    /\ \A pc \in {job[w].pc, job'[w].pc} :
          /\ ReadLocks(pc) = 0 /\ pc \notin {"wait", "write", "written"}
    /\ job[w].pc \notin RLockPCs

LEMMA UnlockedRW ==
    ASSUME MemoryInv, NEW w \in Workers, Unlocked(w)
    PROVE  RWInv'
BY DEF MemoryInv, RWInv, LockOK, Unlocked, rwVars

LEMMA UnlockedSteps ==
    ASSUME MemoryInv, NEW w \in Workers,
           \/ Starts(w)
           \/ LockOuter(w) \/ CheckSubmutex(w) \/ CreateSubmutex(w) \/ UnlockOuter(w)
           \/ LockNode(w) \/ UnlockNode(w)
           \/ \E c \in Claims : Place(w, c)
           \/ PlaceEnds(w) \/ Update(w) \/ PrintMaps(w)
    PROVE  Unlocked(w)
<1> DEFINE Free(pc) == /\ ReadLocks(pc) = 0 /\ pc \notin {"wait", "write", "written"}
           Some == {"idle", "outer", "check", "create", "got", "acquire", "release", "place", "update",
                    "print", "lock", "visitRLock", "existsRLock"}
<1>0. job \in [Workers -> JobType] /\ job[w] \in JobType
    BY DEF MemoryInv, MemoryTypeOK
<1>1. \A pc \in Some : Free(pc)
    BY DEF ReadLocks
<1>b. ASSUME NEW j, job' = [job EXCEPT ![w] = j], j.pc \in Some, job[w].pc \in Some \ RLockPCs,
             UNCHANGED rwVars
      PROVE  Unlocked(w)
  <2>1. job'[w] = j /\ \A v \in Workers \ {w} : job'[v] = job[v]
      BY <1>0, <1>b
  <2> QED BY <1>1, <1>b, <2>1 DEF Unlocked
<1> HIDE DEF Free
<1>2. ASSUME NEW op, NEW n, NEW c, Start(w, op, n, c) PROVE Unlocked(w)
  <2> DEFINE j == [Idle EXCEPT !.pc = "outer", !.op = op, !.node = n, !.claim = c]
  <2>1. j.pc = "outer" /\ job[w].pc = "idle" /\ Become(w, j) /\ UNCHANGED rwVars
      BY <1>2 DEF Start, Idle
  <2> HIDE DEF j
  <2> QED BY <1>b, <2>1 DEF Become, RLockPCs
<1>3. CASE LockOuter(w)
    BY <1>0, <1>3, <1>b DEF LockOuter, Goto, JobType, RLockPCs
<1>4. CASE CheckSubmutex(w)
  <2>1. /\ [job[w] EXCEPT !.pc = "create"].pc = "create"
        /\ \A m : [job[w] EXCEPT !.pc = "got", !.mutex = m].pc = "got"
      BY <1>0 DEF JobType
  <2> QED BY <1>4, <1>b, <2>1 DEF CheckSubmutex, Become, RLockPCs
<1>5. CASE CreateSubmutex(w)
    BY <1>0, <1>5, <1>b DEF CreateSubmutex, Become, JobType, RLockPCs
<1>6. CASE UnlockOuter(w)
  <2> DEFINE to == IF job[w].inside THEN FirstPC(job[w].op) ELSE "acquire"
  <2>1. to \in Some
      BY DEF FirstPC
  <2>2. job[w].pc = "got" /\ Goto(w, to) /\ UNCHANGED rwVars
      BY <1>6 DEF UnlockOuter
  <2> HIDE DEF to
  <2>3. [job[w] EXCEPT !.pc = to].pc = to
      BY <1>0 DEF JobType
  <2> QED BY <1>b, <2>1, <2>2, <2>3 DEF Goto, RLockPCs
<1>7. CASE LockNode(w)
    BY <1>0, <1>7, <1>b DEF LockNode, Become, JobType, RLockPCs
<1>8. CASE UnlockNode(w)
  <2>1. Idle.pc = "idle"
      BY DEF Idle
  <2> QED BY <1>8, <1>b, <2>1 DEF UnlockNode, Become, RLockPCs
<1>9. ASSUME NEW c \in Claims, Place(w, c) PROVE Unlocked(w)
  <2>1. /\ [job[w] EXCEPT !.pc = "lock", !.method = "Set", !.claim = c, !.todo = @ \ {c}].pc = "lock"
        /\ [job[w] EXCEPT !.pc = "release", !.todo = {}].pc = "release"
      BY <1>0 DEF JobType
  <2> QED BY <1>9, <1>b, <2>1 DEF Place, Become, RLockPCs
<1>10. CASE PlaceEnds(w) \/ Update(w)
  <2>1. /\ \A m : [job[w] EXCEPT !.pc = "lock", !.method = m].pc = "lock"
        /\ [job[w] EXCEPT !.pc = "release"].pc = "release"
      BY <1>0 DEF JobType
  <2> QED BY <1>10, <1>b, <2>1 DEF PlaceEnds, Update, Write, Goto, Become, RLockPCs
<1>11. CASE PrintMaps(w)
  <2>1. AfterPrint(w).pc \in {"lock", "place", "release"}
      BY <1>0 DEF AfterPrint, JobType
  <2> QED BY <1>11, <1>b, <2>1 DEF PrintMaps, Become, RLockPCs
<1> QED BY <1>2, <1>3, <1>4, <1>5, <1>6, <1>7, <1>8, <1>9, <1>10, <1>11 DEF Starts

\* Nobody is past Lock while a worker holds a read lock and goes on with it.
LEMMA NoneWrites ==
    ASSUME MemoryInv, NEW r \in Workers, readers[r] > 0, NEW w \in Workers
    PROVE  job[w].pc \notin {"write", "written"}
BY DEF MemoryInv, MemoryTypeOK, RWInv, LockOK

\* The end of a read: the worker gives up one of its read locks.
LEMMA RUnlockSteps ==
    ASSUME MemoryInv, NEW w \in Workers,
           \/ \E c \in Claims : VisitClaim(w, c)
           \/ VisitEnds(w) \/ Exists(w) \/ Get(w)
    PROVE  RWInv'
<1>0. /\ job \in [Workers -> JobType] /\ job[w] \in JobType /\ readers \in [Workers -> 0 .. 2]
      /\ readers[w] = ReadLocks(job[w].pc)
    BY DEF MemoryInv, MemoryTypeOK, RWInv, LockOK
<1>b. ASSUME NEW j, job' = [job EXCEPT ![w] = j], RUnlock(w), UNCHANGED <<queue, writer>>,
             job[w].pc \in ReadPCs, ReadLocks(j.pc) = ReadLocks(job[w].pc) - 1,
             j.pc \notin {"wait", "write", "written"}
      PROVE  RWInv'
  <2>1. /\ job'[w] = j /\ \A v \in Workers \ {w} : job'[v] = job[v] /\ readers'[v] = readers[v]
        /\ readers'[w] = ReadLocks(j.pc)
      BY <1>0, <1>b DEF RUnlock
  <2>2. job[w].pc \notin RLockPCs \cup {"wait", "write", "written"} /\ readers[w] > 0
      BY <1>0, <1>b DEF ReadPCs, RLockPCs, ReadLocks
  <2>3. \A v \in Workers : job'[v].pc \notin {"write", "written"}
      BY <1>b, <2>1, <2>2, NoneWrites
  <2> QED BY <1>b, <2>1, <2>2, <2>3 DEF MemoryInv, RWInv, LockOK
<1>1. ASSUME NEW c \in Claims, VisitClaim(w, c) PROVE RWInv'
  <2> DEFINE j == [job[w] EXCEPT !.visited = @ \cup {c}]
             j1 == [j EXCEPT !.pc = "visitRLock"]
             j2 == [j EXCEPT !.pc = "lock", !.method = "Remove", !.claim = c]
  <2>1. j1.pc = "visitRLock" /\ j2.pc = "lock"
      BY <1>0 DEF JobType
  <2>2. /\ job[w].pc = "visit" /\ RUnlock(w) /\ UNCHANGED <<queue, writer>>
        /\ Become(w, j1) \/ Become(w, j2)
      BY <1>1 DEF VisitClaim
  <2> HIDE DEF j1, j2
  <2> QED BY <1>b, <2>1, <2>2 DEF Become, ReadPCs, ReadLocks
<1>2. CASE VisitEnds(w)
  <2> DEFINE j(todo) ==
        [job[w] EXCEPT !.pc = "place", !.todo = todo, !.visited = {}, !.claim = None]
  <2>1. \A todo : j(todo).pc = "place"
      BY <1>0 DEF JobType
  <2>2. /\ job[w].pc = "visit" /\ RUnlock(w) /\ UNCHANGED <<queue, writer>>
        /\ \E todo \in SUBSET Claims : Become(w, j(todo))
      BY <1>2 DEF VisitEnds
  <2>3. PICK todo \in SUBSET Claims : Become(w, j(todo))
      BY <2>2
  <2>4. ReadLocks("place") = ReadLocks("visit") - 1 /\ "visit" \in ReadPCs
      BY DEF ReadLocks, ReadPCs
  <2> HIDE DEF j
  <2> QED BY <1>b, <2>1, <2>2, <2>3, <2>4 DEF Become
<1>c. ASSUME NEW pc, Goto(w, pc), RUnlock(w), UNCHANGED <<queue, writer>>,
             job[w].pc \in ReadPCs, ReadLocks(pc) = ReadLocks(job[w].pc) - 1,
             pc \notin {"wait", "write", "written"}
      PROVE  RWInv'
  <2> DEFINE j == [job[w] EXCEPT !.pc = pc]
  <2>1. j.pc = pc /\ job' = [job EXCEPT ![w] = j]
      BY <1>0, <1>c DEF JobType, Goto
  <2> HIDE DEF j
  <2> QED BY <1>b, <1>c, <2>1
<1>3. CASE Exists(w)
  <2>1. /\ job[w].pc = "exists" /\ RUnlock(w) /\ UNCHANGED <<queue, writer>>
        /\ Goto(w, "getRLock") \/ Goto(w, "release")
      BY <1>3 DEF Exists
  <2> QED BY <1>c, <2>1 DEF ReadPCs, ReadLocks
<1>4. CASE Get(w)
  <2>1. /\ RUnlock(w) /\ UNCHANGED <<queue, writer>>
        /\ \/ job[w].pc = "get" /\ Goto(w, "nested")
           \/ job[w].pc = "nested" /\ Goto(w, "update")
      BY <1>4 DEF Get
  <2> QED BY <1>c, <2>1 DEF ReadPCs, ReadLocks
<1> QED BY <1>1, <1>2, <1>3, <1>4

\* Taking a read lock.
LEMMA RLockedPlace ==
    ASSUME NEW pc \in RLockPCs
    PROVE  /\ ReadLocks(AfterRLock(pc)) = ReadLocks(pc) + 1
           /\ AfterRLock(pc) \notin {"wait", "write", "written"}
           /\ pc \notin {"wait", "write", "written"}
BY DEF RLockPCs, ReadLocks, AfterRLock

LEMMA LockSteps ==
    ASSUME MemoryInv, NEW w \in Workers,
           RLock(w) \/ Lock(w) \/ LockGranted(w) \/ BeginWrite(w)
    PROVE  RWInv'
<1>0. /\ job \in [Workers -> JobType] /\ job[w] \in JobType /\ readers \in [Workers -> 0 .. 2]
      /\ RWInv /\ LockOK(w) /\ \A v \in Workers : job[v] \in JobType
      /\ queue \in SUBSET Workers
    BY DEF MemoryInv, MemoryTypeOK, RWInv
<1>1. ASSUME NEW pc, Goto(w, pc)
      PROVE  job'[w].pc = pc /\ \A v \in Workers \ {w} : job'[v] = job[v]
    BY <1>0, <1>1 DEF Goto, JobType
<1>2. CASE RLock(w) /\ writer # None
    BY <1>0, <1>2 DEF RLock, RWInv, LockOK
<1>3. CASE RLock(w) /\ writer = None
  <2>1. /\ job[w].pc \in RLockPCs /\ Goto(w, AfterRLock(job[w].pc))
        /\ readers' = [readers EXCEPT ![w] = @ + 1] /\ w \notin queue /\ UNCHANGED <<queue, writer>>
      BY <1>3 DEF RLock
  <2>2. /\ job'[w].pc = AfterRLock(job[w].pc) /\ readers'[w] = ReadLocks(job[w].pc) + 1
        /\ \A v \in Workers \ {w} : job'[v] = job[v] /\ readers'[v] = readers[v]
      BY <1>0, <1>1, <2>1 DEF LockOK
  <2>3. ASSUME NEW v \in Workers PROVE job'[v].pc \notin {"wait", "write", "written"}
    <3>1. CASE v = w
        BY <2>1, <2>2, <3>1, RLockedPlace
    <3>2. CASE v # w
        BY <1>0, <1>3, <2>2, <3>2, MemoryNoneAssumption DEF RWInv, LockOK
    <3> QED BY <3>1, <3>2
  <2>4. \A v \in Workers : writer' # v
      BY <1>3, <2>1, MemoryNoneAssumption
  <2> QED BY <1>0, <2>1, <2>2, <2>3, <2>4, RLockedPlace DEF RWInv, LockOK
<1>4. CASE Lock(w)
  <2>1. /\ job[w].pc = "lock" /\ writer = None /\ writer' = w /\ Goto(w, "wait")
        /\ UNCHANGED <<readers, queue>>
      BY <1>4 DEF Lock
  <2>2. job'[w].pc = "wait" /\ \A v \in Workers \ {w} : job'[v] = job[v]
      BY <1>1, <2>1
  <2>3. \A v \in Workers \ {w} : job[v].pc \notin {"wait", "write", "written"}
      BY <1>0, <2>1, MemoryNoneAssumption DEF RWInv, LockOK
  <2> QED BY <1>0, <2>1, <2>2, <2>3 DEF RWInv, LockOK, ReadLocks, RLockPCs
<1>5. CASE LockGranted(w)
  <2>1. /\ job[w].pc = "wait" /\ \A r \in Workers : readers[r] = 0
        /\ job'[w].pc = "write" /\ \A v \in Workers \ {w} : job'[v] = job[v]
        /\ UNCHANGED <<readers, queue, writer>>
      BY <1>1, <1>5 DEF LockGranted, rwVars
  <2> QED BY <1>0, <2>1 DEF RWInv, LockOK, ReadLocks, RLockPCs
<1>6. CASE BeginWrite(w)
  <2>1. /\ job[w].pc = "write"
        /\ job'[w].pc = "written" /\ \A v \in Workers \ {w} : job'[v] = job[v]
        /\ UNCHANGED <<readers, queue, writer>>
      BY <1>1, <1>6 DEF BeginWrite, rwVars
  <2> QED BY <1>0, <2>1 DEF RWInv, LockOK, ReadLocks, RLockPCs
<1> QED BY <1>2, <1>3, <1>4, <1>5, <1>6

LEMMA EndWriteRW ==
    ASSUME MemoryInv, NEW w \in Workers, EndWrite(w)
    PROVE  RWInv'
<1>0. /\ job \in [Workers -> JobType] /\ \A v \in Workers : job[v] \in JobType
      /\ readers \in [Workers -> 0 .. 2] /\ RWInv /\ queue \in SUBSET Workers
      /\ job[w].pc = "written"
    BY DEF MemoryInv, MemoryTypeOK, EndWrite
<1>1. Written(job[w]).pc = AfterWrite(job[w])
    BY <1>0 DEF Written, JobType
<1>2. /\ ReadLocks(AfterWrite(job[w])) = 0
      /\ AfterWrite(job[w]) \notin {"wait", "write", "written"}
    BY DEF AfterWrite, ReadLocks
<1>3. w \notin queue /\ writer = w
    BY <1>0 DEF RWInv, LockOK, RLockPCs
<1>4. /\ job'[w] = Written(job[w]) /\ readers'[w] = readers[w]
      /\ writer' = None /\ queue' = {}
    BY <1>3 DEF EndWrite
<1>5. ASSUME NEW v \in queue
      PROVE  job'[v].pc = AfterRLock(job[v].pc) /\ readers'[v] = readers[v] + 1
  <2>1. v \in Workers /\ v # w
      BY <1>0, <1>3
  <2>2. [job[v] EXCEPT !.pc = AfterRLock(job[v].pc)].pc = AfterRLock(job[v].pc)
      BY <1>0, <2>1 DEF JobType
  <2> QED BY <2>1, <2>2 DEF EndWrite
<1>6. ASSUME NEW v \in Workers, v \notin queue, v # w
      PROVE  job'[v] = job[v] /\ readers'[v] = readers[v]
    BY <1>6 DEF EndWrite
<1>7. ASSUME NEW v \in Workers
      PROVE  /\ job'[v].pc \notin {"wait", "write", "written"}
             /\ readers'[v] = ReadLocks(job'[v].pc)
  <2>1. CASE v = w
      BY <1>0, <1>1, <1>2, <1>4, <2>1 DEF RWInv, LockOK, ReadLocks
  <2>2. CASE v \in queue
      BY <1>0, <1>5, <2>2, RLockedPlace DEF RWInv, LockOK
  <2>3. CASE v # w /\ v \notin queue
      BY <1>0, <1>3, <1>6, <2>3 DEF RWInv, LockOK
  <2> QED BY <2>1, <2>2, <2>3
<1> QED BY <1>4, <1>7, MemoryNoneAssumption DEF RWInv, LockOK

----------------------------------------------------------------------------
(***************************************************************************)
(* The mutexes of the nodes.                                               *)
(***************************************************************************)

\* Steps inside the section of the node, of any number of workers: they leave the
\* mutexes alone and their workers inside.
Within ==
    /\ UNCHANGED mutexVars
    /\ \A v \in Workers :
          \/ job'[v] = job[v]
          \/ /\ job[v].inside /\ job[v].pc # "idle"
             /\ job'[v].inside /\ job'[v].pc \notin Outside \cup Getting
             /\ job'[v].node = job[v].node /\ job'[v].mutex = job[v].mutex

LEMMA WithinMutex == ASSUME MemoryInv, Within PROVE MutexInv'
BY DEF MemoryInv, MutexInv, HoldOK, Within, mutexVars, Outside, Getting

LEMMA WithinSteps ==
    ASSUME MemoryInv, NEW w \in Workers,
           \/ RLock(w) \/ Lock(w) \/ LockGranted(w) \/ BeginWrite(w) \/ EndWrite(w)
           \/ \E c \in Claims : VisitClaim(w, c) \/ Place(w, c)
           \/ VisitEnds(w) \/ PlaceEnds(w)
           \/ Exists(w) \/ Get(w) \/ Update(w) \/ PrintMaps(w)
    PROVE  Within
<1> DEFINE Section == {"visit", "exists", "nested", "get", "visitRLock", "existsRLock", "getRLock",
                       "nestedRLock", "lock", "wait", "write", "written", "place", "update",
                       "print", "release"}
<1>0. /\ job \in [Workers -> JobType] /\ \A v \in Workers : job[v] \in JobType
      /\ \A v \in Workers : job[v].pc \in Section => job[v].inside
      /\ \A pc \in Section : pc \notin Outside \cup Getting /\ pc # "idle"
    BY DEF MemoryInv, MemoryTypeOK, MutexInv, HoldOK, Outside, Getting
<1>b. ASSUME NEW j, job' = [job EXCEPT ![w] = j], j.inside = job[w].inside, j.node = job[w].node,
             j.mutex = job[w].mutex, j.pc \in Section, job[w].pc \in Section, UNCHANGED mutexVars
      PROVE  Within
  <2>1. job'[w] = j /\ \A v \in Workers \ {w} : job'[v] = job[v]
      BY <1>0, <1>b
  <2> HIDE DEF Section
  <2> QED BY <1>0, <1>b, <2>1 DEF Within
<1>c. ASSUME NEW pc \in Section, Goto(w, pc), job[w].pc \in Section, UNCHANGED mutexVars
      PROVE  Within
  <2> DEFINE j == [job[w] EXCEPT !.pc = pc]
  <2>1. /\ j.inside = job[w].inside /\ j.node = job[w].node /\ j.mutex = job[w].mutex /\ j.pc = pc
        /\ job' = [job EXCEPT ![w] = j]
      BY <1>0, <1>c DEF JobType, Goto
  <2> HIDE DEF j
  <2> QED BY <1>b, <1>c, <2>1
<1>r. \A pc \in RLockPCs : pc \in Section /\ AfterRLock(pc) \in Section
    BY DEF RLockPCs, AfterRLock
<1>1. CASE RLock(w)
  <2>1. CASE UNCHANGED job
      BY <1>1, <2>1 DEF RLock, Within
  <2>2. CASE Goto(w, AfterRLock(job[w].pc))
    <3>1. job[w].pc \in RLockPCs /\ UNCHANGED mutexVars
        BY <1>1 DEF RLock
    <3> HIDE DEF Section
    <3> QED BY <1>c, <1>r, <2>2, <3>1
  <2> QED BY <1>1, <2>1, <2>2 DEF RLock
<1>2. CASE Lock(w) \/ LockGranted(w) \/ BeginWrite(w) \/ Exists(w) \/ Get(w)
    BY <1>2, <1>c DEF Lock, LockGranted, BeginWrite, Exists, Get
<1>3. CASE EndWrite(w)
  <2>1. job[w].pc = "written" /\ UNCHANGED mutexVars
      BY <1>3 DEF EndWrite
  <2>2. /\ Written(job[w]).inside = job[w].inside /\ Written(job[w]).node = job[w].node
        /\ Written(job[w]).mutex = job[w].mutex /\ Written(job[w]).pc = AfterWrite(job[w])
      BY <1>0 DEF Written, JobType
  <2>3. AfterWrite(job[w]) \in Section
      BY DEF AfterWrite
  <2>4. ASSUME NEW v \in queue, v # w
        PROVE  /\ v \in Workers /\ job[v].pc \in Section
               /\ job'[v].inside = job[v].inside /\ job'[v].node = job[v].node
               /\ job'[v].mutex = job[v].mutex /\ job'[v].pc = AfterRLock(job[v].pc)
               /\ AfterRLock(job[v].pc) \in Section
    <3>1. v \in Workers /\ job[v].pc \in RLockPCs
        BY DEF MemoryInv, MemoryTypeOK, RWInv, LockOK
    <3>2. job'[v] = [job[v] EXCEPT !.pc = AfterRLock(job[v].pc)]
        BY <1>3, <2>4, <3>1 DEF EndWrite
    <3>3. /\ job'[v].inside = job[v].inside /\ job'[v].node = job[v].node
          /\ job'[v].mutex = job[v].mutex /\ job'[v].pc = AfterRLock(job[v].pc)
        BY <1>0, <3>1, <3>2 DEF JobType
    <3> HIDE DEF Section
    <3> QED BY <1>r, <3>1, <3>3
  <2>5. job'[w] = Written(job[w]) /\ \A v \in Workers : v # w /\ v \notin queue => job'[v] = job[v]
      BY <1>3 DEF EndWrite
  <2>6. "written" \in Section
      OBVIOUS
  <2> HIDE DEF Section
  <2> QED BY <1>0, <2>1, <2>2, <2>3, <2>4, <2>5, <2>6 DEF Within
<1>4. ASSUME NEW c \in Claims, VisitClaim(w, c) PROVE Within
  <2> DEFINE j == [job[w] EXCEPT !.visited = @ \cup {c}]
             j1 == [j EXCEPT !.pc = "visitRLock"]
             j2 == [j EXCEPT !.pc = "lock", !.method = "Remove", !.claim = c]
  <2>1. /\ j1.pc = "visitRLock" /\ j1.inside = job[w].inside /\ j1.node = job[w].node
        /\ j1.mutex = job[w].mutex
        /\ j2.pc = "lock" /\ j2.inside = job[w].inside /\ j2.node = job[w].node
        /\ j2.mutex = job[w].mutex
      BY <1>0 DEF JobType
  <2>2. /\ job[w].pc = "visit" /\ UNCHANGED mutexVars
        /\ Become(w, j1) \/ Become(w, j2)
      BY <1>4 DEF VisitClaim
  <2> HIDE DEF j1, j2
  <2> QED BY <1>b, <2>1, <2>2 DEF Become
<1>5. CASE VisitEnds(w)
  <2> DEFINE j(todo) ==
        [job[w] EXCEPT !.pc = "place", !.todo = todo, !.visited = {}, !.claim = None]
  <2>1. \A todo : /\ j(todo).pc = "place" /\ j(todo).inside = job[w].inside
                  /\ j(todo).node = job[w].node /\ j(todo).mutex = job[w].mutex
      BY <1>0 DEF JobType
  <2>2. /\ job[w].pc = "visit" /\ UNCHANGED mutexVars
        /\ \E todo \in SUBSET Claims : Become(w, j(todo))
      BY <1>5 DEF VisitEnds
  <2> HIDE DEF j
  <2> QED BY <1>b, <2>1, <2>2 DEF Become
<1>6. ASSUME NEW c \in Claims, Place(w, c) PROVE Within
  <2> DEFINE j1 == [job[w] EXCEPT !.pc = "lock", !.method = "Set", !.claim = c, !.todo = @ \ {c}]
             j2 == [job[w] EXCEPT !.pc = "release", !.todo = {}]
  <2>1. /\ j1.pc = "lock" /\ j1.inside = job[w].inside /\ j1.node = job[w].node
        /\ j1.mutex = job[w].mutex
        /\ j2.pc = "release" /\ j2.inside = job[w].inside /\ j2.node = job[w].node
        /\ j2.mutex = job[w].mutex
      BY <1>0 DEF JobType
  <2>2. /\ job[w].pc = "place" /\ UNCHANGED mutexVars
        /\ Become(w, j1) \/ Become(w, j2)
      BY <1>6 DEF Place
  <2> HIDE DEF j1, j2
  <2> QED BY <1>b, <2>1, <2>2 DEF Become
<1>7. ASSUME PlaceEnds(w) \/ Update(w) PROVE Within
  <2> DEFINE j(m) == [job[w] EXCEPT !.pc = "lock", !.method = m]
  <2>1. \A m : /\ j(m).pc = "lock" /\ j(m).inside = job[w].inside
               /\ j(m).node = job[w].node /\ j(m).mutex = job[w].mutex
      BY <1>0 DEF JobType
  <2>2. /\ job[w].pc \in {"place", "update"} /\ UNCHANGED mutexVars
        /\ (\E m : Become(w, j(m))) \/ Goto(w, "release")
      BY <1>7 DEF PlaceEnds, Update, Write
  <2> HIDE DEF j
  <2> QED BY <1>b, <1>c, <2>1, <2>2 DEF Become
<1>8. CASE PrintMaps(w)
  <2> DEFINE j == AfterPrint(w)
  <2>1. /\ j.pc \in {"lock", "place", "release"} /\ j.inside = job[w].inside
        /\ j.node = job[w].node /\ j.mutex = job[w].mutex
      BY <1>0 DEF AfterPrint, JobType
  <2>2. job[w].pc = "print" /\ UNCHANGED mutexVars /\ Become(w, j)
      BY <1>8 DEF PrintMaps
  <2> HIDE DEF j
  <2> QED BY <1>b, <2>1, <2>2 DEF Become
<1> QED BY <1>1, <1>2, <1>3, <1>4, <1>5, <1>6, <1>7, <1>8

\* PerNodeMutex.Get, Lock and Unlock, and a new call.
LEMMA MutexSteps ==
    ASSUME MemoryInv, NEW w \in Workers,
           \/ Starts(w)
           \/ LockOuter(w) \/ CheckSubmutex(w) \/ CreateSubmutex(w) \/ UnlockOuter(w)
           \/ LockNode(w) \/ UnlockNode(w)
    PROVE  MutexInv'
<1>0. /\ job \in [Workers -> JobType] /\ job[w] \in JobType /\ HoldOK(w) /\ w # None
      /\ submutex \in [Nodes -> Workers \cup {None}]
      /\ holder \in [Nodes -> [Workers -> Workers \cup {None}]]
      /\ \A v \in Workers : HoldOK(v)
      /\ \A n \in Nodes, m \in Workers : holder[n][m] # None => submutex[n] = m
    BY MemoryNoneAssumption DEF MemoryInv, MemoryTypeOK, MutexInv
<1>b. ASSUME NEW j, job' = [job EXCEPT ![w] = j]
      PROVE  job'[w] = j /\ \A v \in Workers \ {w} : job'[v] = job[v]
    BY <1>0, <1>b
<1>1. ASSUME NEW op, NEW n \in Nodes, NEW c, Start(w, op, n, c) PROVE MutexInv'
  <2> DEFINE j == [Idle EXCEPT !.pc = "outer", !.op = op, !.node = n, !.claim = c]
  <2>1. j.pc = "outer" /\ j.node = n /\ j.inside = FALSE /\ Become(w, j) /\ UNCHANGED mutexVars
      BY <1>1 DEF Start, Idle
  <2> HIDE DEF j
  <2>2. job'[w] = j /\ \A v \in Workers \ {w} : job'[v] = job[v]
      BY <1>b, <2>1 DEF Become
  <2> QED BY <1>0, <2>1, <2>2 DEF MutexInv, HoldOK, mutexVars, Outside, Getting
<1>2. CASE LockOuter(w)
  <2>1. /\ job'[w].pc = "check" /\ job'[w].node = job[w].node /\ job'[w].inside = job[w].inside
        /\ job'[w].mutex = job[w].mutex /\ job[w].pc = "outer"
        /\ outer = None /\ outer' = w /\ UNCHANGED <<submutex, holder>>
      BY <1>0, <1>2 DEF LockOuter, Goto, JobType
  <2>2. \A v \in Workers \ {w} : job'[v] = job[v] /\ job[v].pc \notin {"check", "create", "got"}
      BY <1>0, <1>2, <2>1, MemoryNoneAssumption DEF LockOuter, Goto, HoldOK
  <2> QED BY <1>0, <2>1, <2>2 DEF MutexInv, HoldOK, Outside, Getting
<1>3. CASE CheckSubmutex(w) /\ submutex[job[w].node] = None
  <2>1. /\ job'[w].pc = "create" /\ job'[w].node = job[w].node /\ job'[w].inside = job[w].inside
        /\ job'[w].mutex = job[w].mutex /\ job[w].pc = "check" /\ UNCHANGED mutexVars
        /\ \A v \in Workers \ {w} : job'[v] = job[v]
      BY <1>0, <1>3 DEF CheckSubmutex, Become, JobType
  <2> QED BY <1>0, <1>3, <2>1 DEF MutexInv, HoldOK, mutexVars, Outside, Getting
<1>4. CASE CheckSubmutex(w) /\ submutex[job[w].node] # None
  <2>1. /\ job'[w].pc = "got" /\ job'[w].node = job[w].node /\ job'[w].inside = job[w].inside
        /\ job'[w].mutex = submutex[job[w].node] /\ job[w].pc = "check" /\ UNCHANGED mutexVars
        /\ \A v \in Workers \ {w} : job'[v] = job[v]
      BY <1>0, <1>4 DEF CheckSubmutex, Become, JobType
  <2>2. job[w].node \in Nodes /\ submutex[job[w].node] \in Workers
      BY <1>0, <1>4, <2>1 DEF HoldOK
  <2> QED BY <1>0, <2>1, <2>2 DEF MutexInv, HoldOK, mutexVars, Outside, Getting
<1>5. CASE CreateSubmutex(w)
  <2>1. /\ job'[w].pc = "got" /\ job'[w].node = job[w].node /\ job'[w].inside = job[w].inside
        /\ job'[w].mutex = w /\ job[w].pc = "create" /\ UNCHANGED <<outer, holder>>
        /\ \A v \in Workers \ {w} : job'[v] = job[v]
        /\ submutex' = [submutex EXCEPT ![job[w].node] = w]
      BY <1>0, <1>5 DEF CreateSubmutex, Become, JobType
  <2>2. /\ job[w].node \in Nodes /\ submutex[job[w].node] = None /\ outer = w /\ ~job[w].inside
        /\ \A m \in Workers : holder[job[w].node][m] = None
      BY <1>0, <2>1, MemoryNoneAssumption DEF HoldOK
  <2>3. /\ submutex'[job[w].node] = w
        /\ \A n \in Nodes : n # job[w].node => submutex'[n] = submutex[n]
      BY <1>0, <2>1, <2>2
  <2>4. ASSUME NEW v \in Workers \ {w} PROVE HoldOK(v)'
    <3>1. HoldOK(v) /\ job'[v] = job[v] /\ (job[v].pc = "create" => v = outer)
        BY <1>0, <2>1 DEF HoldOK
    <3> QED BY <2>1, <2>2, <2>3, <3>1, MemoryNoneAssumption DEF HoldOK
  <2>5. HoldOK(w)'
      BY <2>1, <2>2, <2>3 DEF HoldOK, Outside, Getting
  <2> QED BY <1>0, <2>1, <2>2, <2>3, <2>4, <2>5 DEF MutexInv
<1>6. CASE UnlockOuter(w)
  <2> DEFINE to == IF job[w].inside THEN FirstPC(job[w].op) ELSE "acquire"
  <2>0. FirstPC(job[w].op) \in {"visitRLock", "existsRLock", "print"}
      BY DEF FirstPC
  <2>1. /\ to = "acquire" \/ (job[w].inside /\ to \notin Outside \cup Getting)
        /\ to = "acquire" => ~job[w].inside
        /\ to \notin {"idle", "check", "create", "got"}
      BY <2>0 DEF Outside, Getting
  <2>2. /\ Goto(w, to) /\ job[w].pc = "got" /\ outer' = None /\ UNCHANGED <<submutex, holder>>
      BY <1>6 DEF UnlockOuter
  <2> HIDE DEF to
  <2>3. /\ job'[w].pc = to /\ job'[w].node = job[w].node /\ job'[w].inside = job[w].inside
        /\ job'[w].mutex = job[w].mutex
        /\ \A v \in Workers \ {w} : job'[v] = job[v]
      BY <1>0, <2>2 DEF Goto, JobType
  <2>4. ASSUME NEW v \in Workers \ {w} PROVE job[v].pc \notin {"check", "create", "got"}
      BY <1>0, <2>2, <2>4 DEF HoldOK
  <2> QED BY <1>0, <2>1, <2>2, <2>3, <2>4 DEF MutexInv, HoldOK, Outside, Getting
<1>7. CASE LockNode(w)
  <2> DEFINE n == job[w].node
             m == job[w].mutex
  <2>1. /\ job'[w].pc = "outer" /\ job'[w].node = n /\ job'[w].inside = TRUE
        /\ job'[w].mutex = m /\ job[w].pc = "acquire" /\ UNCHANGED <<outer, submutex>>
        /\ \A v \in Workers \ {w} : job'[v] = job[v]
        /\ holder[n][m] = None
        /\ holder' = [holder EXCEPT ![n] = [holder[n] EXCEPT ![m] = w]]
      BY <1>0, <1>7 DEF LockNode, Become, JobType
  <2>2. n \in Nodes /\ m \in Workers /\ submutex[n] = m
      BY <1>0, <2>1 DEF HoldOK
  <2> HIDE DEF n, m
  <2>3. /\ holder'[n][m] = w
        /\ \A k \in Nodes, u \in Workers : k # n \/ u # m => holder'[k][u] = holder[k][u]
      BY <1>0, <2>1, <2>2
  <2>4. ASSUME NEW v \in Workers \ {w} PROVE HoldOK(v)'
    <3>1. HoldOK(v) /\ job'[v] = job[v] /\ v # None
        BY <1>0, <2>1, MemoryNoneAssumption
    <3>2. job[v].inside => holder'[job[v].node][job[v].mutex] = v
        BY <2>1, <2>2, <2>3, <3>1 DEF HoldOK, Outside
    <3> QED BY <2>1, <3>1, <3>2 DEF HoldOK
  <2>5. HoldOK(w)'
      BY <2>1, <2>2, <2>3 DEF HoldOK, Outside, Getting
  <2> QED BY <1>0, <2>1, <2>2, <2>3, <2>4, <2>5 DEF MutexInv
<1>8. CASE UnlockNode(w)
  <2> DEFINE n == job[w].node
             m == job[w].mutex
  <2>1. /\ job'[w] = Idle /\ job[w].pc = "release" /\ UNCHANGED <<outer, submutex>>
        /\ \A v \in Workers \ {w} : job'[v] = job[v]
        /\ holder' = [holder EXCEPT ![n] = [holder[n] EXCEPT ![m] = None]]
      BY <1>0, <1>8 DEF UnlockNode, Become
  <2>2. n \in Nodes /\ m \in Workers /\ submutex[n] = m /\ holder[n][m] = w
      BY <1>0, <2>1 DEF HoldOK, Outside, Getting
  <2> HIDE DEF n, m
  <2>3. /\ holder'[n][m] = None
        /\ \A k \in Nodes, u \in Workers : k # n \/ u # m => holder'[k][u] = holder[k][u]
      BY <1>0, <2>1, <2>2
  <2>4. ASSUME NEW v \in Workers \ {w} PROVE HoldOK(v)'
    <3>1. HoldOK(v) /\ job'[v] = job[v]
        BY <1>0, <2>1
    <3>2. job[v].inside => holder'[job[v].node][job[v].mutex] = v
        BY <2>1, <2>2, <2>3, <3>1 DEF HoldOK, Outside
    <3> QED BY <2>1, <3>1, <3>2 DEF HoldOK
  <2>5. HoldOK(w)'
    <3>1. Idle.pc = "idle" /\ Idle.inside = FALSE
        BY DEF Idle
    <3> QED BY <2>1, <3>1 DEF HoldOK, Outside, Getting
  <2> QED BY <1>0, <2>1, <2>2, <2>3, <2>4, <2>5 DEF MutexInv
<1> QED BY <1>1, <1>2, <1>3, <1>4, <1>5, <1>6, <1>7, <1>8 DEF Starts

----------------------------------------------------------------------------
LEMMA NextMemory == MemoryInv /\ [Next]_vars => MemoryInv'
<1> SUFFICES ASSUME MemoryInv, [Next]_vars PROVE MemoryInv'
    OBVIOUS
<1>1. ASSUME NEW w \in Workers, Starts(w) \/ Steps(w), ~FatalPrint(w) PROVE MemoryInv'
  <2>1. MemoryTypeOK'
      BY <1>1, MutexTypes, WriterTypes, MethodTypes DEF Steps
  <2>2. RWInv'
      BY <1>1, UnlockedSteps, UnlockedRW, RUnlockSteps, LockSteps, EndWriteRW DEF Steps
  <2>3. MutexInv'
      BY <1>1, WithinSteps, WithinMutex, MutexSteps DEF Steps
  <2> QED BY <2>1, <2>2, <2>3 DEF MemoryInv
<1>2. CASE UNCHANGED vars
  <2>1. MemoryTypeOK'
      BY <1>2 DEF MemoryInv, MemoryTypeOK, vars, mutexVars, rwVars, mapVars
  <2>2. RWInv'
      BY <1>2 DEF MemoryInv, RWInv, LockOK, vars, rwVars
  <2>3. MutexInv'
      BY <1>2 DEF MemoryInv, MutexInv, HoldOK, vars, mutexVars
  <2> QED BY <2>1, <2>2, <2>3 DEF MemoryInv
<1> QED BY <1>1, <1>2, FatalMemory DEF Next

\* What is known of the locks at each place of a worker, in every reachable state.
THEOREM MemoryInvariant == Spec => []MemoryInv
<1> QED BY InitMemory, NextMemory, PTL DEF Spec

\* Every variable keeps its type: no worker gives up a read lock it does not hold,
\* or holds more than the two of Get.
THEOREM MemoryTypeCorrect == Spec => []MemoryTypeOK
<1>1. MemoryInv => MemoryTypeOK
    BY DEF MemoryInv
<1> QED BY <1>1, MemoryInvariant, PTL

\* NodeExclusive: at most one worker is between the Lock and the Unlock of a node's
\* mutex, although the mutex is made by whoever comes first, and looked up again
\* for the Unlock.
THEOREM SectionsExclusive == Spec => []NodeExclusive
<1>1. MemoryInv => NodeExclusive
    BY DEF MemoryInv, MutexInv, HoldOK, NodeExclusive, Outside
<1> QED BY <1>1, MemoryInvariant, PTL

\* ReadsUndisturbed: no map is written while a worker reads it under the read lock,
\* the entries of the queue of readers let in by Unlock included.
THEOREM ReadersUndisturbed == Spec => []ReadsUndisturbed
<1>1. MemoryInv => ReadsUndisturbed
    BY NoneWrites DEF MemoryInv, ReadsUndisturbed
<1> QED BY <1>1, MemoryInvariant, PTL

----------------------------------------------------------------------------
(***************************************************************************)
(* The refinement of NodeMutex.                                            *)
(***************************************************************************)

\* The abstract mutex of node n, and those of all nodes.
HolderOf(n) == IF submutex[n] = None THEN None ELSE holder[n][submutex[n]]
Held == [n \in Nodes |-> HolderOf(n)]

\* A step is one of the abstract mutex, or leaves it as it is.
LEMMA MutexRefined ==
    ASSUME MemoryInv, NEW w \in Workers, Starts(w) \/ Steps(w)
    PROVE  Mutex!MutexNext \/ UNCHANGED Held
<1>0. /\ job \in [Workers -> JobType] /\ job[w] \in JobType /\ HoldOK(w) /\ w # None
      /\ submutex \in [Nodes -> Workers \cup {None}]
      /\ holder \in [Nodes -> [Workers -> Workers \cup {None}]]
      /\ \A n \in Nodes, m \in Workers : holder[n][m] # None => submutex[n] = m
    BY MemoryNoneAssumption DEF MemoryInv, MemoryTypeOK, MutexInv
<1>1. SUFFICES \/ \E n \in Nodes : \/ Held[n] = None /\ Held' = [Held EXCEPT ![n] = w]
                                   \/ Held[n] = w /\ Held' = [Held EXCEPT ![n] = None]
               \/ Held' = [n \in Nodes |-> None]
               \/ Held' = Held
    BY DEF Mutex!MutexNext, Mutex!Acquire, Mutex!Release, Held, HolderOf
<1>2. ASSUME UNCHANGED <<submutex, holder>> PROVE Held' = Held
    BY <1>2 DEF Held, HolderOf
<1>3. CASE CreateSubmutex(w)
  <2> DEFINE n == job[w].node
  <2>1. /\ n \in Nodes /\ submutex[n] = None /\ submutex' = [submutex EXCEPT ![n] = w]
        /\ holder' = holder
      BY <1>0, <1>3 DEF CreateSubmutex, HoldOK
  <2>2. holder[n][w] = None
      BY <1>0, <2>1, MemoryNoneAssumption
  <2> HIDE DEF n
  <2>3. \A k \in Nodes : HolderOf(k)' = HolderOf(k)
      BY <1>0, <2>1, <2>2 DEF HolderOf
  <2> QED BY <2>3 DEF Held
<1>4. CASE LockNode(w)
  <2>1. PICK n \in Nodes, m \in Workers :
           /\ submutex[n] = m /\ holder[n][m] = None /\ m # None
           /\ holder' = [holder EXCEPT ![n] = [holder[n] EXCEPT ![m] = w]] /\ submutex' = submutex
      BY <1>0, <1>4, MemoryNoneAssumption DEF LockNode, HoldOK
  <2>2. /\ holder'[n][m] = w /\ \A k \in Nodes : k # n => holder'[k] = holder[k]
      BY <1>0, <2>1
  <2>3. /\ HolderOf(n) = None /\ HolderOf(n)' = w
        /\ \A k \in Nodes : k # n => HolderOf(k)' = HolderOf(k)
      BY <2>1, <2>2 DEF HolderOf
  <2>4. Held[n] = None /\ Held' = [Held EXCEPT ![n] = w]
      BY <2>3 DEF Held
  <2> QED BY <2>4
<1>5. CASE UnlockNode(w)
  <2>1. PICK n \in Nodes, m \in Workers :
           /\ submutex[n] = m /\ holder[n][m] = w /\ m # None
           /\ holder' = [holder EXCEPT ![n] = [holder[n] EXCEPT ![m] = None]]
           /\ submutex' = submutex
      BY <1>0, <1>5, MemoryNoneAssumption DEF UnlockNode, HoldOK, Outside, Getting
  <2>2. /\ holder'[n][m] = None /\ \A k \in Nodes : k # n => holder'[k] = holder[k]
      BY <1>0, <2>1
  <2>3. /\ HolderOf(n) = w /\ HolderOf(n)' = None
        /\ \A k \in Nodes : k # n => HolderOf(k)' = HolderOf(k)
      BY <2>1, <2>2 DEF HolderOf
  <2>4. Held[n] = w /\ Held' = [Held EXCEPT ![n] = None]
      BY <2>3 DEF Held
  <2> QED BY <2>4
<1>6. CASE FatalPrint(w)
    BY <1>6 DEF FatalPrint, Held, HolderOf
<1>7. CASE Starts(w) \/ LockOuter(w) \/ CheckSubmutex(w) \/ UnlockOuter(w)
    BY <1>2, <1>7 DEF Starts, Start, LockOuter, CheckSubmutex, UnlockOuter, mutexVars
<1>8. CASE Within
    BY <1>2, <1>8 DEF Within, mutexVars
<1> QED BY <1>3, <1>4, <1>5, <1>6, <1>7, <1>8, WithinSteps DEF Steps

\* ImplementsMutex: the mutexes that PerNodeMutex makes and hands out behave as one
\* variable per node, which module Controller takes for them: Get and the creation
\* of a mutex are invisible, Lock and Unlock are Acquire and Release.
THEOREM MutexImplemented == Spec => ImplementsMutex
<1>1. Init => Mutex!MutexInit
    BY DEF Init, Mutex!MutexInit
<1>2. MemoryInv /\ [Next]_vars => Mutex!MutexNext \/ UNCHANGED Held
  <2> SUFFICES ASSUME MemoryInv, [Next]_vars PROVE Mutex!MutexNext \/ UNCHANGED Held
      OBVIOUS
  <2>1. CASE UNCHANGED vars
      BY <2>1 DEF vars, mutexVars, Held, HolderOf
  <2> QED BY <2>1, MutexRefined DEF Next
<1>3. MemoryInv /\ [Next]_vars => [Mutex!MutexNext]_Held
    BY <1>2
<1> QED BY <1>1, <1>3, MemoryInvariant, PTL
        DEF Spec, ImplementsMutex, Mutex!MutexSpec, Held, HolderOf
=============================================================================
