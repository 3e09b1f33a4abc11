---------------------------- MODULE SharedMemory ----------------------------
(***************************************************************************)
(* What the workers of the controller share in memory, at the grain of     *)
(* single lock operations:                                                 *)
(*   - PerNodeMutex, a map of mutexes made on demand (mutex.go),           *)
(*   - PerNodeAllocatedClaims, two maps under a sync.RWMutex               *)
(*     (allocations.go), and the prints that read them without it (rt.go). *)
(* Module Controller takes a node's mutex to be one variable and each      *)
(* method of PerNodeAllocatedClaims to be one step; this module shows what *)
(* the former rests on and where the latter ends.                          *)
(***************************************************************************)
EXTENDS Integers, FiniteSets

CONSTANTS Workers, Nodes, Claims, None

ASSUME MemoryNoneAssumption == None \notin Workers /\ None \notin Nodes /\ None \notin Claims

VARIABLES
    outer,          \* PerNodeMutex.Mutex: the worker that holds it
    submutex,       \* PerNodeMutex.submutex: the worker that made the node's mutex
    holder,         \* who holds the mutex that a worker made for a node
    readers,        \* the RWMutex: how often each worker holds it for reading
    queue,          \* the workers that wait in RLock
    writer,         \* the worker that is in Lock, or past it
    allocations,    \* PendingAllocatedClaims.allocations: each claim's nodes
    utilisation,    \* the keys of PendingAllocatedClaims.utilisation
    job             \* what each worker is doing

mutexVars == <<outer, submutex, holder>>
rwVars == <<readers, queue, writer>>
mapVars == <<allocations, utilisation>>
vars == <<mutexVars, rwVars, mapVars, job>>

----------------------------------------------------------------------------
Ops == {"none", "unsuitable", "allocate", "deallocate"}
Methods == {"none", "Set", "SetUtil", "Remove", "RemoveUtil", "RemoveUtilOtherNodes"}

MutexPCs == {"outer", "check", "create", "got", "acquire", "release"}
ReadPCs == {"visit", "exists", "nested", "get"}
RLockPCs == {"visitRLock", "existsRLock", "getRLock", "nestedRLock"}
WritePCs == {"lock", "wait", "write", "written"}
PCs == {"idle", "place", "update", "print"} \cup MutexPCs \cup ReadPCs \cup RLockPCs \cup WritePCs

Idle ==
    [pc |-> "idle", op |-> "none", node |-> None,
     mutex |-> None,        \* the result of PerNodeMutex.Get
     inside |-> FALSE,      \* whether the node's mutex is held
     claim |-> None, visited |-> {}, todo |-> {},
     method |-> "none",     \* the method that writes
     print |-> "none"]      \* the method before a print of what it wrote

JobType ==
    [pc : PCs, op : Ops, node : Nodes \cup {None}, mutex : Workers \cup {None},
     inside : BOOLEAN, claim : Claims \cup {None}, visited : SUBSET Claims,
     todo : SUBSET Claims, method : Methods, print : Methods]

MemoryTypeOK ==
    /\ outer \in Workers \cup {None}
    /\ submutex \in [Nodes -> Workers \cup {None}]
    /\ holder \in [Nodes -> [Workers -> Workers \cup {None}]]
    /\ readers \in [Workers -> 0 .. 2]
    /\ queue \in SUBSET Workers
    /\ writer \in Workers \cup {None}
    /\ allocations \in [Claims -> SUBSET Nodes]
    /\ utilisation \in SUBSET Nodes
    /\ job \in [Workers -> JobType]

Init ==
    /\ outer = None
    /\ submutex = [n \in Nodes |-> None]
    /\ holder = [n \in Nodes |-> [w \in Workers |-> None]]
    /\ readers = [w \in Workers |-> 0]
    /\ queue = {}
    /\ writer = None
    /\ allocations = [c \in Claims |-> {}]
    /\ utilisation = {}
    /\ job = [w \in Workers |-> Idle]

Become(w, j) == job' = [job EXCEPT ![w] = j]
Goto(w, pc) == job' = [job EXCEPT ![w] = [job[w] EXCEPT !.pc = pc]]

----------------------------------------------------------------------------
(***************************************************************************)
(* PerNodeMutex.Get, twice per job: for Lock, and again, at once, for the  *)
(* Unlock that the defer statement prepares.                               *)
(***************************************************************************)

\* The framework calls the driver: on a node, for some claims.
Start(w, op, n, c) ==
    /\ job[w].pc = "idle"
    /\ Become(w, [Idle EXCEPT !.pc = "outer", !.op = op, !.node = n, !.claim = c])
    /\ UNCHANGED <<mutexVars, rwVars, mapVars>>

\* Mutant of LockOuter: Get without the mutex around the map.
LockOuterNot(w) ==
    /\ job[w].pc = "outer"
    /\ Goto(w, "check")
    /\ UNCHANGED <<mutexVars, rwVars, mapVars>>

LockOuter(w) ==
    /\ job[w].pc = "outer" /\ outer = None
    /\ outer' = w
    /\ Goto(w, "check")
    /\ UNCHANGED <<submutex, holder, rwVars, mapVars>>

\* Mutant of CheckSubmutex: a new mutex for every caller.
CheckSubmutexNot(w) ==
    /\ job[w].pc = "check"
    /\ Goto(w, "create")
    /\ UNCHANGED <<mutexVars, rwVars, mapVars>>

CheckSubmutex(w) ==
    LET n == job[w].node IN
    /\ job[w].pc = "check"
    /\ Become(w, IF submutex[n] = None THEN [job[w] EXCEPT !.pc = "create"]
                 ELSE [job[w] EXCEPT !.pc = "got", !.mutex = submutex[n]])
    /\ UNCHANGED <<mutexVars, rwVars, mapVars>>

CreateSubmutex(w) ==
    /\ job[w].pc = "create"
    /\ submutex' = [submutex EXCEPT ![job[w].node] = w]
    /\ Become(w, [job[w] EXCEPT !.pc = "got", !.mutex = w])
    /\ UNCHANGED <<outer, holder, rwVars, mapVars>>

\* The method bodies of the driver start once the second Get has returned.
FirstPC(op) ==
    CASE op = "unsuitable" -> "visitRLock"
      [] op = "allocate" -> "existsRLock"
      [] OTHER -> "print"

UnlockOuter(w) ==
    /\ job[w].pc = "got"
    /\ outer' = None
    /\ Goto(w, IF job[w].inside THEN FirstPC(job[w].op) ELSE "acquire")
    /\ UNCHANGED <<submutex, holder, rwVars, mapVars>>

LockNode(w) ==
    LET n == job[w].node
        m == job[w].mutex
    IN
    /\ job[w].pc = "acquire" /\ holder[n][m] = None
    /\ holder' = [holder EXCEPT ![n] = [holder[n] EXCEPT ![m] = w]]
    /\ Become(w, [job[w] EXCEPT !.pc = "outer", !.inside = TRUE])
    /\ UNCHANGED <<outer, submutex, rwVars, mapVars>>

UnlockNode(w) ==
    LET n == job[w].node IN
    /\ job[w].pc = "release"
    /\ holder' = [holder EXCEPT ![n] = [holder[n] EXCEPT ![job[w].mutex] = None]]
    /\ Become(w, Idle)
    /\ UNCHANGED <<outer, submutex, rwVars, mapVars>>

----------------------------------------------------------------------------
(***************************************************************************)
(* sync.RWMutex: a writer that has called Lock keeps new readers out while *)
(* it waits for the old ones; its Unlock lets in every reader that waits.  *)
(***************************************************************************)
AfterRLock(pc) ==
    CASE pc = "visitRLock" -> "visit"
      [] pc = "existsRLock" -> "exists"
      [] pc = "getRLock" -> "nestedRLock"
      [] pc = "nestedRLock" -> "get"
      [] OTHER -> pc

RLock(w) ==
    /\ job[w].pc \in RLockPCs /\ w \notin queue
    /\ \/ /\ writer = None
          /\ readers' = [readers EXCEPT ![w] = @ + 1]
          /\ Goto(w, AfterRLock(job[w].pc))
          /\ UNCHANGED queue
       \/ /\ writer # None
          /\ queue' = queue \cup {w}
          /\ UNCHANGED <<readers, job>>
    /\ UNCHANGED <<mutexVars, writer, mapVars>>

\* Worker w calls a method that writes.
Write(w, method) ==
    Become(w, [job[w] EXCEPT !.pc = "lock", !.method = method])

Lock(w) ==
    /\ job[w].pc = "lock" /\ writer = None
    /\ writer' = w
    /\ Goto(w, "wait")
    /\ UNCHANGED <<mutexVars, readers, queue, mapVars>>

LockGranted(w) ==
    /\ job[w].pc = "wait" /\ \A r \in Workers : readers[r] = 0
    /\ Goto(w, "write")
    /\ UNCHANGED <<mutexVars, rwVars, mapVars>>

\* The place a job goes on at after a method that wrote.
AfterWrite(j) ==
    CASE j.method \in {"Set", "SetUtil"} -> "print"
      [] j.method \in {"RemoveUtil", "RemoveUtilOtherNodes"} -> "lock"
      [] j.op = "unsuitable" -> "visitRLock"
      [] j.op = "deallocate" -> "print"
      [] OTHER -> "release"

Written(j) ==
    [j EXCEPT !.pc = AfterWrite(j),
              !.print = IF AfterWrite(j) = "print" THEN j.method ELSE "none",
              !.method = IF AfterWrite(j) = "lock" THEN "Remove" ELSE "none"]

\* Go marks a map as being written while it is.
BeginWrite(w) ==
    /\ job[w].pc = "write"
    /\ Goto(w, "written")
    /\ UNCHANGED <<mutexVars, rwVars, mapVars>>

\* The write, then Unlock.
EndWrite(w) ==
    LET j == job[w] IN
    /\ j.pc = "written"
    /\ allocations' = CASE j.method = "Set" -> [allocations EXCEPT ![j.claim] = @ \cup {j.node}]
                        [] j.method = "Remove" -> [allocations EXCEPT ![j.claim] = {}]
                        [] OTHER -> allocations
    /\ utilisation' = IF j.method = "SetUtil" THEN utilisation \cup {j.node} ELSE utilisation
    /\ writer' = None
    /\ readers' = [r \in Workers |-> IF r \in queue THEN readers[r] + 1 ELSE readers[r]]
    /\ queue' = {}
    /\ job' = [r \in Workers |->
                 CASE r = w -> Written(j)
                   [] r \in queue /\ r # w -> [job[r] EXCEPT !.pc = AfterRLock(job[r].pc)]
                   [] OTHER -> job[r]]
    /\ UNCHANGED mutexVars

----------------------------------------------------------------------------
(***************************************************************************)
(* UnsuitableNode: VisitNode, Set for each claim placed, SetUtil.          *)
(***************************************************************************)
RUnlock(w) == readers' = [readers EXCEPT ![w] = @ - 1]

\* Mutant of VisitClaim: RUnlock is deferred, as in the line commented out.
VisitClaimLocked(w, c) ==
    /\ job[w].pc = "visit"
    /\ c \notin job[w].visited /\ job[w].node \in allocations[c]
    /\ LET j == [job[w] EXCEPT !.visited = @ \cup {c}]
       IN  \/ Become(w, j)
           \/ Become(w, [j EXCEPT !.pc = "lock", !.method = "Remove", !.claim = c])
    /\ UNCHANGED <<mutexVars, rwVars, mapVars>>

\* The iteration comes to an entry of the node: the visitor is called without
\* the lock, and removes the claim if the NAS has it.
VisitClaim(w, c) ==
    /\ job[w].pc = "visit"
    /\ c \notin job[w].visited /\ job[w].node \in allocations[c]
    /\ RUnlock(w)
    /\ LET j == [job[w] EXCEPT !.visited = @ \cup {c}]
       IN  \/ Become(w, [j EXCEPT !.pc = "visitRLock"])
           \/ Become(w, [j EXCEPT !.pc = "lock", !.method = "Remove", !.claim = c])
    /\ UNCHANGED <<mutexVars, queue, writer, mapVars>>

VisitEnds(w) ==
    /\ job[w].pc = "visit"
    /\ \A c \in Claims \ job[w].visited : job[w].node \notin allocations[c]
    /\ RUnlock(w)
    /\ \E todo \in SUBSET Claims :
          Become(w, [job[w] EXCEPT !.pc = "place", !.todo = todo, !.visited = {},
                                   !.claim = None])
    /\ UNCHANGED <<mutexVars, queue, writer, mapVars>>

\* Mutant of Place: Set writes without the lock.
PlaceUnlocked(w, c) ==
    /\ job[w].pc = "place" /\ c \in job[w].todo
    /\ \/ Become(w, [job[w] EXCEPT !.pc = "write", !.method = "Set", !.claim = c,
                                   !.todo = @ \ {c}])
       \/ Become(w, [job[w] EXCEPT !.pc = "release", !.todo = {}])
    /\ UNCHANGED <<mutexVars, rwVars, mapVars>>

\* CPUs have been found for the next claim, or not.
Place(w, c) ==
    /\ job[w].pc = "place" /\ c \in job[w].todo
    /\ \/ Become(w, [job[w] EXCEPT !.pc = "lock", !.method = "Set", !.claim = c,
                                   !.todo = @ \ {c}])
       \/ Become(w, [job[w] EXCEPT !.pc = "release", !.todo = {}])
    /\ UNCHANGED <<mutexVars, rwVars, mapVars>>

PlaceEnds(w) ==
    /\ job[w].pc = "place" /\ job[w].todo = {}
    /\ Write(w, "SetUtil")
    /\ UNCHANGED <<mutexVars, rwVars, mapVars>>

----------------------------------------------------------------------------
(***************************************************************************)
(* Allocate: Exists, Get (which calls Exists), the update of the NAS, and  *)
(* onSuccess.                                                              *)
(***************************************************************************)
\* Mutant of Exists: the early return is before the deferred RUnlock.
ExistsKeepsLock(w) ==
    /\ job[w].pc = "exists"
    /\ IF job[w].node \in allocations[job[w].claim] THEN RUnlock(w) ELSE UNCHANGED readers
    /\ Goto(w, IF job[w].node \in allocations[job[w].claim] THEN "getRLock" ELSE "release")
    /\ UNCHANGED <<mutexVars, queue, writer, mapVars>>

Exists(w) ==
    /\ job[w].pc = "exists"
    /\ RUnlock(w)
    /\ Goto(w, IF job[w].node \in allocations[job[w].claim] THEN "getRLock" ELSE "release")
    /\ UNCHANGED <<mutexVars, queue, writer, mapVars>>

\* The two RUnlocks of Exists and Get.
Get(w) ==
    /\ job[w].pc \in {"get", "nested"}
    /\ RUnlock(w)
    /\ Goto(w, IF job[w].pc = "get" THEN "nested" ELSE "update")
    /\ UNCHANGED <<mutexVars, queue, writer, mapVars>>

Update(w) ==
    /\ job[w].pc = "update"
    /\ Write(w, "RemoveUtilOtherNodes") \/ Goto(w, "release")
    /\ UNCHANGED <<mutexVars, rwVars, mapVars>>

----------------------------------------------------------------------------
(***************************************************************************)
(* fmt.Println of the maps, without a lock: by UnsuitableNode after Set    *)
(* and SetUtil, by Deallocate before RemoveUtil and after Remove.          *)
(***************************************************************************)

\* The maps a method writes; RemoveUtil finds nothing to do on most nodes.
Writes(j) ==
    CASE j.method \in {"Set", "Remove"} -> {"allocations"}
      [] j.method = "SetUtil" -> {"utilisation"}
      [] OTHER -> IF (allocations[j.claim] \cap utilisation)
                        \ (IF j.method = "RemoveUtil" THEN {} ELSE {j.node}) = {}
                    THEN {} ELSE {"utilisation"}

Printed(j) ==
    CASE j.op = "deallocate" -> {"allocations", "utilisation"}
      [] j.print = "Set" -> {"allocations"}
      [] OTHER -> {"utilisation"}

\* Go finds a map being written while it iterates over it.
Collides(w) ==
    \E v \in Workers : job[v].pc = "written" /\ Writes(job[v]) \cap Printed(job[w]) # {}

AfterPrint(w) ==
    LET j == [job[w] EXCEPT !.print = "none"] IN
    CASE j.op = "deallocate" /\ job[w].print = "none" ->
             [j EXCEPT !.pc = "lock", !.method = "RemoveUtil"]
      [] job[w].print = "Set" -> [j EXCEPT !.pc = "place", !.claim = None]
      [] OTHER -> [j EXCEPT !.pc = "release"]

PrintMaps(w) ==
    /\ job[w].pc = "print" /\ ~Collides(w)
    /\ Become(w, AfterPrint(w))
    /\ UNCHANGED <<mutexVars, rwVars, mapVars>>

\* "concurrent map iteration and map write" ends the process: a new one starts.
FatalPrint(w) ==
    /\ job[w].pc = "print" /\ Collides(w)
    /\ outer' = None
    /\ submutex' = [n \in Nodes |-> None]
    /\ holder' = [n \in Nodes |-> [v \in Workers |-> None]]
    /\ readers' = [v \in Workers |-> 0]
    /\ queue' = {}
    /\ writer' = None
    /\ allocations' = [c \in Claims |-> {}]
    /\ utilisation' = {}
    /\ job' = [v \in Workers |-> Idle]

----------------------------------------------------------------------------
Starts(w) ==
    \E n \in Nodes, c \in Claims :
       \/ Start(w, "unsuitable", n, None)
       \/ \E op \in {"allocate", "deallocate"} : Start(w, op, n, c)

Steps(w) ==
    \/ LockOuter(w) \/ CheckSubmutex(w) \/ CreateSubmutex(w) \/ UnlockOuter(w)
    \/ LockNode(w) \/ UnlockNode(w)
    \/ RLock(w) \/ Lock(w) \/ LockGranted(w) \/ BeginWrite(w) \/ EndWrite(w)
    \/ \E c \in Claims : VisitClaim(w, c) \/ Place(w, c)
    \/ VisitEnds(w) \/ PlaceEnds(w)
    \/ Exists(w) \/ Get(w) \/ Update(w) \/ PrintMaps(w) \/ FatalPrint(w)

Next == \E w \in Workers : Starts(w) \/ Steps(w)

Spec == Init /\ [][Next]_vars

\* Go runs every goroutine, and its mutexes pass to a waiter that starves.
FairSpec == Spec /\ \A w \in Workers : SF_vars(Steps(w))

----------------------------------------------------------------------------
(***************************************************************************)
(* Properties.                                                             *)
(***************************************************************************)

\* Two workers are never inside the sections of the same node, although its
\* mutex is made on demand and looked up again for its Unlock.
NodeExclusive ==
    \A v, w \in Workers :
       job[v].inside /\ job[w].inside /\ job[v].node = job[w].node => v = w

\* The mutexes of PerNodeMutex are to the workers what Controller!lock is.
Mutex == INSTANCE NodeMutex WITH
            lock <- [n \in Nodes |-> IF submutex[n] = None THEN None
                                     ELSE holder[n][submutex[n]]]

ImplementsMutex == Mutex!MutexSpec

\* Whoever reads a map under the lock never meets a write under way: only the
\* prints can end the process.
ReadsUndisturbed ==
    \A r, w \in Workers : readers[r] > 0 => job[w].pc \notin {"write", "written"}

\* Get waits for the lock it holds already, behind a writer that waits for Get.
Nested == \E r \in queue : readers[r] > 0

\* Every call of the driver returns, unless the read lock within a read lock in
\* Get has met a writer.
CallsReturn ==
    (\A w \in Workers : job[w].pc # "idle" ~> job[w].pc = "idle") \/ <>Nested
=============================================================================
