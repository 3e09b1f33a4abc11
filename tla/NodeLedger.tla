----------------------------- MODULE NodeLedger -----------------------------
(***************************************************************************)
(* What the controller promises of the NodeAllocationState objects: each   *)
(* is a ledger that claims enter and leave one at a time.  There are no    *)
(* workers here, no copies, no retries and no reservations in memory: a    *)
(* step reads and writes one ledger at once.                               *)
(***************************************************************************)
EXTENDS NodeAllocationState, CpuPartitioning

CONSTANT Nodes

VARIABLE book   \* the spec of each node's NodeAllocationState

LedgerInit == book = [n \in Nodes |-> EmptySpec]

\* Claim c enters with the CPUs S: as many as it asked for, each with room for
\* it next to all that is recorded there.  (It may also enter with none, when
\* its reservation was dropped between Exists and Get of rtdriver.Allocate.)
Enter(n, c, S) ==
    /\ c \notin book[n].claims
    /\ S = {} \/ Cardinality(S) = Request[c].count
    /\ \A x \in S : book[n].util[x] + Util(c) < Threshold
    /\ book' = [book EXCEPT ![n] = AddClaim(@, c, S)]

\* Claim c leaves with what it was recorded for.
Leave(n, c) ==
    /\ c \in book[n].claims
    /\ book' = [book EXCEPT ![n] = RemoveClaim(@, c)]

LedgerNext ==
    \E n \in Nodes, c \in Claims :
       \/ \E S \in SUBSET Cpus : Enter(n, c, S)
       \/ Leave(n, c)

LedgerSpec == LedgerInit /\ [][LedgerNext]_book
=============================================================================
