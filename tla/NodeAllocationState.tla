------------------------ MODULE NodeAllocationState ------------------------
(***************************************************************************)
(* The data of the NodeAllocationState custom resource (one object per     *)
(* node) and the operations its clients apply to a copy of its spec        *)
(* (api/example.com/resource/rt/nas/v1alpha1/nas.go).                      *)
(***************************************************************************)
EXTENDS Integers, FiniteSets

CONSTANTS
    Claims,     \* ResourceClaims, by UID
    Cpus,       \* the node's allocatable CPUs, by ID
    Request     \* RtClaimParametersSpec of each claim

\* ValidateClaimParameters enforces Count >= 1 and nothing else.  A zero Period
\* makes cpuPartitioning's caller divide by zero, so it is assumed away here.
ASSUME ClaimsAssumption == IsFiniteSet(Claims)
ASSUME RequestAssumption ==
    Request \in [Claims -> [count : Nat \ {0}, runtime : Nat, period : Nat \ {0}]]

(***************************************************************************)
(* The spec of a NodeAllocationState:                                      *)
(*   claims    the keys of AllocatedClaims                                 *)
(*   cpus      the CPU IDs of each entry's RtCpu.Cpuset; {} for an absent  *)
(*             entry and for an entry whose RtCpu is nil                   *)
(*   util      AllocatedUtilToCpu.Cpus (a missing map reads as the base    *)
(*             utilisation of the allocatable CPUs, which discovery sets   *)
(*             to 0)                                                       *)
(*   prepared  the keys of PreparedClaims, written by the kubelet plugin   *)
(***************************************************************************)
SpecType ==
    [claims   : SUBSET Claims,
     cpus     : [Claims -> SUBSET Cpus],
     util     : [Cpus -> Nat],
     prepared : SUBSET Claims]

NoCpus == [c \in Claims |-> {}]

EmptySpec ==
    [claims |-> {}, cpus |-> NoCpus, util |-> [x \in Cpus |-> 0], prepared |-> {}]

\* What a claim costs on every CPU it is given, in thousandths of the CPU.
Util(c) == (Request[c].runtime * 1000) \div Request[c].period

\* Mutant of AddClaim: the map of the claims is made anew, nil or not.
AddClaimToNewMap(spec, c, S) ==
    [claims   |-> {c},
     cpus     |-> [spec.cpus EXCEPT ![c] = S],
     util     |-> [x \in Cpus |-> spec.util[x] + IF x \in S THEN Util(c) ELSE 0],
     prepared |-> spec.prepared]

\* AllocatedClaims[c] = an entry with CPUs S, then SetUtilisation: a nil RtCpu
\* (S = {}) leaves the utilisation alone.
AddClaim(spec, c, S) ==
    [claims   |-> spec.claims \cup {c},
     cpus     |-> [spec.cpus EXCEPT ![c] = S],
     util     |-> [x \in Cpus |-> spec.util[x] + IF x \in S THEN Util(c) ELSE 0],
     prepared |-> spec.prepared]

\* A subtraction that stops at 0.
Minus(a, b) == IF a < b THEN 0 ELSE a - b

\* Deallocate takes the claim's utilisation off each of its CPUs and deletes
\* the claim's entry.
RemoveClaim(spec, c) ==
    [claims   |-> spec.claims \ {c},
     cpus     |-> [spec.cpus EXCEPT ![c] = {}],
     util     |-> [x \in Cpus |-> Minus(spec.util[x], IF x \in spec.cpus[c] THEN Util(c) ELSE 0)],
     prepared |-> spec.prepared]

----------------------------------------------------------------------------
(***************************************************************************)
(* The utilisation a set of claims puts on a CPU that all of them use.  It *)
(* is a recursive function, and not a fold of an operator, so that it can  *)
(* be reasoned about (module UtilSums).                                    *)
(***************************************************************************)
Load[S \in SUBSET Claims] ==
    IF S = {} THEN 0
    ELSE LET c == CHOOSE c \in S : TRUE
         IN  Util(c) + Load[S \ {c}]

\* The claims an assignment of CPU sets to claims places on CPU x.
On(cpus, x) == {c \in Claims : x \in cpus[c]}

\* The utilisation recorded for a CPU is the sum over the claims recorded on it.
Conserved(spec) == \A x \in Cpus : spec.util[x] = Load[On(spec.cpus, x)]
=============================================================================
