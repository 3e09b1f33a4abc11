-------------------------- MODULE CpuPartitioning --------------------------
(***************************************************************************)
(* cpuPartitioning of cmd/dra-rt-controller/rt.go: the choice of the CPUs  *)
(* for one claim.  The controller calls it with the "worstFit" policy.     *)
(***************************************************************************)
EXTENDS Integers, FiniteSets

Threshold == 950    \* "TODO: make the threshold a parameter"

\* Mutant of Fitting: a score of zero will do.
FittingExactly(util, req) == {x \in DOMAIN util : Threshold - util[x] - req >= 0}

\* The CPUs with a positive score for a request.
Fitting(util, req) == {x \in DOMAIN util : Threshold - util[x] - req > 0}

\* Mutant of WorstFit: the loop over the sorted CPUs stops one short.
WorstFitShort(util, req, n) ==
    {S \in SUBSET Fitting(util, req) :
        /\ Cardinality(S) = n - 1
        /\ \A x \in S, y \in Fitting(util, req) \ S : util[x] <= util[y]}

(***************************************************************************)
(* The answers of the worst-fit policy: n CPUs with a positive score, none *)
(* left out that has a higher score than one taken.  CPUs with equal       *)
(* scores come in the order Go iterates the utilisation map, so any choice *)
(* among them is possible.  The set is empty exactly when the code returns *)
(* "not enough cpus to allocate".                                          *)
(***************************************************************************)
WorstFit(util, req, n) ==
    {S \in SUBSET Fitting(util, req) :
        /\ Cardinality(S) = n
        /\ \A x \in S, y \in Fitting(util, req) \ S : util[x] <= util[y]}
=============================================================================
