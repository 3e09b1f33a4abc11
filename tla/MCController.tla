---------------------------- MODULE MCController ----------------------------
(***************************************************************************)
(* Instances of Controller for TLC.                                        *)
(***************************************************************************)
EXTENDS Controller, TLC

CONSTANTS c1, c2, c3, p1, p2

\* Two pods with a claim of their own each.  One claim fits an empty CPU, two
\* on one CPU (1000) would exceed the threshold of 950.
OwnClaims == [p \in Pods |-> IF p = p1 THEN <<c1>> ELSE <<c2>>]
Halves == [c \in Claims |-> [count |-> 1, runtime |-> 50, period |-> 100]]

\* Two pods that share a claim, as in demo/rt-test3.yaml.
SharedClaim == [p \in Pods |-> <<c1>>]

\* A pod with two claims, one of them for two CPUs, and a pod with a claim for
\* two CPUs.  On two CPUs either pair fits, and all three together miss the
\* threshold by nothing: 300 + 500 + 150 = 950.  300 is an inexact division.
PairOfClaims == [p \in Pods |-> IF p = p1 THEN <<c1, c2>> ELSE <<c3>>]
Mixed ==
    [c \in Claims |->
        CASE c = c1 -> [count |-> 2, runtime |-> 301, period |-> 1001]
          [] c = c2 -> [count |-> 1, runtime |-> 50, period |-> 100]
          [] c = c3 -> [count |-> 2, runtime |-> 15, period |-> 100]]

\* Workers are interchangeable, and so are nodes, and so are a node's CPUs.
Symmetry == Permutations(Workers) \cup Permutations(Nodes)
\* Pods with the same claims are interchangeable as well.
SharedSymmetry == Symmetry \cup Permutations(Pods)
WorkerSymmetry == Permutations(Workers)
CpuSymmetry == Permutations(Workers) \cup Permutations(Cpus)

=============================================================================
