--------------------------- MODULE MCKubeletNode ---------------------------
(***************************************************************************)
(* Instances of KubeletNode for TLC.                                       *)
(***************************************************************************)
EXTENDS KubeletNode, TLC

CONSTANTS c1, n1

OneNode == [h \in Handlers |-> n1]

\* Two claims fit one CPU.
Forties == [c \in Claims |-> [count |-> 1, runtime |-> 40, period |-> 100]]

\* Claims with a utilisation of 0, which no property here looks at: a copy that is half
\* assigned differs in nothing else.
Zeros == [c \in Claims |-> [count |-> 1, runtime |-> 0, period |-> 100]]

\* Handlers are interchangeable, and so are claims, and so are CPUs.
HandlerSymmetry == Permutations(Handlers) \cup Permutations(Claims) \cup Permutations(Cpus)
=============================================================================
