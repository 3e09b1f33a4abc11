---------------------------- MODULE ClaimsInUse ----------------------------
(***************************************************************************)
(* What the NAS says of the claims that the kubelet has prepared.          *)
(***************************************************************************)
CONSTANTS Nodes, Claims
VARIABLES nas, kubelet

\* A claim that containers use is recorded in the NAS, so that its CPUs are
\* counted when the next claim is placed.
PreparedAllocated ==
    \A n \in Nodes, c \in Claims :
       kubelet[n][c].phase = "prepared" => c \in nas[n].spec.claims
=============================================================================
