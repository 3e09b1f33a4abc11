---------------------------- MODULE MCDraSystem ----------------------------
(***************************************************************************)
(* Instances of DraSystem for TLC.                                         *)
(***************************************************************************)
EXTENDS DraSystem, TLC

CONSTANT n1

\* Each pod has a claim of its own, made from a template, and is named like it.
OwnClaims == [p \in Pods |-> <<p>>]

\* Two claims fit one CPU.
Forties == [c \in Claims |-> [count |-> 1, runtime |-> 40, period |-> 100]]

OneNode == [h \in Handlers |-> n1]

\* States that differ in what no step reads again are one.  With one handler and a
\* plugin that is up, nothing reads the copy between NameDevice and the end of the
\* assignment that follows: its value, and which field is assigned first, are left out.
Overwritten == {"get", "assign", "assignUtil", "assignClaims"}

View ==
    LET dead(n) == \E h \in Handlers : NodeOf[h] = n /\ call[h].pc \in Overwritten
        seen(h) == IF call[h].pc = "assignUtil" THEN [call[h] EXCEPT !.pc = "assignClaims"]
                   ELSE call[h]
    IN  <<nas, nasFresh, controllerOwn, prepared, main, kubelet, reserved,
          [n \in Nodes |-> IF dead(n) THEN EmptySpec ELSE copy[n]],
          [h \in Handlers |-> seen(h)]>>

\* Pods are interchangeable together with their claims.
PodSymmetry == Permutations(Claims)
=============================================================================
