-------------------------- MODULE MCLogCollection --------------------------
(***************************************************************************)
(* Instances of LogCollection for TLC.                                     *)
(***************************************************************************)
EXTENDS LogCollection, TLC

CONSTANTS p1, p2

TwoPods == {p1, p2}
Symmetry == Permutations(Pods)

NoBudget == [k \in Kinds |-> 0]
FailureBudget == [k \in Kinds |-> 1]

\* While one pod is at its end, the other one is not.
OneEnds == \E p \in Pods : ~ending[p]
=============================================================================
