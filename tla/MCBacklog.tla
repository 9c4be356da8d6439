----------------------------- MODULE MCBacklog -----------------------------
(***************************************************************************)
(* Instances of Backlog for TLC.                                           *)
(***************************************************************************)
EXTENDS Backlog, TLC

CONSTANTS n1, n2, p1, p2, c1, c2

OneName == {n1}
TwoNames == {n1, n2}
TwoPods == {p1, p2}
OneCreator == {c1}
TwoCreators == {c1, c2}
TwoPriorities == {1, 8}
ThreePriorities == {1, 2, 8}

\* Pods, items and callers are interchangeable (only in runs without liveness).
Symmetry == Permutations(Pods) \union Permutations(Names) \union Permutations(Creators)

Quiet == [k \in Kinds |-> 0]

\* Every kind of disturbance, two of them in a behaviour, on one item that two callers create.
AllBudget ==
  [Quiet EXCEPT !["request"] = 2, !["podFailure"] = 1, !["overrun"] = 1,
                !["userPut"] = 1, !["userDelete"] = 1,
                !["controllerCrash"] = 1]
AtMostTwo == Cardinality({k \in Kinds \ {"request"} : budget[k] # Budget[k]}) <= 2

\* Two items and two pods; neither overruns nor deletes of users.
ExclusiveBudget == [Quiet EXCEPT !["request"] = 2, !["podFailure"] = 1, !["userPut"] = 1]
\* A pod that fails while a caller raises the priority of its item.
ConflictBudget == [Quiet EXCEPT !["request"] = 2, !["podFailure"] = 1]
=============================================================================
