--------------------------- MODULE MCOdgOperator ---------------------------
(***************************************************************************)
(* Instances of OdgOperator for TLC: two extensions; one spec needs two    *)
(* secrets for the first of them, the other does not request the second.   *)
(***************************************************************************)
EXTENDS OdgOperator

CONSTANTS n1, e1, e2, both, one

OneOdg == {n1}
TwoExtensions == {e1, e2}
BothOnly == {both}
TwoSpecs == {both, one}

RequestedDef == [s \in Specs |-> IF s = both THEN Extensions ELSE {e1}]
UpToTwo == 0 .. 2
ChunksDef ==
  [s \in Specs |-> [e \in Extensions |-> IF s = both /\ e = e1 THEN {1, 2} ELSE {0}]]
NoneBroken == [s \in Specs |-> {}]
SecondBroken == [s \in Specs |-> {e2}]
BrokenInOne == [s \in Specs |-> IF s = one THEN {e1} ELSE {}]

Limits(kinds) == [k \in Kinds |-> IF k \in kinds THEN 1 ELSE 0]
NoFailure == Limits({})
Rough == Limits(Kinds)
Calm == Limits({"timeout", "annotate"})
KilledOnce == Limits({"kill"})
=============================================================================
