------------------------------- MODULE Faults -------------------------------
(***************************************************************************)
(* What may go wrong, or comes from outside, and how often: every such     *)
(* step of a specification spends one unit of its kind.                    *)
(***************************************************************************)
EXTENDS Integers

CONSTANTS
  None,      \* no object, no value (Python's None)
  Limit,     \* Limit[kind]: how often the steps of a kind happen at most
  MaxFaults  \* how many such steps a behaviour contains at most

ASSUME LimitAssumption ==
  /\ Limit \in [DOMAIN Limit -> Nat]
  /\ MaxFaults \in Nat

VARIABLES
  spent,   \* spent[kind]: how many steps of that kind have happened
  left     \* how many may still happen

faults == <<spent, left>>

FaultsTypeOK ==
  /\ spent \in [DOMAIN Limit -> Nat]
  /\ left \in Nat

FaultsInit ==
  /\ spent = [kind \in DOMAIN Limit |-> 0]
  /\ left = MaxFaults

Spend(kind) ==
  /\ left > 0
  /\ spent[kind] < Limit[kind]
  /\ spent' = [spent EXCEPT ![kind] = @ + 1]
  /\ left' = left - 1

\* No step of this kind has happened yet.
Never(kind) == spent[kind] = 0
=============================================================================
