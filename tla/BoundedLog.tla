----------------------------- MODULE BoundedLog -----------------------------
(***************************************************************************)
(* What the log collection promises to those who read it: a log of limited *)
(* length to which a write, in one step, appends records; only the oldest  *)
(* records make room for them, and only once the limit is reached.         *)
(***************************************************************************)
EXTENDS Integers, Sequences

CONSTANTS
  Record,
  Limit    \* records that fit

VARIABLES
  exists,  \* has the log been created?
  content

blVars == <<exists, content>>

Init == exists = FALSE /\ content = << >>

\* new continues old without its n oldest records.
Continues(new, old, n) ==
  /\ Len(old) - n <= Len(new)
  /\ \A i \in 1 .. (Len(old) - n) : new[i] = old[n + i]

Write ==
  /\ exists' = TRUE
  /\ content' \in Seq(Record)
  /\ Len(content') <= Limit
  /\ \E n \in 0 .. Len(content) :
       /\ Continues(content', content, n)
       /\ n > 0 => Len(content') = Limit

\* Someone deletes the log as a whole.
Drop ==
  /\ exists
  /\ exists' = FALSE
  /\ content' = << >>

Next == Write \/ Drop

Spec == Init /\ [][Next]_blVars
=============================================================================
