------------------------------ MODULE WorkQueue ------------------------------
(***************************************************************************)
(* What the backlog promises to the extensions: a queue of jobs.  A job is *)
(* given to one worker at a time; it leaves the queue only when its holder *)
(* has completed it, and is given to another worker only after its holder  *)
(* has stopped working on it.                                              *)
(***************************************************************************)
CONSTANTS
  Jobs,     \* what may be submitted
  Workers,  \* who works on jobs
  None      \* no worker, no job

VARIABLES
  queued,  \* jobs submitted and not completed
  holder,  \* holder[j]: the worker that job j is given to, or None
  busy     \* busy[w]: the job that w is working on, or None

wqVars == <<queued, holder, busy>>

Init ==
  /\ queued = {}
  /\ holder = [j \in Jobs |-> None]
  /\ busy = [w \in Workers |-> None]

Submit(j) ==
  /\ j \notin queued
  /\ queued' = queued \union {j}
  /\ UNCHANGED <<holder, busy>>

Take(w, j) ==
  /\ j \in queued
  /\ holder[j] = None
  /\ busy[w] = None
  /\ holder' = [holder EXCEPT ![j] = w]
  /\ busy' = [busy EXCEPT ![w] = j]
  /\ UNCHANGED queued

Complete(w, j) ==
  /\ busy[w] = j
  /\ j \in queued
  /\ holder[j] = w
  /\ queued' = queued \ {j}
  /\ holder' = [holder EXCEPT ![j] = None]
  /\ busy' = [busy EXCEPT ![w] = None]

\* A worker stops in the middle of its job, which stays given to it.
Fail(w) ==
  /\ busy[w] # None
  /\ busy' = [busy EXCEPT ![w] = None]
  /\ UNCHANGED <<queued, holder>>

\* A job whose holder does not work on it any more is there to be taken again.
Requeue(j) ==
  /\ holder[j] # None
  /\ busy[holder[j]] # j
  /\ holder' = [holder EXCEPT ![j] = None]
  /\ UNCHANGED <<queued, busy>>

Next ==
  \/ \E j \in Jobs : Submit(j) \/ Requeue(j)
  \/ \E w \in Workers : (\E j \in Jobs : Take(w, j) \/ Complete(w, j)) \/ Fail(w)

Spec == Init /\ [][Next]_wqVars
=============================================================================
