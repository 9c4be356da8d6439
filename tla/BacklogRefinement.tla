------------------------- MODULE BacklogRefinement -------------------------
(***************************************************************************)
(* The backlog implements the queue of WorkQueue, for every number of      *)
(* items, pods and callers, if nothing interferes with a processing.       *)
(***************************************************************************)
EXTENDS BacklogProofs

\* The refinement mapping of Queue.
Holder == [n \in Names |-> IF items[n] = None THEN None ELSE items[n].by]
BusyWith == [p \in Pods |-> IF phase[p] = "work" THEN job[p].name ELSE None]
Mapping == <<Existing, Holder, BusyWith>>

\* A step that changes neither the claims nor the pods at work is a stutter.
LEMMA SameStore ==
  ASSUME items' = items
  PROVE  Existing' = Existing /\ Holder' = Holder
  BY DEF Existing, Holder

LEMMA SameClaims ==
  ASSUME TypeOK, NEW n \in Names, NEW item \in Item, Store(n, item), items[n] # None,
         item.by = items[n].by
  PROVE  Existing' = Existing /\ Holder' = Holder
  BY StoreEffect DEF Existing, Holder

LEMMA SameWork ==
  ASSUME \A p \in Pods : /\ phase'[p] = "work" <=> phase[p] = "work"
                         /\ phase[p] = "work" => job'[p] = job[p]
  PROVE  BusyWith' = BusyWith
  BY DEF BusyWith

\* A write that changes the claim of one item.
LEMMA NewClaim ==
  ASSUME TypeOK, NEW n \in Names, NEW item \in Item, Store(n, item), items[n] # None
  PROVE  /\ Existing' = Existing
         /\ Holder' = [Holder EXCEPT ![n] = item.by]
<1>1. \A m \in Names : (items'[m] # None) <=> (items[m] # None)
  BY StoreEffect
<1>2. \A m \in Names : Holder'[m] = IF m = n THEN item.by ELSE Holder[m]
  BY StoreEffect DEF Holder
<1>. QED  BY <1>1, <1>2 DEF Existing, Holder

LEMMA CallerSimulation ==
  ASSUME TypeOK, Inv, NothingInterferes, CallerNext
  PROVE  (\E n \in Names : Queue!Submit(n)) \/ UNCHANGED Mapping
<1> USE NoneAssumption
<1>1. ASSUME NEW c \in Creators, NEW n \in Names, NEW prio \in Priorities, Create(c, n, prio)
      PROVE  Queue!Submit(n) \/ UNCHANGED Mapping
  <2>1. BusyWith' = BusyWith
    BY <1>1, SameWork DEF Create
  <2>2. CASE items[n] = None
    <3>1. [uid |-> revision + 1, rv |-> 0, prio |-> prio, by |-> None] \in Item
      BY DEF TypeOK, Item
    <3>2. /\ items'[n] # None /\ items'[n].by = None
          /\ \A m \in Names \ {n} : items'[m] = items[m]
      BY <1>1, <2>2, <3>1, StoreEffect DEF Create
    <3>3. Existing' = Existing \union {n} /\ n \notin Existing
      BY <2>2, <3>2 DEF Existing
    <3>4. \A m \in Names : Holder'[m] = Holder[m]
      BY <2>2, <3>2 DEF Holder
    <3>5. Holder' = Holder
      BY <3>4 DEF Holder
    <3>. QED  BY <2>1, <3>3, <3>5 DEF Queue!Submit, Holder, BusyWith
  <2>3. CASE items[n] # None
    BY <1>1, <2>1, <2>3, SameStore DEF Create, Mapping
  <2>. QED  BY <2>2, <2>3
<1>2. ASSUME NEW c \in Creators, FindItem(c) PROVE UNCHANGED Mapping
  BY <1>2, SameStore, SameWork DEF FindItem, Mapping
<1>3. ASSUME NEW c \in Creators, PatchPriority(c) PROVE UNCHANGED Mapping
  <2> DEFINE n == caller[c].name
             body == [caller[c].found EXCEPT !.prio = caller[c].prio]
  <2>1. BusyWith' = BusyWith
    BY <1>3, SameWork DEF PatchPriority
  <2>2. CASE IsCurrent(n, caller[c].found)
    <3>1. caller[c] \in Patching
      BY <1>3 DEF PatchPriority, TypeOK, IdleCaller, Getting
    <3>2. n \in Names /\ body \in Item /\ body.by = caller[c].found.by
      BY <3>1 DEF Patching, Item
    <3>3. items[n] # None /\ items[n] = caller[c].found
      BY <1>3, <2>2 DEF PatchPriority, Inv, CallersInv, Faithful, IsCurrent
    <3>. QED  BY <1>3, <2>1, <2>2, <3>2, <3>3, SameClaims DEF PatchPriority, Mapping
  <2>3. CASE ~IsCurrent(n, caller[c].found)
    BY <1>3, <2>1, <2>3, SameStore DEF PatchPriority, Mapping
  <2>. QED  BY <2>2, <2>3
<1>4. ASSUME NEW n \in Names, NEW prio \in Priorities, UserPut(n, prio) PROVE UNCHANGED Mapping
  <2>1. [items[n] EXCEPT !.prio = prio] \in Item
    BY <1>4 DEF UserPut, TypeOK, Item
  <2>2. [items[n] EXCEPT !.prio = prio].by = items[n].by
    BY <1>4 DEF UserPut, TypeOK, Item
  <2>. QED  BY <1>4, <2>1, <2>2, SameClaims, SameWork DEF UserPut, Mapping
<1>5. ASSUME NEW n \in Names, UserDelete(n) PROVE FALSE
  BY <1>5 DEF UserDelete, Spend, NothingInterferes
<1>. QED  BY <1>1, <1>2, <1>3, <1>4, <1>5 DEF CallerNext

LEMMA PodSimulation ==
  ASSUME TypeOK, Inv, HeldInv, NEW p \in Pods,
         Step(p) \/ Crash(p) \/ StartPod(p) \/ StopPod(p) \/ Kill(p)
  PROVE  \/ \E n \in Names : Queue!Take(p, n) \/ Queue!Complete(p, n)
         \/ Queue!Fail(p)
         \/ UNCHANGED Mapping
<1> USE NoneAssumption
<1>1. CASE Claim(p) /\ IsCurrent(job[p].name, job[p].item)
  <2> DEFINE n == job[p].name
             body == [job[p].item EXCEPT !.by = p]
  <2>1. job[p] \in Snapshot
    BY <1>1 DEF Claim, TypeOK
  <2>2. n \in Names /\ body \in Item /\ body.by = p
    BY <2>1 DEF Snapshot, Item
  <2>3. items[n] # None /\ items[n].by = None
    BY <1>1 DEF Claim, Inv, PodsInv, Faithful, IsCurrent
  <2>4. Existing' = Existing /\ Holder' = [Holder EXCEPT ![n] = p]
    BY <1>1, <2>2, <2>3, NewClaim DEF Claim
  <2>5. phase[p] = "claim" /\ phase' = [phase EXCEPT ![p] = "work"] /\ job' = job
    BY <1>1 DEF Claim, Move
  <2>6. BusyWith' = [BusyWith EXCEPT ![p] = n] /\ BusyWith[p] = None
    BY <2>5 DEF BusyWith, TypeOK
  <2>7. n \in Existing /\ Holder[n] = None
    BY <2>2, <2>3 DEF Existing, Holder
  <2>8. Queue!Take(p, n)
    BY <2>4, <2>6, <2>7 DEF Queue!Take, Holder, BusyWith
  <2> HIDE DEF n
  <2>. QED  BY <2>2, <2>8 DEF Queue!Take
<1>2. CASE Claim(p) /\ ~IsCurrent(job[p].name, job[p].item)
  BY <1>2, SameStore, SameWork DEF Claim, Move, Exited, TypeOK, Mapping
<1>3. CASE Finish(p)
  <2> DEFINE n == job[p].name
  <2>1. phase[p] = "work" /\ n \in Names
    BY <1>3 DEF Finish, TypeOK, Snapshot
  <2>2. items[n] # None /\ items[n].by = p
    BY <2>1 DEF HeldInv, Holds
  <2>3. items'[n] = None /\ \A m \in Names \ {n} : items'[m] = items[m]
    BY <1>3, <2>1, DeleteEffect DEF Finish
  <2>4. Existing' = Existing \ {n}
    BY <2>3 DEF Existing
  <2>5. Holder' = [Holder EXCEPT ![n] = None]
    BY <2>3 DEF Holder
  <2>6. phase'[p] # "work" /\ \A q \in Pods \ {p} : phase'[q] = phase[q] /\ job'[q] = job[q]
    BY <1>3 DEF Finish, Move, TypeOK
  <2>7. BusyWith' = [BusyWith EXCEPT ![p] = None]
    BY <2>6 DEF BusyWith
  <2>8. BusyWith[p] = n /\ n \in Existing /\ Holder[n] = p
    BY <2>1, <2>2 DEF BusyWith, Existing, Holder
  <2>9. Queue!Complete(p, n)
    BY <2>4, <2>5, <2>7, <2>8 DEF Queue!Complete, Holder, BusyWith
  <2> HIDE DEF n
  <2>. QED  BY <2>1, <2>9 DEF Queue!Complete
<1>4. ASSUME Crash(p) \/ Kill(p), phase[p] = "work"
      PROVE  Queue!Fail(p)
  <2>1. items' = items /\ phase'[p] # "work"
        /\ \A q \in Pods \ {p} : phase'[q] = phase[q] /\ job'[q] = job[q]
    BY <1>4 DEF Crash, Kill, Move, Exited, TypeOK
  <2>2. BusyWith' = [BusyWith EXCEPT ![p] = None]
    BY <2>1 DEF BusyWith
  <2>3. BusyWith[p] # None
    BY <1>4 DEF BusyWith, TypeOK, Snapshot
  <2>. QED  BY <2>1, <2>2, <2>3, SameStore DEF Queue!Fail, Holder, BusyWith
<1>5. ASSUME Crash(p) \/ Kill(p), phase[p] # "work"
      PROVE  UNCHANGED Mapping
  BY <1>5, SameStore, SameWork DEF Crash, Kill, Move, Exited, TypeOK, Mapping
<1>6. CASE Wake(p)
  BY <1>6, SameStore, SameWork DEF Wake, Move, TypeOK, Mapping
<1>7. CASE ListAndPick(p)
  BY <1>7, SameStore, SameWork DEF ListAndPick, Move, TypeOK, Mapping
<1>8. CASE Restart(p)
  BY <1>8, SameStore, SameWork DEF Restart, Move, TypeOK, Mapping
<1>9. CASE StartPod(p)
  BY <1>9, SameStore, SameWork DEF StartPod, Move, TypeOK, Mapping
<1>10. CASE StopPod(p)
  BY <1>10, SameStore, SameWork DEF StopPod, Signal, Move, TypeOK, Mapping
<1>. QED  BY <1>1, <1>2, <1>3, <1>4, <1>5, <1>6, <1>7, <1>8, <1>9, <1>10 DEF Step

LEMMA ControllerSimulation ==
  ASSUME TypeOK, Inv, HeldInv, ControllerNext
  PROVE  (\E n \in Names : Queue!Requeue(n)) \/ UNCHANGED Mapping
<1> USE NoneAssumption
<1>1. BusyWith' = BusyWith
  BY SameWork
  DEF ControllerNext, OnBacklogChange, HandleEvent, CheckClaim, RemoveClaim,
      RetryRemoveClaim, CheckedAll, Scale, ControllerCrash, RestartController, ResetWatch
<1>2. CASE RemoveClaim /\ IsCurrent(controller.cur.name, controller.cur.item)
  <2> DEFINE n == controller.cur.name
             body == [controller.cur.item EXCEPT !.by = None]
  <2>1. controller.cur \in ListedClaim
    BY <1>2 DEF RemoveClaim, TypeOK
  <2>2. n \in Names /\ body \in Item /\ body.by = None
    BY <2>1 DEF ListedClaim, Item
  <2>3. /\ items[n] # None /\ items[n].by \in Pods
        /\ phase[items[n].by] = "gone" \/ n \in overdue
    BY <1>2 DEF RemoveClaim, Inv, ControllerInv, ListedInv, Faithful, IsCurrent
  <2>4. Existing' = Existing /\ Holder' = [Holder EXCEPT ![n] = None]
    <3>1. Store(n, body)
      BY <1>2 DEF RemoveClaim
    <3> HIDE DEF body
    <3>. QED  BY <2>2, <2>3, <3>1, NewClaim
  <2>5. Holder[n] = items[n].by /\ Holder[n] # None
    BY <2>2, <2>3 DEF Holder
  <2>6. BusyWith[Holder[n]] # n
    <3>1. CASE phase[items[n].by] = "work"
      BY <2>3, <2>5, <3>1 DEF HeldInv, Holds, BusyWith
    <3>2. CASE phase[items[n].by] # "work"
      BY <2>2, <2>3, <2>5, <3>2 DEF BusyWith
    <3>. QED  BY <3>1, <3>2
  <2>7. Queue!Requeue(n)
    BY <1>1, <2>4, <2>5, <2>6 DEF Queue!Requeue, Holder, BusyWith
  <2> HIDE DEF n
  <2>. QED  BY <2>2, <2>7 DEF Queue!Requeue
<1>3. CASE ~(RemoveClaim /\ IsCurrent(controller.cur.name, controller.cur.item))
  <2>1. items' = items
    BY <1>3 DEF ControllerNext, OnBacklogChange, HandleEvent, CheckClaim, RemoveClaim,
            RetryRemoveClaim, CheckedAll, Scale, ControllerCrash, RestartController, ResetWatch
  <2>. QED  BY <1>1, <2>1, SameStore DEF Mapping
<1>. QED  BY <1>2, <1>3

LEMMA Simulation ==
  ASSUME TypeOK, Inv, HeldInv, NothingInterferes, [Next]_vars
  PROVE  Queue!Next \/ UNCHANGED Mapping
<1>1. CASE CallerNext
  BY <1>1, CallerSimulation DEF Queue!Next
<1>2. CASE PodNext
  BY <1>2, PodSimulation DEF PodNext, Queue!Next
<1>3. CASE ControllerNext
  BY <1>3, ControllerSimulation DEF Queue!Next
<1>4. CASE Ageing \/ UNCHANGED vars
  BY <1>4, SameStore, SameWork DEF Ageing, AgeOrphan, Overrun, vars, Mapping
<1>. QED  BY <1>1, <1>2, <1>3, <1>4 DEF Next

\* As long as no processing exceeds remove_claim_after_minutes and no user deletes
\* items, the pods, callers and controller together behave as one queue of jobs.
THEOREM Refinement ==
  ASSUME Exclusive
  PROVE  Spec => ImplementsQueue
<1>1. Init => Queue!Init
  BY DEF Init, Queue!Init, Existing
<1>2. TypeOK /\ Inv /\ HeldInv /\ NothingInterferes /\ [Next]_vars
        => [Queue!Next]_(Queue!wqVars)
  BY Simulation DEF Mapping, Queue!wqVars, Holder, BusyWith
<1>. QED  BY <1>1, <1>2, TypeCorrect, Invariant, HeldInvariant, PTL
          DEF Spec, ImplementsQueue, Queue!Spec
=============================================================================
