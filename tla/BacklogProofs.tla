--------------------------- MODULE BacklogProofs ---------------------------
(***************************************************************************)
(* Theorems about Backlog, for every number of items, pods and callers and *)
(* every budget.                                                           *)
(***************************************************************************)
EXTENDS Backlog, FiniteSetTheorems, TLAPS

-----------------------------------------------------------------------------
(* Type correctness *)

\* The number of existing items is a natural number.
LEMMA ExistingCount == Cardinality(Existing) \in Nat
  BY FiniteAssumption, FS_Subset, FS_CardinalityType DEF Existing

\* A write keeps the store well-typed.
LEMMA StoreType ==
  ASSUME NEW n \in Names, NEW item \in Item, revision \in Nat,
         items \in [Names -> Item \union {None}], Store(n, item)
  PROVE  /\ revision' \in Nat
         /\ items' \in [Names -> Item \union {None}]
  BY DEF Store, Item

\* So does a delete, which also keeps the sets and counters it changes well-typed.
LEMMA DeleteType ==
  ASSUME NEW n \in Names, TypeOK, Delete(n)
  PROVE  /\ revision' \in Nat
         /\ items' \in [Names -> Item \union {None}]
         /\ overdue' \subseteq Names
         /\ pending' \in Nat
  BY DEF Delete, TypeOK

LEMMA SpendType ==
  ASSUME NEW kind \in Kinds, budget \in [Kinds -> Nat], Spend(kind)
  PROVE  budget' \in [Kinds -> Nat]
  BY DEF Spend

\* Each step of a caller keeps the types.
LEMMA CallerType == TypeOK /\ CallerNext => TypeOK'
<1> SUFFICES ASSUME TypeOK, CallerNext PROVE TypeOK'
  OBVIOUS
<1> USE ParametersAssumption, NoneAssumption
<1>1. ASSUME NEW c \in Creators, NEW n \in Names, NEW prio \in Priorities, Create(c, n, prio)
      PROVE  TypeOK'
  <2>1. budget' \in [Kinds -> Nat]
    BY <1>1, SpendType DEF Create, Kinds, TypeOK
  <2>2. CASE items[n] = None
    <3>1. [uid |-> revision + 1, rv |-> 0, prio |-> prio, by |-> None] \in Item
      BY DEF TypeOK, Item
    <3>2. /\ Store(n, [uid |-> revision + 1, rv |-> 0, prio |-> prio, by |-> None])
          /\ pending' = pending + 1
          /\ UNCHANGED <<caller, overdue, phase, wants, job, controller, replicas>>
      BY <1>1, <2>2 DEF Create
    <3>3. revision' \in Nat /\ items' \in [Names -> Item \union {None}]
      BY <3>1, <3>2, StoreType DEF TypeOK
    <3>. QED  BY <2>1, <3>2, <3>3 DEF TypeOK
  <2>3. CASE items[n] # None
    BY <1>1, <2>1, <2>3 DEF Create, TypeOK, Getting
  <2>. QED  BY <2>2, <2>3
<1>2. ASSUME NEW c \in Creators, FindItem(c)
      PROVE  TypeOK'
  <2>1. caller[c] \in Getting
    BY <1>2 DEF FindItem, TypeOK, IdleCaller, Patching
  <2>2. caller' \in [Creators -> {IdleCaller} \union Getting \union Patching]
    BY <1>2, <2>1 DEF FindItem, TypeOK, Getting, Patching
  <2>. QED  BY <1>2, <2>2 DEF FindItem, TypeOK
<1>3. ASSUME NEW c \in Creators, PatchPriority(c)
      PROVE  TypeOK'
  <2>1. caller[c] \in Patching
    BY <1>3 DEF PatchPriority, TypeOK, IdleCaller, Getting
  <2>2. /\ caller[c].name \in Names
        /\ [caller[c].found EXCEPT !.prio = caller[c].prio] \in Item
    BY <2>1 DEF Patching, Item
  <2>3. revision' \in Nat /\ items' \in [Names -> Item \union {None}]
    BY <1>3, <2>2, StoreType DEF PatchPriority, TypeOK
  <2>. QED  BY <1>3, <2>3 DEF PatchPriority, TypeOK
<1>4. ASSUME NEW n \in Names, NEW prio \in Priorities, UserPut(n, prio)
      PROVE  TypeOK'
  <2>1. budget' \in [Kinds -> Nat]
    BY <1>4, SpendType DEF UserPut, Kinds, TypeOK
  <2>2. [items[n] EXCEPT !.prio = prio] \in Item
    BY <1>4 DEF UserPut, TypeOK, Item
  <2>3. revision' \in Nat /\ items' \in [Names -> Item \union {None}]
    BY <1>4, <2>2, StoreType DEF UserPut, TypeOK
  <2>. QED  BY <1>4, <2>1, <2>3 DEF UserPut, TypeOK
<1>5. ASSUME NEW n \in Names, UserDelete(n)
      PROVE  TypeOK'
  <2>1. budget' \in [Kinds -> Nat]
    BY <1>5, SpendType DEF UserDelete, Kinds, TypeOK
  <2>. QED  BY <1>5, <2>1, DeleteType DEF UserDelete, TypeOK
<1>. QED  BY <1>1, <1>2, <1>3, <1>4, <1>5 DEF CallerNext

\* Each step of a pod, or of Kubernetes with a pod, keeps the types.
LEMMA PodType == TypeOK /\ PodNext => TypeOK'
<1> SUFFICES ASSUME TypeOK, NEW p \in Pods,
                    Step(p) \/ Crash(p) \/ StartPod(p) \/ StopPod(p) \/ Kill(p)
             PROVE  TypeOK'
  BY DEF PodNext
<1> USE NoneAssumption
<1>1. CASE Wake(p)
  BY <1>1 DEF Wake, Move, TypeOK, Phases
<1>2. CASE ListAndPick(p)
  <2>1. CASE Open = {}
    BY <1>2, <2>1 DEF ListAndPick, Move, TypeOK, Phases
  <2>2. ASSUME NEW n \in Open, Move(p, "claim"),
               job' = [job EXCEPT ![p] = [name |-> n, item |-> items[n]]]
        PROVE  TypeOK'
    <3>1. [name |-> n, item |-> items[n]] \in Snapshot
      BY DEF Open, Existing, TypeOK, Snapshot
    <3>2. job' \in [Pods -> Snapshot \union {None}]
      BY <2>2, <3>1 DEF TypeOK
    <3>3. \A q \in Pods : phase'[q] \in {"claim", "work"} => job'[q] # None
      BY <2>2, <3>1 DEF TypeOK, Move
    <3>. QED  BY <1>2, <2>2, <3>2, <3>3 DEF ListAndPick, Move, TypeOK, Phases
  <2>. QED  BY <1>2, <2>1, <2>2 DEF ListAndPick
<1>3. CASE Claim(p)
  <2>1. job[p] \in Snapshot
    BY <1>3 DEF Claim, TypeOK
  <2>2. /\ job[p].name \in Names
        /\ [job[p].item EXCEPT !.by = p] \in Item
    BY <2>1 DEF Snapshot, Item
  <2>3. CASE IsCurrent(job[p].name, job[p].item)
    <3>1. revision' \in Nat /\ items' \in [Names -> Item \union {None}]
      BY <1>3, <2>2, <2>3, StoreType DEF Claim, TypeOK
    <3>. QED  BY <1>3, <2>3, <3>1 DEF Claim, Move, TypeOK, Phases
  <2>4. CASE ~IsCurrent(job[p].name, job[p].item)
    BY <1>3, <2>4 DEF Claim, Move, Exited, TypeOK, Phases
  <2>. QED  BY <2>3, <2>4
<1>4. CASE Finish(p)
  <2>1. job[p].name \in Names
    BY <1>4 DEF Finish, TypeOK, Snapshot
  <2>2. /\ revision' \in Nat
        /\ items' \in [Names -> Item \union {None}]
        /\ overdue' \subseteq Names
        /\ pending' \in Nat
    BY <1>4, <2>1, DeleteType DEF Finish
  <2>. QED  BY <1>4, <2>2 DEF Finish, Move, TypeOK, Phases
<1>5. CASE Crash(p)
  <2>1. budget' \in [Kinds -> Nat]
    BY <1>5, SpendType DEF Crash, Kinds, TypeOK
  <2>. QED  BY <1>5, <2>1 DEF Crash, Exited, Move, TypeOK, Phases
<1>6. CASE Restart(p)
  BY <1>6 DEF Restart, Move, TypeOK, Phases
<1>7. CASE StartPod(p)
  BY <1>7 DEF StartPod, Move, TypeOK, Phases
<1>8. CASE StopPod(p)
  <2>1. budget' \in [Kinds -> Nat]
    BY <1>8, SpendType DEF StopPod, Kinds, TypeOK
  <2>2. CASE phase[p] \in {"ready", "down"} /\ Move(p, "gone") /\ UNCHANGED wants
    BY <1>8, <2>1, <2>2 DEF StopPod, Move, TypeOK, Phases
  <2>3. CASE wants' = [wants EXCEPT ![p] = TRUE] /\ UNCHANGED phase
    <3>1. wants' \in [Pods -> BOOLEAN]
      BY <2>3, Zenon DEF TypeOK
    <3>. QED  BY <1>8, <2>1, <2>3, <3>1 DEF StopPod, TypeOK
  <2>. QED  BY <1>8, <2>2, <2>3 DEF StopPod, Signal
<1>9. CASE Kill(p)
  <2>1. budget' \in [Kinds -> Nat]
    BY <1>9, SpendType DEF Kill, Kinds, TypeOK
  <2>. QED  BY <1>9, <2>1 DEF Kill, Move, TypeOK, Phases
<1>. QED  BY <1>1, <1>2, <1>3, <1>4, <1>5, <1>6, <1>7, <1>8, <1>9 DEF Step

\* Each step of the controller keeps the types.
LEMMA ControllerType == TypeOK /\ ControllerNext => TypeOK'
<1> SUFFICES ASSUME TypeOK, ControllerNext PROVE TypeOK'
  OBVIOUS
<1> USE NoneAssumption
<1>1. CASE HandleEvent
  <2> DEFINE Entry(n) == [name |-> n, item |-> items[n], late |-> n \in overdue]
  <2>1. \A n \in Claimed : Entry(n) \in ListedClaim
    BY DEF Claimed, Existing, TypeOK, ListedClaim
  <2>2. {Entry(n) : n \in Claimed} \in SUBSET ListedClaim
    BY <2>1
  <2>3. controller' = [pc |-> "check", cur |-> None, running |-> {},
                       count |-> Cardinality(Existing), todo |-> {Entry(n) : n \in Claimed}]
    BY <1>1 DEF HandleEvent
  <2> HIDE DEF Entry
  <2>4. controller' \in [pc : ControllerPCs, todo : SUBSET ListedClaim,
                         cur : ListedClaim \union {None},
                         running : SUBSET Pods, count : Nat]
    BY <2>2, <2>3, ExistingCount DEF ControllerPCs
  <2>5. pending' \in Nat
    BY <1>1 DEF HandleEvent, TypeOK
  <2>. QED  BY <1>1, <2>3, <2>4, <2>5 DEF HandleEvent, TypeOK
<1>2. ASSUME NEW claim \in controller.todo, CheckClaim(claim)
      PROVE  TypeOK'
  <2>1. claim \in ListedClaim
    BY DEF TypeOK
  <2>2. Listed \subseteq Pods
    BY DEF Listed
  <2>. QED  BY <1>2, <2>1, <2>2 DEF CheckClaim, TypeOK, ControllerPCs
<1>3. CASE RemoveClaim
  <2>1. controller.cur \in ListedClaim
    BY <1>3 DEF RemoveClaim, TypeOK
  <2>2. /\ controller.cur.name \in Names
        /\ [controller.cur.item EXCEPT !.by = None] \in Item
    BY <2>1 DEF ListedClaim, Item
  <2>3. CASE IsCurrent(controller.cur.name, controller.cur.item)
    <3>1. revision' \in Nat /\ items' \in [Names -> Item \union {None}]
      BY <1>3, <2>2, <2>3, StoreType DEF RemoveClaim, TypeOK
    <3>2. overdue' \subseteq Names
      BY <1>3, <2>3 DEF RemoveClaim, TypeOK
    <3>3. controller' = [controller EXCEPT !.pc = "check", !.cur = None]
      BY <1>3, <2>3 DEF RemoveClaim
    <3>4. /\ controller' \in [pc : ControllerPCs, todo : SUBSET ListedClaim,
                              cur : ListedClaim \union {None},
                              running : SUBSET Pods, count : Nat]
          /\ controller'.pc = "check"
      BY <3>3 DEF TypeOK, ControllerPCs
    <3>5. UNCHANGED <<phase, wants, job, caller, pending, replicas, budget>>
      BY <1>3 DEF RemoveClaim
    <3>. QED  BY <3>1, <3>2, <3>4, <3>5 DEF TypeOK
  <2>4. CASE ~IsCurrent(controller.cur.name, controller.cur.item)
    BY <1>3, <2>1, <2>4 DEF RemoveClaim, TypeOK, ControllerPCs, Down, Watching
  <2>. QED  BY <2>3, <2>4
<1>4. CASE RetryRemoveClaim
  BY <1>4 DEF RetryRemoveClaim, TypeOK, ControllerPCs, Down, Watching
<1>5. CASE CheckedAll
  BY <1>5 DEF CheckedAll, TypeOK, ControllerPCs
<1>6. CASE Scale
  <2>1. DesiredReplicas \in Nat
    BY ParametersAssumption DEF DesiredReplicas, Smaller, TypeOK
  <2>2. CASE UNCHANGED budget
    BY <1>6, <2>1, <2>2 DEF Scale, TypeOK, ControllerPCs, Down, Watching
  <2>3. CASE Spend("scaleError")
    <3>1. budget' \in [Kinds -> Nat]
      BY <2>3, SpendType DEF Kinds, TypeOK
    <3>. QED  BY <1>6, <2>1, <3>1 DEF Scale, TypeOK, ControllerPCs, Down, Watching
  <2>. QED  BY <1>6, <2>2, <2>3 DEF Scale
<1>7. CASE ControllerCrash
  <2>1. budget' \in [Kinds -> Nat]
    BY <1>7, SpendType DEF ControllerCrash, Kinds, TypeOK
  <2>. QED  BY <1>7, <2>1 DEF ControllerCrash, TypeOK, ControllerPCs, Down, Watching
<1>8. CASE RestartController
  BY <1>8, ExistingCount DEF RestartController, TypeOK, ControllerPCs, Watching
<1>9. CASE ResetWatch
  BY <1>9, ExistingCount DEF ResetWatch, TypeOK
<1>. QED  BY <1>1, <1>2, <1>3, <1>4, <1>5, <1>6, <1>7, <1>8, <1>9
          DEF ControllerNext, OnBacklogChange

LEMMA AgeingType == TypeOK /\ Ageing => TypeOK'
<1> SUFFICES ASSUME TypeOK, NEW n \in Names, AgeOrphan(n) \/ Overrun(n) PROVE TypeOK'
  BY DEF Ageing
<1>1. CASE AgeOrphan(n)
  BY <1>1 DEF AgeOrphan, TypeOK
<1>2. CASE Overrun(n)
  <2>1. budget' \in [Kinds -> Nat]
    BY <1>2, SpendType DEF Overrun, Kinds, TypeOK
  <2>. QED  BY <1>2, <2>1 DEF Overrun, TypeOK
<1>. QED  BY <1>1, <1>2

LEMMA InitType == Init => TypeOK
  BY ParametersAssumption, NoneAssumption
  DEF Init, TypeOK, Phases, IdleCaller, Watching, ControllerPCs

LEMMA StutterType == TypeOK /\ UNCHANGED vars => TypeOK'
  BY DEF vars, TypeOK

\* The variables of Backlog keep their types, whatever fails.
THEOREM TypeCorrect == Spec => []TypeOK
<1>1. TypeOK /\ [Next]_vars => TypeOK'
  BY CallerType, PodType, ControllerType, AgeingType, StutterType DEF Next
<1>. QED  BY <1>1, InitType, PTL DEF Spec

-----------------------------------------------------------------------------
(* The inductive invariant: what a process remembers of the store is either   *)
(* what is stored or out of date in its version.                              *)

\* `read` was read under the name n: a stored object of that version equals it.
Faithful(n, read) ==
  /\ read.rv <= revision
  /\ IsCurrent(n, read) => items[n] = read

VersionsInv == \A n \in Names : items[n] # None => items[n].rv <= revision

\* A claim was made by a pod that has been started.
ClaimsInv ==
  \A n \in Names : items[n] # None /\ items[n].by # None => phase[items[n].by] # "none"

CallersInv ==
  \A c \in Creators : caller[c].pc = "patch" =>
    /\ Faithful(caller[c].name, caller[c].found)
    /\ caller[c].found.prio < caller[c].prio

PodsInv ==
  \A p \in Pods : phase[p] = "claim" =>
    /\ Faithful(job[p].name, job[p].item)
    /\ job[p].item.by = None

\* What the controller's list says of a claimed item.
ListedInv(claim) ==
  /\ Faithful(claim.name, claim.item)
  /\ claim.item.by \in Pods
  /\ phase[claim.item.by] # "none"
  /\ claim.late /\ IsCurrent(claim.name, claim.item) => claim.name \in overdue

\* The list of pods is younger than the list of items, so that a holder that it
\* does not contain is gone, and stays so.
ControllerInv ==
  /\ \A claim \in controller.todo :
       /\ ListedInv(claim)
       /\ controller.running # {} /\ claim.item.by \notin controller.running
            => phase[claim.item.by] = "gone"
  /\ controller.pc = "remove" =>
       /\ ListedInv(controller.cur)
       /\ phase[controller.cur.item.by] = "gone" \/ controller.cur.late

Inv == VersionsInv /\ ClaimsInv /\ CallersInv /\ PodsInv /\ ControllerInv

-----------------------------------------------------------------------------
(* What a step does to the store *)

\* A step rewrites an object with a new version, deletes it, or leaves it alone.
StoreStep ==
  /\ revision' >= revision
  /\ \A n \in Names :
       \/ items'[n] = items[n]
       \/ items'[n] = None
       \/ items'[n].rv > revision /\ items'[n].rv <= revision'

\* An item is created, or keeps its uid and its claim, or loses a stale claim, or is
\* claimed by a pod that then works on it.
ClaimStep ==
  \A n \in Names : items'[n] # None =>
    \/ items[n] = None /\ items'[n].by = None
    \/ /\ items[n] # None
       /\ items'[n].uid = items[n].uid
       /\ \/ items'[n].by = items[n].by
          \/ items'[n].by = None /\ (phase[items[n].by] = "gone" \/ n \in overdue)
          \/ /\ items[n].by = None
             /\ items'[n].by \in Pods
             /\ phase'[items'[n].by] = "work"

\* No step but a user's PUT lowers a priority.
PriorityStep ==
  \A n \in Names : SameItem(n) /\ items'[n].prio < items[n].prio
                     => budget'["userPut"] < budget["userPut"]

\* Pods are created once and do not come back from "gone".
PhaseStep ==
  \A p \in Pods : /\ phase[p] # "none" => phase'[p] # "none"
                  /\ phase[p] = "gone" => phase'[p] = "gone"

\* A claim stays overdue until it is replaced, removed or deleted.
OverdueStep ==
  \A n \in overdue : \/ n \in overdue'
                     \/ items'[n] = None
                     \/ items'[n].rv > revision

Effects == StoreStep /\ ClaimStep /\ PriorityStep /\ PhaseStep /\ OverdueStep

LEMMA StoreEffect ==
  ASSUME TypeOK, NEW n \in Names, NEW item \in Item, Store(n, item)
  PROVE  /\ revision \in Nat
         /\ revision' = revision + 1
         /\ items'[n] # None
         /\ items'[n].rv = revision + 1
         /\ items'[n].uid = item.uid
         /\ items'[n].prio = item.prio
         /\ items'[n].by = item.by
         /\ \A m \in Names \ {n} : items'[m] = items[m]
<1>1. items' = [items EXCEPT ![n] = [item EXCEPT !.rv = revision + 1]]
  BY DEF Store
<1>2. [item EXCEPT !.rv = revision + 1] \in Item
  BY DEF TypeOK, Item
<1>3. items'[n] = [item EXCEPT !.rv = revision + 1]
  BY <1>1 DEF TypeOK
<1>4. items'[n] # None
  BY <1>2, <1>3, NoneAssumption
<1>. QED  BY <1>1, <1>3, <1>4 DEF TypeOK, Store, Item

LEMMA DeleteEffect ==
  ASSUME TypeOK, NEW n \in Names, Delete(n)
  PROVE  /\ revision \in Nat
         /\ revision' \in {revision, revision + 1}
         /\ items'[n] = None
         /\ \A m \in Names \ {n} : items'[m] = items[m]
         /\ overdue' = overdue \ {n}
  BY DEF TypeOK, Delete

LEMMA SamePriority ==
  ASSUME TypeOK, NEW n \in Names, items[n] # None, items'[n] = items[n]
  PROVE  ~(items'[n].prio < items[n].prio)
<1>1. items[n] \in Item
  BY DEF TypeOK
<1>2. items[n].prio \in Priorities
  BY <1>1 DEF Item
<1>3. \A i \in Priorities : ~(i < i)
  BY ParametersAssumption
<1>. QED  BY <1>2, <1>3

\* A step that leaves the store alone, lets no claim expire early and moves no pod
\* back has the effects above.
LEMMA QuietEffect ==
  ASSUME TypeOK, UNCHANGED <<revision, items>>, overdue \subseteq overdue', PhaseStep
  PROVE  Effects
<1>1. StoreStep
  BY DEF TypeOK, StoreStep
<1>2. ClaimStep
  BY DEF ClaimStep
<1>3. OverdueStep
  BY DEF OverdueStep
<1>4. PriorityStep
  BY SamePriority DEF PriorityStep, SameItem
<1>. QED  BY <1>1, <1>2, <1>3, <1>4 DEF Effects

\* A write of one item, from what it does to that item.
LEMMA WriteEffect ==
  ASSUME TypeOK, NEW n \in Names, NEW item \in Item, Store(n, item), PhaseStep,
         overdue \subseteq overdue' \union {n},
         \/ items[n] = None /\ item.by = None
         \/ /\ items[n] # None
            /\ item.uid = items[n].uid
            /\ \/ item.by = items[n].by
               \/ item.by = None /\ (phase[items[n].by] = "gone" \/ n \in overdue)
               \/ items[n].by = None /\ item.by \in Pods /\ phase'[item.by] = "work"
            /\ item.prio < items[n].prio => budget'["userPut"] < budget["userPut"]
  PROVE  Effects
<1> USE StoreEffect
<1>1. StoreStep
  BY DEF StoreStep
<1>2. ClaimStep
  <2> SUFFICES ASSUME NEW m \in Names, m # n, items'[m] # None
               PROVE  items[m] # None /\ items'[m].uid = items[m].uid /\ items'[m].by = items[m].by
    BY DEF ClaimStep
  <2>. QED  OBVIOUS
<1>3. PriorityStep
  <2> SUFFICES ASSUME NEW m \in Names, m # n, SameItem(m)
               PROVE  ~(items'[m].prio < items[m].prio)
    BY DEF PriorityStep, SameItem
  <2>1. items'[m] = items[m]
    OBVIOUS
  <2>. QED  BY <2>1, SamePriority DEF SameItem
<1>4. OverdueStep
  BY DEF OverdueStep
<1>. QED  BY <1>1, <1>2, <1>3, <1>4 DEF Effects

\* A delete of one item.
LEMMA RemovalEffect ==
  ASSUME TypeOK, NEW n \in Names, Delete(n), PhaseStep
  PROVE  Effects
<1> USE DeleteEffect
<1>1. StoreStep /\ OverdueStep
  BY DEF StoreStep, OverdueStep
<1>2. ClaimStep
  BY DEF ClaimStep
<1>3. PriorityStep
  <2> SUFFICES ASSUME NEW m \in Names, m # n, SameItem(m)
               PROVE  ~(items'[m].prio < items[m].prio)
    BY DEF PriorityStep, SameItem
  <2>1. items'[m] = items[m]
    OBVIOUS
  <2>. QED  BY <2>1, SamePriority DEF SameItem
<1>. QED  BY <1>1, <1>2, <1>3 DEF Effects

LEMMA CallerEffects == TypeOK /\ Inv /\ CallerNext => Effects
<1> SUFFICES ASSUME TypeOK, Inv, CallerNext PROVE Effects
  OBVIOUS
<1> USE NoneAssumption
<1>1. ASSUME NEW c \in Creators, NEW n \in Names, NEW prio \in Priorities, Create(c, n, prio)
      PROVE  Effects
  <2>1. PhaseStep
    BY <1>1 DEF Create, PhaseStep
  <2>2. CASE items[n] = None
    <3>1. [uid |-> revision + 1, rv |-> 0, prio |-> prio, by |-> None] \in Item
      BY DEF TypeOK, Item
    <3>. QED  BY <1>1, <2>1, <2>2, <3>1, WriteEffect DEF Create
  <2>3. CASE items[n] # None
    BY <1>1, <2>1, <2>3, QuietEffect DEF Create
  <2>. QED  BY <2>2, <2>3
<1>2. ASSUME NEW c \in Creators, FindItem(c) PROVE Effects
  BY <1>2, QuietEffect DEF FindItem, PhaseStep
<1>3. ASSUME NEW c \in Creators, PatchPriority(c)
      PROVE  Effects
  <2> DEFINE n == caller[c].name
             body == [caller[c].found EXCEPT !.prio = caller[c].prio]
  <2>1. PhaseStep
    BY <1>3 DEF PatchPriority, PhaseStep
  <2>2. CASE IsCurrent(n, caller[c].found)
    <3>1. caller[c] \in Patching
      BY <1>3 DEF PatchPriority, TypeOK, IdleCaller, Getting
    <3>2. n \in Names /\ body \in Item
      BY <3>1 DEF Patching, Item
    <3>3. items[n] # None /\ items[n] = caller[c].found /\ items[n].prio < caller[c].prio
      BY <1>3, <2>2 DEF PatchPriority, Inv, CallersInv, Faithful, IsCurrent
    <3>4. body.uid = items[n].uid /\ body.by = items[n].by /\ body.prio = caller[c].prio
      BY <3>1, <3>3 DEF Patching, Item
    <3>5. ~(body.prio < items[n].prio)
      <4>1. \A i, j \in Priorities : i < j => ~(j < i)
        BY ParametersAssumption
      <4>2. items[n].prio \in Priorities /\ caller[c].prio \in Priorities
        BY <3>1, <3>3 DEF Patching, Item
      <4>. QED  BY <3>3, <3>4, <4>1, <4>2
    <3>6. Store(n, body) /\ overdue' = overdue
      BY <1>3, <2>2 DEF PatchPriority
    <3>. QED  BY <2>1, <3>2, <3>3, <3>4, <3>5, <3>6, WriteEffect
  <2>3. CASE ~IsCurrent(n, caller[c].found)
    BY <1>3, <2>1, <2>3, QuietEffect DEF PatchPriority
  <2>. QED  BY <2>2, <2>3
<1>4. ASSUME NEW n \in Names, NEW prio \in Priorities, UserPut(n, prio)
      PROVE  Effects
  <2> DEFINE body == [items[n] EXCEPT !.prio = prio]
  <2>1. body \in Item /\ body.uid = items[n].uid /\ body.by = items[n].by
    BY <1>4 DEF UserPut, TypeOK, Item
  <2>2. budget'["userPut"] < budget["userPut"]
    BY <1>4 DEF UserPut, Spend, TypeOK, Kinds
  <2>3. PhaseStep
    BY <1>4 DEF UserPut, PhaseStep
  <2>. QED  BY <1>4, <2>1, <2>2, <2>3, WriteEffect DEF UserPut
<1>5. ASSUME NEW n \in Names, UserDelete(n) PROVE Effects
  BY <1>5, RemovalEffect DEF UserDelete, PhaseStep
<1>. QED  BY <1>1, <1>2, <1>3, <1>4, <1>5 DEF CallerNext

LEMMA PodEffects == TypeOK /\ Inv /\ PodNext => Effects
<1> SUFFICES ASSUME TypeOK, Inv, NEW p \in Pods,
                    Step(p) \/ Crash(p) \/ StartPod(p) \/ StopPod(p) \/ Kill(p)
             PROVE  Effects
  BY DEF PodNext
<1>1. CASE Claim(p)
  <2> DEFINE n == job[p].name
             body == [job[p].item EXCEPT !.by = p]
  <2>1. PhaseStep
    BY <1>1 DEF Claim, Move, Exited, PhaseStep, TypeOK
  <2>2. CASE IsCurrent(n, job[p].item)
    <3>1. job[p] \in Snapshot
      BY <1>1 DEF Claim, TypeOK
    <3>2. n \in Names /\ body \in Item
      BY <3>1 DEF Snapshot, Item
    <3>3. items[n] # None /\ items[n] = job[p].item /\ items[n].by = None
      BY <1>1, <2>2 DEF Claim, Inv, PodsInv, Faithful, IsCurrent
    <3>4. body.uid = items[n].uid /\ body.by = p /\ body.prio = items[n].prio
      BY <3>1, <3>3 DEF Snapshot, Item
    <3>5. ~(body.prio < items[n].prio)
      <4>1. \A i \in Priorities : ~(i < i)
        BY ParametersAssumption
      <4>. QED  BY <3>1, <3>3, <3>4, <4>1 DEF Snapshot, Item
    <3>6. Store(n, body) /\ overdue' = overdue \ {n} /\ phase'[p] = "work"
      BY <1>1, <2>2 DEF Claim, Move, TypeOK
    <3>. QED  BY <2>1, <3>2, <3>3, <3>4, <3>5, <3>6, WriteEffect
  <2>3. CASE ~IsCurrent(n, job[p].item)
    BY <1>1, <2>1, <2>3, QuietEffect DEF Claim
  <2>. QED  BY <2>2, <2>3
<1>2. CASE Finish(p)
  <2>1. PhaseStep
    BY <1>2 DEF Finish, Move, PhaseStep, TypeOK
  <2>2. job[p].name \in Names
    BY <1>2 DEF Finish, TypeOK, Snapshot
  <2>. QED  BY <1>2, <2>1, <2>2, RemovalEffect DEF Finish
<1>3. CASE Wake(p)
  BY <1>3, QuietEffect DEF Wake, Move, PhaseStep, TypeOK
<1>4. CASE ListAndPick(p)
  BY <1>4, QuietEffect DEF ListAndPick, Move, PhaseStep, TypeOK
<1>5. CASE Crash(p)
  BY <1>5, QuietEffect DEF Crash, Exited, Move, PhaseStep, TypeOK
<1>6. CASE Restart(p)
  BY <1>6, QuietEffect DEF Restart, Move, PhaseStep, TypeOK
<1>7. CASE StartPod(p)
  BY <1>7, QuietEffect DEF StartPod, Move, PhaseStep, TypeOK
<1>8. CASE StopPod(p)
  BY <1>8, QuietEffect DEF StopPod, Signal, Move, PhaseStep, TypeOK
<1>9. CASE Kill(p)
  BY <1>9, QuietEffect DEF Kill, Listed, Move, PhaseStep, TypeOK
<1>. QED  BY <1>1, <1>2, <1>3, <1>4, <1>5, <1>6, <1>7, <1>8, <1>9 DEF Step

LEMMA ControllerEffects == TypeOK /\ Inv /\ ControllerNext => Effects
<1> SUFFICES ASSUME TypeOK, Inv, ControllerNext PROVE Effects
  OBVIOUS
<1>1. PhaseStep
  BY DEF ControllerNext, OnBacklogChange, HandleEvent, CheckClaim, RemoveClaim,
         RetryRemoveClaim, CheckedAll, Scale, ControllerCrash, RestartController,
         ResetWatch, PhaseStep
<1>2. CASE RemoveClaim
  <2> DEFINE n == controller.cur.name
             body == [controller.cur.item EXCEPT !.by = None]
  <2>1. CASE IsCurrent(n, controller.cur.item)
    <3>1. controller.cur \in ListedClaim
      BY <1>2 DEF RemoveClaim, TypeOK
    <3>2. n \in Names /\ body \in Item
      BY <3>1 DEF ListedClaim, Item
    <3>3. /\ items[n] # None /\ items[n] = controller.cur.item
          /\ phase[items[n].by] = "gone" \/ n \in overdue
      BY <1>2, <2>1 DEF RemoveClaim, Inv, ControllerInv, ListedInv, Faithful, IsCurrent
    <3>4. body.uid = items[n].uid /\ body.by = None /\ body.prio = items[n].prio
      BY <3>1, <3>3 DEF ListedClaim, Item
    <3>5. ~(body.prio < items[n].prio)
      <4>1. \A i \in Priorities : ~(i < i)
        BY ParametersAssumption
      <4>. QED  BY <3>1, <3>3, <3>4, <4>1 DEF ListedClaim, Item
    <3>6. Store(n, body) /\ overdue' = overdue \ {n}
      BY <1>2, <2>1 DEF RemoveClaim
    <3>. QED  BY <1>1, <3>2, <3>3, <3>4, <3>5, <3>6, WriteEffect
  <2>2. CASE ~IsCurrent(n, controller.cur.item)
    BY <1>1, <1>2, <2>2, QuietEffect DEF RemoveClaim
  <2>. QED  BY <2>1, <2>2
<1>3. CASE ~RemoveClaim
  <2>1. UNCHANGED <<revision, items, overdue>>
    BY <1>3 DEF ControllerNext, OnBacklogChange, HandleEvent, CheckClaim,
            RetryRemoveClaim, CheckedAll, Scale, ControllerCrash, RestartController, ResetWatch
  <2>. QED  BY <1>1, <2>1, QuietEffect
<1>. QED  BY <1>2, <1>3

LEMMA AgeingEffects == TypeOK /\ Inv /\ Ageing => Effects
  BY QuietEffect DEF Ageing, AgeOrphan, Overrun, PhaseStep

LEMMA StutterEffects == TypeOK /\ UNCHANGED vars => Effects
  BY QuietEffect DEF vars, PhaseStep

LEMMA StepEffects == TypeOK /\ Inv /\ [Next]_vars => Effects
  BY CallerEffects, PodEffects, ControllerEffects, AgeingEffects, StutterEffects DEF Next

-----------------------------------------------------------------------------
(* Every step preserves the invariant *)

\* What was read stays faithful, whatever a step does to the store.
LEMMA FaithfulKept ==
  ASSUME TypeOK, TypeOK', StoreStep, NEW n \in Names, NEW read \in Item, Faithful(n, read)
  PROVE  /\ read.rv <= revision'
         /\ items'[n] # None /\ items'[n].rv = read.rv => items'[n] = read
<1>1. read.rv \in Nat /\ revision \in Nat /\ revision' \in Nat
  BY DEF Item, TypeOK
<1>2. read.rv <= revision'
  BY <1>1 DEF StoreStep, Faithful
<1>3. ASSUME items'[n] # None, items'[n].rv = read.rv
      PROVE  items'[n] = read
  BY <1>1, <1>3 DEF StoreStep, Faithful, IsCurrent
<1>. QED  BY <1>2, <1>3

LEMMA VersionsKept == TypeOK /\ TypeOK' /\ Inv /\ StoreStep => VersionsInv'
<1> SUFFICES ASSUME TypeOK, TypeOK', Inv, StoreStep, NEW n \in Names, items'[n] # None
             PROVE  items'[n].rv <= revision'
  BY DEF VersionsInv
<1>1. CASE items'[n] = items[n]
  <2>1. items[n].rv \in Nat /\ revision \in Nat /\ revision' \in Nat
    BY <1>1 DEF TypeOK, Item
  <2>. QED  BY <1>1, <2>1 DEF StoreStep, Inv, VersionsInv
<1>2. CASE items'[n] # items[n]
  BY <1>2 DEF StoreStep
<1>. QED  BY <1>1, <1>2

LEMMA ClaimsKept == Inv /\ TypeOK /\ Effects => ClaimsInv'
<1> SUFFICES ASSUME Inv, TypeOK, Effects, NEW n \in Names, items'[n] # None, items'[n].by # None
             PROVE  phase'[items'[n].by] # "none"
  BY DEF ClaimsInv
<1>1. CASE items[n] # None /\ items'[n].by = items[n].by
  <2>1. items[n].by \in Pods
    BY <1>1 DEF TypeOK, Item
  <2>. QED  BY <1>1, <2>1 DEF Inv, ClaimsInv, Effects, PhaseStep
<1>2. CASE phase'[items'[n].by] = "work"
  BY <1>2
<1>. QED  BY <1>1, <1>2 DEF Effects, ClaimStep

\* The snapshot of a caller is made by FindItem and otherwise kept.
LEMMA CallersKept == TypeOK /\ TypeOK' /\ Inv /\ Effects /\ [Next]_vars => CallersInv'
<1> SUFFICES ASSUME TypeOK, TypeOK', Inv, Effects, [Next]_vars,
                    NEW c \in Creators, caller'[c].pc = "patch"
             PROVE  /\ Faithful(caller[c].name, caller[c].found)'
                    /\ caller'[c].found.prio < caller'[c].prio
  BY DEF CallersInv
<1>1. CASE caller'[c] = caller[c]
  <2>1. caller[c] \in Patching
    BY <1>1 DEF TypeOK, IdleCaller, Getting
  <2>2. caller[c].name \in Names /\ caller[c].found \in Item
    BY <2>1 DEF Patching
  <2>3. Faithful(caller[c].name, caller[c].found)
    BY <1>1 DEF Inv, CallersInv
  <2>. QED  BY <1>1, <2>2, <2>3, FaithfulKept DEF Effects, Faithful, IsCurrent, Inv, CallersInv
<1>2. CASE caller'[c] # caller[c]
  <2>1. FindItem(c)
    <3>1. ASSUME NEW d \in Creators, NEW n \in Names, NEW prio \in Priorities,
                 Create(d, n, prio)
          PROVE  FALSE
      BY <1>2, <3>1 DEF Create, TypeOK
    <3>2. ASSUME NEW d \in Creators, PatchPriority(d)
          PROVE  FALSE
      BY <1>2, <3>2 DEF PatchPriority, TypeOK, IdleCaller
    <3>3. ASSUME NEW d \in Creators, FindItem(d)
          PROVE  d = c
      BY <1>2, <3>3 DEF FindItem, TypeOK
    <3>4. \/ \E d \in Creators, n \in Names, prio \in Priorities : Create(d, n, prio)
          \/ \E d \in Creators : FindItem(d) \/ PatchPriority(d)
      BY <1>2 DEF Next, vars, CallerNext, UserPut, UserDelete, Ageing, AgeOrphan, Overrun,
              PodNext, Step, Wake, ListAndPick, Claim, Finish, Crash, Restart, StartPod,
              StopPod, Kill, ControllerNext, OnBacklogChange, HandleEvent, CheckClaim,
              RemoveClaim, RetryRemoveClaim, CheckedAll, Scale, ControllerCrash,
              RestartController, ResetWatch
    <3>. QED  BY <3>1, <3>2, <3>3, <3>4
  <2>2. caller[c] \in Getting
    BY <2>1 DEF FindItem, TypeOK, IdleCaller, Patching
  <2>3. /\ items[caller[c].name] # None
        /\ items[caller[c].name].prio < caller[c].prio
        /\ caller'[c] = [caller[c] EXCEPT !.pc = "patch", !.found = items[caller[c].name]]
        /\ UNCHANGED <<revision, items>>
    BY <1>2, <2>1, <2>2 DEF FindItem, TypeOK, IdleCaller
  <2>4. /\ caller'[c].name = caller[c].name /\ caller'[c].prio = caller[c].prio
        /\ caller'[c].found = items[caller[c].name]
    BY <2>2, <2>3 DEF Getting
  <2>. QED  BY <2>2, <2>3, <2>4 DEF Faithful, IsCurrent, Inv, VersionsInv, Getting
<1>. QED  BY <1>1, <1>2

\* What a pod has picked is made by ListAndPick and otherwise kept.
LEMMA PodsKept == TypeOK /\ TypeOK' /\ Inv /\ Effects /\ [Next]_vars => PodsInv'
<1> SUFFICES ASSUME TypeOK, TypeOK', Inv, Effects, [Next]_vars,
                    NEW p \in Pods, phase'[p] = "claim"
             PROVE  Faithful(job[p].name, job[p].item)' /\ job'[p].item.by = None
  BY DEF PodsInv
<1>1. CASE phase[p] = "claim" /\ job'[p] = job[p]
  <2>1. job[p].name \in Names /\ job[p].item \in Item
    BY <1>1 DEF TypeOK, Snapshot
  <2>. QED  BY <1>1, <2>1, FaithfulKept DEF Effects, Faithful, IsCurrent, Inv, PodsInv
<1>2. ASSUME NEW n \in Open, UNCHANGED <<revision, items>>,
             job'[p] = [name |-> n, item |-> items[n]]
      PROVE  Faithful(job[p].name, job[p].item)' /\ job'[p].item.by = None
  <2>1. job'[p].name = n /\ job'[p].item = items[n]
    BY <1>2
  <2>. QED  BY <1>2, <2>1 DEF Faithful, IsCurrent, Inv, VersionsInv, Open, Existing
<1>3. ASSUME NEW q \in Pods, ListAndPick(q), phase[p] # "claim" \/ job'[p] # job[p]
      PROVE  \E n \in Open : /\ UNCHANGED <<revision, items>>
                             /\ job'[p] = [name |-> n, item |-> items[n]]
  BY <1>3 DEF ListAndPick, Move, TypeOK
<1>4. CASE UNCHANGED <<phase, job>>
  BY <1>1, <1>4
<1>5. ASSUME NEW q \in Pods, Step(q) \/ Crash(q) \/ StartPod(q) \/ StopPod(q) \/ Kill(q),
             ~ListAndPick(q)
      PROVE  phase[p] = "claim" /\ job'[p] = job[p]
  <2>1. CASE Wake(q)
    BY <2>1 DEF Wake, Move, TypeOK
  <2>2. CASE Claim(q)
    BY <2>2 DEF Claim, Move, Exited, TypeOK
  <2>3. CASE Finish(q)
    BY <2>3 DEF Finish, Move, TypeOK
  <2>4. CASE Restart(q)
    BY <2>4 DEF Restart, Move, TypeOK
  <2>5. CASE Crash(q)
    BY <2>5 DEF Crash, Move, Exited, TypeOK
  <2>6. CASE StartPod(q)
    BY <2>6 DEF StartPod, Move, TypeOK
  <2>7. CASE StopPod(q)
    BY <2>7 DEF StopPod, Signal, Move, TypeOK
  <2>8. CASE Kill(q)
    BY <2>8 DEF Kill, Move, TypeOK
  <2>. QED  BY <1>5, <2>1, <2>2, <2>3, <2>4, <2>5, <2>6, <2>7, <2>8 DEF Step
<1>6. PodNext \/ UNCHANGED <<phase, job>>
  BY DEF Next, vars, CallerNext, Create, FindItem, PatchPriority, UserPut, UserDelete,
         Ageing, AgeOrphan, Overrun, ControllerNext, OnBacklogChange, HandleEvent,
         CheckClaim, RemoveClaim, RetryRemoveClaim, CheckedAll, Scale, ControllerCrash,
         RestartController, ResetWatch
<1>. QED  BY <1>1, <1>2, <1>3, <1>4, <1>5, <1>6 DEF PodNext

\* What the controller's list says of a claim stays true.
LEMMA ListedKept ==
  ASSUME TypeOK, TypeOK', Effects, NEW claim \in ListedClaim, ListedInv(claim)
  PROVE  /\ claim.item.rv <= revision'
         /\ items'[claim.name] # None /\ items'[claim.name].rv = claim.item.rv
              => items'[claim.name] = claim.item
         /\ claim.item.by \in Pods
         /\ phase'[claim.item.by] # "none"
         /\ claim.late /\ items'[claim.name] # None /\ items'[claim.name].rv = claim.item.rv
              => claim.name \in overdue'
<1> DEFINE n == claim.name
           read == claim.item
<1>1. n \in Names /\ read \in Item
  BY DEF ListedClaim
<1>2. /\ read.rv <= revision'
      /\ items'[n] # None /\ items'[n].rv = read.rv => items'[n] = read
  BY <1>1, FaithfulKept DEF Effects, ListedInv
<1>3. read.by \in Pods /\ phase'[read.by] # "none"
  BY DEF ListedInv, Effects, PhaseStep
<1>4. ASSUME claim.late, items'[n] # None, items'[n].rv = read.rv
      PROVE  n \in overdue'
  <2>1. read.rv \in Nat /\ revision \in Nat /\ read.rv <= revision
    BY <1>1 DEF Item, TypeOK, ListedInv, Faithful
  <2>2. items'[n] = items[n]
    BY <1>1, <1>4, <2>1 DEF Effects, StoreStep
  <2>3. n \in overdue
    BY <1>4, <2>2 DEF ListedInv, IsCurrent
  <2>. QED  BY <1>4, <2>1, <2>3 DEF Effects, OverdueStep
<1>. QED  BY <1>2, <1>3, <1>4

\* The list is made by HandleEvent, and the pods are listed after the items.
LEMMA ControllerKept == TypeOK /\ TypeOK' /\ Inv /\ Effects /\ [Next]_vars => ControllerInv'
<1> SUFFICES ASSUME TypeOK, TypeOK', Inv, Effects, [Next]_vars PROVE ControllerInv'
  OBVIOUS
<1> USE NoneAssumption
<1>1. ASSUME NEW claim \in ListedClaim, ListedInv(claim)
      PROVE  ListedInv(claim)'
  BY <1>1, ListedKept DEF ListedInv, Faithful, IsCurrent
<1>2. \A p \in Pods : phase[p] = "gone" => phase'[p] = "gone"
  BY DEF Effects, PhaseStep
<1>3. \A claim \in controller.todo :
        /\ claim \in ListedClaim
        /\ ListedInv(claim)'
        /\ claim.item.by \in Pods
        /\ controller.running # {} /\ claim.item.by \notin controller.running
             => phase'[claim.item.by] = "gone"
  BY <1>1, <1>2 DEF Inv, ControllerInv, TypeOK, ListedInv
<1>4. CASE UNCHANGED controller
  <2>1. ASSUME controller.pc = "remove"
        PROVE  /\ ListedInv(controller.cur)'
               /\ phase'[controller.cur.item.by] = "gone" \/ controller.cur.late
    <3>1. controller.cur \in ListedClaim
      BY <2>1 DEF TypeOK
    <3>. QED  BY <1>2, <1>4, <2>1, <3>1, ListedKept
              DEF Inv, ControllerInv, ListedInv, Faithful, IsCurrent
  <2>. QED  BY <1>3, <1>4, <2>1 DEF ControllerInv
<1>5. CASE controller'.todo = {} /\ controller'.pc # "remove"
  BY <1>5 DEF ControllerInv
<1>6. CASE HandleEvent
  <2> DEFINE Entry(n) == [name |-> n, item |-> items[n], late |-> n \in overdue]
  <2>1. /\ controller'.pc = "check" /\ controller'.running = {}
        /\ controller'.todo = {Entry(n) : n \in Claimed}
        /\ UNCHANGED <<revision, items, overdue, phase>>
    BY <1>6 DEF HandleEvent
  <2>2. ASSUME NEW n \in Claimed
        PROVE  ListedInv(Entry(n))'
    <3>1. n \in Names /\ items[n] # None /\ items[n].by # None
      BY DEF Claimed, Existing
    <3>2. items[n].by \in Pods
      BY <3>1 DEF TypeOK, Item
    <3>3. items[n].rv <= revision /\ phase[items[n].by] # "none"
      BY <3>1 DEF Inv, VersionsInv, ClaimsInv
    <3>. QED  BY <2>1, <3>1, <3>2, <3>3 DEF ListedInv, Faithful, IsCurrent
  <2>. QED  BY <2>1, <2>2 DEF ControllerInv
<1>7. ASSUME NEW claim \in controller.todo, CheckClaim(claim)
      PROVE  ControllerInv'
  <2> DEFINE running == IF controller.running = {} THEN Listed ELSE controller.running
  <2>1. /\ controller'.running = running
        /\ controller'.todo = controller.todo \ {claim}
        /\ \/ ~IsStale(claim, running) /\ controller'.pc = "check"
           \/ /\ IsStale(claim, running)
              /\ controller'.pc = "remove" /\ controller'.cur = claim
        /\ phase' = phase
    BY <1>7 DEF CheckClaim, TypeOK
  <2>2. ASSUME NEW c \in controller.todo, running # {}, c.item.by \notin running
        PROVE  phase'[c.item.by] = "gone"
    <3>1. CASE controller.running = {}
      <4>1. phase[c.item.by] # "none" /\ c.item.by \in Pods
        BY DEF Inv, ControllerInv, ListedInv
      <4>. QED  BY <2>1, <2>2, <3>1, <4>1 DEF Listed
    <3>2. CASE controller.running # {}
      BY <1>3, <2>2, <3>2
    <3>. QED  BY <3>1, <3>2
  <2>3. ASSUME IsStale(claim, running)
        PROVE  phase'[claim.item.by] = "gone" \/ claim.late
    <3>1. CASE running = {}
      <4>1. phase[claim.item.by] # "none" /\ claim.item.by \in Pods
        BY DEF Inv, ControllerInv, ListedInv
      <4>. QED  BY <2>1, <3>1, <4>1 DEF Listed
    <3>2. CASE running # {}
      BY <2>2, <2>3, <3>2 DEF IsStale
    <3>. QED  BY <3>1, <3>2
  <2> HIDE DEF running
  <2>4. \A c \in controller'.todo :
          /\ ListedInv(c)'
          /\ controller'.running # {} /\ c.item.by \notin controller'.running
               => phase'[c.item.by] = "gone"
    BY <1>3, <2>1, <2>2
  <2>5. controller'.pc = "remove" =>
          /\ ListedInv(controller.cur)'
          /\ phase'[controller'.cur.item.by] = "gone" \/ controller'.cur.late
    <3>1. SUFFICES ASSUME controller'.pc = "remove"
                   PROVE  /\ ListedInv(controller.cur)'
                          /\ phase'[controller'.cur.item.by] = "gone" \/ controller'.cur.late
      OBVIOUS
    <3>2. IsStale(claim, running) /\ controller'.cur = claim
      BY <2>1, <3>1
    <3>3. claim \in ListedClaim /\ ListedInv(claim)
      BY DEF TypeOK, Inv, ControllerInv
    <3>. QED  BY <2>3, <3>2, <3>3, ListedKept DEF ListedInv, Faithful, IsCurrent
  <2>. QED  BY <2>4, <2>5 DEF ControllerInv
<1>8. ASSUME controller'.todo = controller.todo, controller'.running = controller.running,
             controller'.pc # "remove"
      PROVE  ControllerInv'
  BY <1>3, <1>8 DEF ControllerInv
<1>9. CASE OnBacklogChange
  <2>1. CASE RemoveClaim
    <3>1. CASE controller' = [controller EXCEPT !.pc = "check", !.cur = None]
      BY <1>8, <3>1 DEF TypeOK
    <3>2. CASE controller' = [controller EXCEPT !.pc = "retry"]
      BY <1>8, <3>2 DEF TypeOK
    <3>3. CASE controller' = Down
      BY <1>5, <3>3 DEF Down, Watching
    <3>. QED  BY <2>1, <3>1, <3>2, <3>3 DEF RemoveClaim
  <2>2. CASE RetryRemoveClaim
    BY <1>5, <2>2 DEF RetryRemoveClaim, Down, Watching
  <2>3. CASE CheckedAll
    BY <1>8, <2>3 DEF CheckedAll, TypeOK
  <2>4. CASE Scale
    BY <1>5, <2>4 DEF Scale, Down, Watching
  <2>. QED  BY <1>6, <1>7, <1>9, <2>1, <2>2, <2>3, <2>4 DEF OnBacklogChange
<1>10. CASE ControllerCrash \/ RestartController
  BY <1>5, <1>10 DEF ControllerCrash, RestartController, Down, Watching
<1>11. CASE ~(OnBacklogChange \/ ControllerCrash \/ RestartController)
  <2>1. UNCHANGED controller
    BY <1>11 DEF Next, vars, CallerNext, Create, FindItem, PatchPriority, UserPut, UserDelete,
           Ageing, AgeOrphan, Overrun, ControllerNext, ResetWatch, PodNext, Step, Wake,
           ListAndPick, Claim, Finish, Crash, Restart, StartPod, StopPod, Kill
  <2>. QED  BY <1>4, <2>1
<1>. QED  BY <1>9, <1>10, <1>11

LEMMA InitInv == Init => Inv
  BY DEF Init, Inv, VersionsInv, ClaimsInv, CallersInv, PodsInv, ControllerInv,
         IdleCaller, Watching

LEMMA NextInv == TypeOK /\ TypeOK' /\ Inv /\ [Next]_vars => Inv'
  BY StepEffects, VersionsKept, ClaimsKept, CallersKept, PodsKept, ControllerKept
  DEF Inv, Effects

\* Snapshots are faithful, and the controller's list of pods is never older than its
\* list of items.
THEOREM Invariant == Spec => []Inv
<1>. QED  BY TypeCorrect, InitInv, NextInv, PTL DEF Spec

\* A claim ends, other than with its item, only when its pod is gone or it is overdue.
THEOREM ReleasedOnlyIfStale == Spec => ClaimReleasedOnlyIfStale
<1>1. TypeOK /\ Inv /\ [Next]_vars =>
        [\A n \in Names :
           SameItem(n) /\ items[n].by # None /\ items'[n].by # items[n].by
             => /\ items'[n].by = None
                /\ phase[items[n].by] = "gone" \/ n \in overdue]_vars
  BY StepEffects DEF Effects, ClaimStep, SameItem
<1>. QED  BY <1>1, TypeCorrect, Invariant, PTL DEF Spec, ClaimReleasedOnlyIfStale

\* Only a user's PUT lowers the priority of an item.
THEOREM PriorityRaised == Spec => PriorityOnlyRaised
<1>1. TypeOK /\ Inv /\ [Next]_vars =>
        [\A n \in Names :
           SameItem(n) /\ items'[n].prio < items[n].prio
             => budget'["userPut"] < budget["userPut"]]_vars
  BY StepEffects DEF Effects, PriorityStep
<1>. QED  BY <1>1, TypeCorrect, Invariant, PTL DEF Spec, PriorityOnlyRaised

-----------------------------------------------------------------------------
(* Exclusive processing, if no processing takes longer than                   *)
(* remove_claim_after_minutes and no user deletes items                        *)

Exclusive == Budget["overrun"] = 0 /\ Budget["userDelete"] = 0

NothingInterferes == budget["overrun"] = 0 /\ budget["userDelete"] = 0

\* What a pod processes is held by it, and the controller has no reason to release it.
Holds(p) ==
  LET n == job[p].name IN
    /\ items[n] # None
    /\ items[n].uid = job[p].item.uid
    /\ items[n].by = p
    /\ n \notin overdue

HeldInv == \A p \in Pods : phase[p] = "work" => Holds(p)

\* Who deletes an item.
LEMMA Deleters ==
  ASSUME TypeOK, Inv, [Next]_vars, NEW n \in Names, items[n] # None, items'[n] = None
  PROVE  UserDelete(n) \/ \E q \in Pods : Finish(q) /\ job[q].name = n
<1> USE NoneAssumption
<1>1. ASSUME NEW m \in Names, NEW item \in Item, Store(m, item)
      PROVE  FALSE
  BY <1>1, StoreEffect
<1>2. ASSUME NEW m \in Names, Delete(m)
      PROVE  m = n
  BY <1>2, DeleteEffect
<1>3. CASE CallerNext
  <2>1. ASSUME NEW c \in Creators, NEW m \in Names, NEW prio \in Priorities,
               Create(c, m, prio)
        PROVE  FALSE
    <3>1. [uid |-> revision + 1, rv |-> 0, prio |-> prio, by |-> None] \in Item
      BY DEF TypeOK, Item
    <3>. QED  BY <1>1, <2>1, <3>1 DEF Create
  <2>2. ASSUME NEW c \in Creators, PatchPriority(c)
        PROVE  FALSE
    <3>1. caller[c] \in Patching
      BY <2>2 DEF PatchPriority, TypeOK, IdleCaller, Getting
    <3>2. /\ caller[c].name \in Names
          /\ [caller[c].found EXCEPT !.prio = caller[c].prio] \in Item
      BY <3>1 DEF Patching, Item
    <3>. QED  BY <1>1, <2>2, <3>2 DEF PatchPriority
  <2>3. ASSUME NEW m \in Names, NEW prio \in Priorities, UserPut(m, prio)
        PROVE  FALSE
    <3>1. [items[m] EXCEPT !.prio = prio] \in Item
      BY <2>3 DEF UserPut, TypeOK, Item
    <3>. QED  BY <1>1, <2>3, <3>1 DEF UserPut
  <2>4. ASSUME NEW m \in Names, UserDelete(m)
        PROVE  m = n
    BY <1>2, <2>4 DEF UserDelete
  <2>. QED  BY <1>3, <2>1, <2>2, <2>3, <2>4 DEF CallerNext, FindItem
<1>4. CASE PodNext
  <2>1. PICK q \in Pods : Step(q) \/ Crash(q) \/ StartPod(q) \/ StopPod(q) \/ Kill(q)
    BY <1>4 DEF PodNext
  <2>2. CASE Finish(q)
    <3>1. job[q].name \in Names
      BY <2>2 DEF Finish, TypeOK, Snapshot
    <3>. QED  BY <1>2, <2>2, <3>1 DEF Finish
  <2>3. CASE Claim(q)
    <3>1. job[q] \in Snapshot
      BY <2>3 DEF Claim, TypeOK
    <3>2. job[q].name \in Names /\ [job[q].item EXCEPT !.by = q] \in Item
      BY <3>1 DEF Snapshot, Item
    <3>. QED  BY <1>1, <2>3, <3>2 DEF Claim
  <2>. QED  BY <2>1, <2>2, <2>3 DEF Step, Wake, ListAndPick, Restart, Crash, StartPod,
              StopPod, Kill
<1>5. CASE RemoveClaim
  <2>1. controller.cur \in ListedClaim
    BY <1>5 DEF RemoveClaim, TypeOK
  <2>2. /\ controller.cur.name \in Names
        /\ [controller.cur.item EXCEPT !.by = None] \in Item
    BY <2>1 DEF ListedClaim, Item
  <2>. QED  BY <1>1, <1>5, <2>2 DEF RemoveClaim
<1>. QED  BY <1>3, <1>4, <1>5 DEF Next, vars, Ageing, AgeOrphan, Overrun, ControllerNext,
            OnBacklogChange, HandleEvent, CheckClaim, RetryRemoveClaim, CheckedAll, Scale,
            ControllerCrash, RestartController, ResetWatch

\* A pod starts to process an item by claiming it.
LEMMA WorkStarts ==
  ASSUME TypeOK, [Next]_vars, NEW p \in Pods, phase'[p] = "work"
  PROVE  \/ phase[p] = "work" /\ job'[p] = job[p]
         \/ Claim(p) /\ IsCurrent(job[p].name, job[p].item)
<1>1. CASE UNCHANGED <<phase, job>>
  BY <1>1
<1>2. ASSUME NEW q \in Pods, Step(q) \/ Crash(q) \/ StartPod(q) \/ StopPod(q) \/ Kill(q)
      PROVE  \/ phase[p] = "work" /\ job'[p] = job[p]
             \/ Claim(p) /\ IsCurrent(job[p].name, job[p].item)
  <2>1. CASE Wake(q)
    BY <2>1 DEF Wake, Move, TypeOK
  <2>2. CASE ListAndPick(q)
    BY <2>2 DEF ListAndPick, Move, TypeOK
  <2>3. CASE Claim(q)
    BY <2>3 DEF Claim, Move, Exited, TypeOK
  <2>4. CASE Finish(q)
    BY <2>4 DEF Finish, Move, TypeOK
  <2>5. CASE Restart(q)
    BY <2>5 DEF Restart, Move, TypeOK
  <2>6. CASE Crash(q)
    BY <2>6 DEF Crash, Move, Exited, TypeOK
  <2>7. CASE StartPod(q)
    BY <2>7 DEF StartPod, Move, TypeOK
  <2>8. CASE StopPod(q)
    BY <2>8 DEF StopPod, Signal, Move, TypeOK
  <2>9. CASE Kill(q)
    BY <2>9 DEF Kill, Move, TypeOK
  <2>. QED  BY <1>2, <2>1, <2>2, <2>3, <2>4, <2>5, <2>6, <2>7, <2>8, <2>9 DEF Step
<1>3. PodNext \/ UNCHANGED <<phase, job>>
  BY DEF Next, vars, CallerNext, Create, FindItem, PatchPriority, UserPut, UserDelete,
         Ageing, AgeOrphan, Overrun, ControllerNext, OnBacklogChange, HandleEvent,
         CheckClaim, RemoveClaim, RetryRemoveClaim, CheckedAll, Scale, ControllerCrash,
         RestartController, ResetWatch
<1>. QED  BY <1>1, <1>2, <1>3 DEF PodNext

\* Only the passing of time makes a claim overdue.
LEMMA Agers ==
  ASSUME TypeOK, [Next]_vars, NEW n \in Names, n \in overdue', n \notin overdue
  PROVE  AgeOrphan(n) \/ Overrun(n)
<1>1. ASSUME CallerNext PROVE FALSE
  BY <1>1 DEF CallerNext, Create, FindItem, PatchPriority, UserPut, UserDelete, Delete
<1>2. ASSUME PodNext PROVE FALSE
  <2>1. PICK p \in Pods : Step(p) \/ Crash(p) \/ StartPod(p) \/ StopPod(p) \/ Kill(p)
    BY <1>2 DEF PodNext
  <2>2. ~Step(p)
    BY DEF Step, Wake, ListAndPick, Claim, Finish, Delete, Restart
  <2>. QED  BY <2>1, <2>2 DEF Crash, StartPod, StopPod, Kill
<1>3. ASSUME ControllerNext PROVE FALSE
  <2>1. ~OnBacklogChange
    BY DEF OnBacklogChange, HandleEvent, CheckClaim, RemoveClaim, RetryRemoveClaim,
           CheckedAll, Scale
  <2>. QED  BY <1>3, <2>1 DEF ControllerNext, ControllerCrash, RestartController, ResetWatch
<1>4. ASSUME Ageing PROVE AgeOrphan(n) \/ Overrun(n)
  <2>1. PICK m \in Names : AgeOrphan(m) \/ Overrun(m)
    BY <1>4 DEF Ageing
  <2>2. m = n
    BY <2>1 DEF AgeOrphan, Overrun
  <2>. QED  BY <2>1, <2>2
<1>. QED  BY <1>1, <1>2, <1>3, <1>4 DEF Next, vars

LEMMA HeldKept ==
  ASSUME TypeOK, TypeOK', Inv, HeldInv, NothingInterferes, [Next]_vars
  PROVE  HeldInv'
<1> SUFFICES ASSUME NEW p \in Pods, phase'[p] = "work" PROVE Holds(p)'
  BY DEF HeldInv
<1> USE NoneAssumption
<1>0. Effects
  BY StepEffects
<1>1. CASE phase[p] = "work" /\ job'[p] = job[p]
  <2> DEFINE n == job[p].name
  <2>1. /\ n \in Names
        /\ items[n] # None
        /\ items[n].uid = job[p].item.uid
        /\ items[n].by = p
        /\ n \notin overdue
    BY <1>1 DEF HeldInv, Holds, TypeOK, Snapshot
  <2>2. items'[n] # None
    <3>1. ASSUME NEW q \in Pods, Finish(q), job[q].name = n
          PROVE  FALSE
      <4>1. items[n].by = q
        BY <3>1 DEF Finish, HeldInv, Holds
      <4>. QED  BY <2>1, <3>1, <4>1 DEF Finish, Move, TypeOK
    <3>2. ~UserDelete(n)
      BY DEF UserDelete, Spend, NothingInterferes
    <3>. QED  BY <2>1, <3>1, <3>2, Deleters
  <2>3. items'[n].uid = items[n].uid /\ items'[n].by = p
    <3>1. phase[p] # "gone" /\ p # None
      BY <1>1
    <3>. QED  BY <1>0, <2>1, <2>2, <3>1 DEF Effects, ClaimStep
  <2>4. n \notin overdue'
    <3>1. ~AgeOrphan(n)
      BY <1>1, <2>1 DEF AgeOrphan, Works
    <3>2. ~Overrun(n)
      BY DEF Overrun, Spend, NothingInterferes
    <3>. QED  BY <2>1, <3>1, <3>2, Agers
  <2>. QED  BY <1>1, <2>1, <2>2, <2>3, <2>4 DEF Holds
<1>2. CASE Claim(p) /\ IsCurrent(job[p].name, job[p].item)
  <2> DEFINE n == job[p].name
             body == [job[p].item EXCEPT !.by = p]
  <2>1. job[p] \in Snapshot
    BY <1>2 DEF Claim, TypeOK
  <2>2. n \in Names /\ body \in Item /\ body.uid = job[p].item.uid /\ body.by = p
    BY <2>1 DEF Snapshot, Item
  <2>3. Store(n, body) /\ overdue' = overdue \ {n} /\ job' = job
    BY <1>2 DEF Claim
  <2>. QED  BY <2>2, <2>3, StoreEffect DEF Holds
<1>. QED  BY <1>1, <1>2, WorkStarts

LEMMA NothingInterferesKept ==
  ASSUME TypeOK, NothingInterferes, [Next]_vars
  PROVE  NothingInterferes'
<1>1. ASSUME NEW kind \in Kinds, Spend(kind)
      PROVE  NothingInterferes'
  BY <1>1 DEF Spend, NothingInterferes, Kinds, TypeOK
<1>2. CASE UNCHANGED budget
  BY <1>2 DEF NothingInterferes
<1>3. (\E kind \in Kinds : Spend(kind)) \/ UNCHANGED budget
  BY DEF Kinds, Next, vars, CallerNext, Create, FindItem, PatchPriority, UserPut, UserDelete,
         Ageing, AgeOrphan, Overrun, ControllerNext, OnBacklogChange, HandleEvent,
         CheckClaim, RemoveClaim, RetryRemoveClaim, CheckedAll, Scale, ControllerCrash,
         RestartController, ResetWatch, PodNext, Step, Wake, ListAndPick, Claim, Finish,
         Crash, Restart, StartPod, StopPod, Kill
<1>. QED  BY <1>1, <1>2, <1>3

\* If nothing interferes, every pod holds what it processes.
THEOREM HeldInvariant ==
  ASSUME Exclusive
  PROVE  Spec => [](HeldInv /\ NothingInterferes)
<1>1. Init => HeldInv /\ NothingInterferes
  BY DEF Init, HeldInv, Exclusive, NothingInterferes
<1>2. TypeOK /\ TypeOK' /\ Inv /\ HeldInv /\ NothingInterferes /\ [Next]_vars
        => HeldInv' /\ NothingInterferes'
  BY HeldKept, NothingInterferesKept
<1>. QED  BY <1>1, <1>2, TypeCorrect, Invariant, PTL DEF Spec

\* A pod deletes, when it is done, the item it claimed, and no other pod works on it.
THEOREM ExclusiveProcessing ==
  ASSUME Exclusive
  PROVE  Spec => []ClaimHeld
<1>1. HeldInv => ClaimHeld
  BY DEF HeldInv, Holds, ClaimHeld
<1>. QED  BY <1>1, HeldInvariant, PTL
=============================================================================
