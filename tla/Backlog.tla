------------------------------ MODULE Backlog ------------------------------
(***************************************************************************)
(* The backlog of one extension service: BacklogItem custom resources in   *)
(* the Kubernetes API, the callers that create them                        *)
(* (src/k8s/backlog.py), the extension pods that claim and process them    *)
(* (src/odg/util.py), and the backlog controller that releases stale       *)
(* claims and scales the deployment of the extension                       *)
(* (src/backlog_controller.py).                                            *)
(*                                                                         *)
(* Every call to the Kubernetes API is one step; what runs between two     *)
(* calls is local to its process.  The API is optimistic: a replace, or a  *)
(* patch whose body carries a resourceVersion, succeeds only if the stored *)
(* object still has that version (409), and only if it exists (404).       *)
(***************************************************************************)
EXTENDS Integers, FiniteSets

CONSTANTS
  Names,            \* names of the items: one per artefact (a digest of its key)
  Pods,             \* names of the extension pods; a deployment never reuses one
  Creators,         \* processes that call create_backlog_item
  Priorities,       \* BacklogPriorities
  MaxReplicas,      \* max_replicas of the service
  ItemsPerReplica,  \* backlog_items_per_replica of the service
  Budget,           \* bound on how often each kind of disturbance happens
  WatchExpires,     \* may the controller's watch be reset (410, ProtocolError)?
  None              \* no object, no pod

\* The bounded happenings: "request" counts calls of create_backlog_item,
\* "podFailure" crashes, kills and evictions of pods, "overrun" items that are
\* processed for longer than remove_claim_after_minutes, "userPut" and
\* "userDelete" calls of the BacklogItems endpoint, "scaleError" failures of the
\* calls that scale the deployment, "controllerCrash" crashes of the controller
\* that its own code does not cause.
Kinds == {"request", "podFailure", "overrun", "userPut", "userDelete",
          "scaleError", "controllerCrash"}

ASSUME ParametersAssumption ==
  /\ Priorities \subseteq Nat
  /\ MaxReplicas \in Nat
  /\ ItemsPerReplica \in Nat \ {0}
  /\ Budget \in [Kinds -> Nat]
  /\ WatchExpires \in BOOLEAN

ASSUME FiniteAssumption == IsFiniteSet(Names) /\ IsFiniteSet(Pods)

\* A stored BacklogItem: its creation (the revision of the create call; it stands
\* for uid and spec.timestamp), its resourceVersion, spec.priority, and the pod in
\* its claimed-by annotation (None: no claim; label, claimed-by and claimed-at are
\* always written together).
Item == [uid : Nat, rv : Nat, prio : Priorities, by : Pods \union {None}]
Snapshot == [name : Names, item : Item]
\* A claimed item in the controller's list, and whether claimed-at was too long ago.
ListedClaim == [name : Names, item : Item, late : BOOLEAN]

ASSUME NoneAssumption ==
  None \notin Pods \union Names \union Priorities \union Item \union Snapshot
                   \union ListedClaim

VARIABLES
  revision,    \* the API server's revision: every write takes the next one
  items,       \* items[n]: the stored BacklogItem, or None
  overdue,     \* names of items whose claim is older than remove_claim_after_minutes
  phase,       \* phase[p]: where pod p is
  wants,       \* wants[p]: wants_to_terminate of pod p
  job,         \* job[p]: the item pod p has picked or is processing
  caller,      \* caller[c]: the call of create_backlog_item in progress
  controller,  \* locals of on_backlog_change
  pending,     \* number of ADDED / DELETED events the controller has yet to receive
  replicas,    \* spec.replicas of the extension's deployment
  budget       \* what is left of Budget

vars == <<revision, items, overdue, phase, wants, job, caller, controller,
          pending, replicas, budget>>

\* "none": not created; "ready": sleeping or starting, may exit at once
\* (ready_to_terminate); "list": looking for an open item; "claim": has picked one;
\* "work": in the callback; "down": container exited, will be restarted;
\* "gone": pod object deleted.
Phases == {"none", "ready", "list", "claim", "work", "down", "gone"}
ControllerPCs == {"watch", "check", "remove", "retry", "scale", "down"}

IdleCaller == [pc |-> "idle", name |-> None, prio |-> None, found |-> None]
\* A call that met an existing item; one that has read it.
Getting == [pc : {"get"}, name : Names, prio : Priorities, found : {None}]
Patching == [pc : {"patch"}, name : Names, prio : Priorities, found : Item]
Watching == [pc |-> "watch", todo |-> {}, cur |-> None, running |-> {}, count |-> 0]
Down == [Watching EXCEPT !.pc = "down"]

\* The values of the variables, and which of them a program counter implies.
TypeOK ==
  /\ revision \in Nat
  /\ items \in [Names -> Item \union {None}]
  /\ overdue \subseteq Names
  /\ phase \in [Pods -> Phases]
  /\ wants \in [Pods -> BOOLEAN]
  /\ job \in [Pods -> Snapshot \union {None}]
  /\ \A p \in Pods : phase[p] \in {"claim", "work"} => job[p] # None
  /\ caller \in [Creators -> {IdleCaller} \union Getting \union Patching]
  /\ controller \in [pc : ControllerPCs, todo : SUBSET ListedClaim,
                     cur : ListedClaim \union {None},
                     running : SUBSET Pods, count : Nat]
  /\ controller.pc \in {"remove", "retry"} => controller.cur # None
  /\ pending \in Nat
  /\ replicas \in Nat
  /\ budget \in [Kinds -> Nat]

Init ==
  /\ revision = 0
  /\ items = [n \in Names |-> None]
  /\ overdue = {}
  /\ phase = [p \in Pods |-> "none"]
  /\ wants = [p \in Pods |-> FALSE]
  /\ job = [p \in Pods |-> None]
  /\ caller = [c \in Creators |-> IdleCaller]
  /\ controller = Watching
  /\ pending = 0
  /\ replicas = 0
  /\ budget = Budget

Spend(kind) ==
  /\ budget[kind] > 0
  /\ budget' = [budget EXCEPT ![kind] = @ - 1]

-----------------------------------------------------------------------------
(* The Kubernetes API *)

Existing == {n \in Names : items[n] # None}

\* Mutant: the label selector of the claimed label is missing.
OpenWithoutSelector == Existing
Open == {n \in Existing : items[n].by = None}
Claimed == {n \in Existing : items[n].by # None}

\* A write of `item` under the name n: it gets the next revision.
Store(n, item) ==
  /\ revision' = revision + 1
  /\ items' = [items EXCEPT ![n] = [item EXCEPT !.rv = revision + 1]]

\* Mutant: a patch that names no version replaces whatever is stored.
IsCurrentByName(n, read) == items[n] # None
\* Does the stored object still have the version that was read?
IsCurrent(n, read) == items[n] # None /\ items[n].rv = read.rv

\* delete_custom_resource: by name, whatever is stored; 404 is no error.
Delete(n) ==
  /\ overdue' = overdue \ {n}
  /\ IF items[n] # None
     THEN /\ revision' = revision + 1
          /\ items' = [items EXCEPT ![n] = None]
          /\ pending' = pending + 1
     ELSE UNCHANGED <<revision, items, pending>>

-----------------------------------------------------------------------------
(* create_backlog_item: the artefact enumerator, the BacklogItems endpoint, a  *)
(* rescoring.  An exception ends the call (and the caller's loop over further  *)
(* items).                                                                     *)

\* _create_backlog_item: the create call; 409 leads to find_backlog_item.
Create(c, n, prio) ==
  /\ caller[c].pc = "idle"
  /\ Spend("request")
  /\ \/ /\ items[n] = None
        /\ Store(n, [uid |-> revision + 1, rv |-> 0, prio |-> prio, by |-> None])
        /\ pending' = pending + 1
        /\ UNCHANGED caller
     \/ /\ items[n] # None
        /\ caller' = [caller EXCEPT ![c] = [pc |-> "get", name |-> n, prio |-> prio,
                                            found |-> None]]
        /\ UNCHANGED <<revision, items, pending>>
  /\ UNCHANGED <<overdue, phase, wants, job, controller, replicas>>

\* find_backlog_item and the comparison of priorities: an item that is gone raises
\* a RuntimeError, one that is urgent enough ends the call with False.
FindItem(c) ==
  LET n == caller[c].name IN
  /\ caller[c].pc = "get"
  /\ caller' = [caller EXCEPT ![c] =
                  IF items[n] # None /\ items[n].prio < @.prio
                  THEN [@ EXCEPT !.pc = "patch", !.found = items[n]]
                  ELSE IdleCaller]
  /\ UNCHANGED <<revision, items, overdue, phase, wants, job, controller,
                 pending, replicas, budget>>

\* Mutant: the patch names no version, and sets nothing but the priority.
PatchPriorityUnconditional(c) ==
  LET n == caller[c].name IN
  /\ caller[c].pc = "patch"
  /\ IF items[n] # None
     THEN Store(n, [items[n] EXCEPT !.prio = caller[c].prio])
     ELSE UNCHANGED <<revision, items>>
  /\ caller' = [caller EXCEPT ![c] = IdleCaller]
  /\ UNCHANGED <<overdue, phase, wants, job, controller, pending, replicas, budget>>

\* The patch: its body is the whole object that was read, resourceVersion and claim
\* included.  404 and 409 are raised to the caller.
PatchPriority(c) ==
  LET n == caller[c].name
      body == [caller[c].found EXCEPT !.prio = caller[c].prio] IN
  /\ caller[c].pc = "patch"
  /\ IF IsCurrent(n, caller[c].found)
     THEN Store(n, body)
     ELSE UNCHANGED <<revision, items>>
  /\ caller' = [caller EXCEPT ![c] = IdleCaller]
  /\ UNCHANGED <<overdue, phase, wants, job, controller, pending, replicas, budget>>

\* update_backlog_crd (PUT of a user): patches the spec, without a resourceVersion.
UserPut(n, prio) ==
  /\ items[n] # None
  /\ items[n].prio # prio
  /\ Spend("userPut")
  /\ Store(n, [items[n] EXCEPT !.prio = prio])
  /\ UNCHANGED <<overdue, phase, wants, job, caller, controller, pending, replicas>>

\* DELETE of a user.
UserDelete(n) ==
  /\ items[n] # None
  /\ Spend("userDelete")
  /\ Delete(n)
  /\ UNCHANGED <<phase, wants, job, caller, controller, replicas>>

-----------------------------------------------------------------------------
(* process_backlog_items: the loop of an extension pod *)

Move(p, to) == phase' = [phase EXCEPT ![p] = to]

\* Where a pod ends up whose process exits: a pod that is being deleted is not
\* restarted.
Exited(p) == IF wants[p] THEN "gone" ELSE "down"

\* The next round of the loop, after sleeping or at the start of the process.
Wake(p) ==
  /\ phase[p] = "ready"
  /\ Move(p, IF wants[p] THEN "gone" ELSE "list")
  /\ UNCHANGED <<revision, items, overdue, wants, job, caller, controller,
                 pending, replicas, budget>>

\* The head of the sorted list: highest priority, then oldest.
IsHead(n) ==
  /\ n \in Open
  /\ \A m \in Open \ {n} :
        \/ items[m].prio < items[n].prio
        \/ items[m].prio = items[n].prio /\ items[m].uid > items[n].uid

\* get_backlog_crd_and_claim up to the replace: list the open items, pick the head.
ListAndPick(p) ==
  /\ phase[p] = "list"
  /\ \/ /\ Open = {}
        /\ Move(p, "ready")
        /\ UNCHANGED job
     \/ \E n \in Open :
          /\ IsHead(n)
          /\ Move(p, "claim")
          /\ job' = [job EXCEPT ![p] = [name |-> n, item |-> items[n]]]
  /\ UNCHANGED <<revision, items, overdue, wants, caller, controller,
                 pending, replicas, budget>>

\* The replace with the claim: a conflict makes it list again, whatever
\* wants_to_terminate says; 404 is raised and ends the process.
Claim(p) ==
  LET n == job[p].name IN
  /\ phase[p] = "claim"
  /\ IF IsCurrent(n, job[p].item)
     THEN /\ Store(n, [job[p].item EXCEPT !.by = p])
          /\ overdue' = overdue \ {n}
          /\ Move(p, "work")
          /\ UNCHANGED job
     ELSE /\ Move(p, IF items[n] = None THEN Exited(p) ELSE "list")
          /\ job' = [job EXCEPT ![p] = None]
          /\ UNCHANGED <<revision, items, overdue>>
  /\ UNCHANGED <<wants, caller, controller, pending, replicas, budget>>

\* The callback returned: the item is deleted by its name, and the loop goes on
\* unless a termination signal arrived meanwhile.
Finish(p) ==
  /\ phase[p] = "work"
  /\ Delete(job[p].name)
  /\ Move(p, IF wants[p] THEN "gone" ELSE "list")
  /\ job' = [job EXCEPT ![p] = None]
  /\ UNCHANGED <<wants, caller, controller, replicas, budget>>

\* The callback, or a call to the API, raises: the process exits and leaves its
\* claim behind.
Crash(p) ==
  /\ phase[p] \in {"list", "claim", "work"}
  /\ Spend("podFailure")
  /\ Move(p, Exited(p))
  /\ job' = [job EXCEPT ![p] = None]
  /\ UNCHANGED <<revision, items, overdue, wants, caller, controller, pending, replicas>>

\* The container is restarted in the same pod, hence with the same HOSTNAME.
Restart(p) ==
  /\ phase[p] = "down"
  /\ Move(p, "ready")
  /\ UNCHANGED <<revision, items, overdue, wants, job, caller, controller,
                 pending, replicas, budget>>

-----------------------------------------------------------------------------
(* The deployment of the extension, as Kubernetes runs it *)

\* Mutant: pods that are being terminated are not listed.
ListedRunning == {p \in Pods : phase[p] \notin {"none", "gone"} /\ ~wants[p]}
\* list_namespaced_pod: every pod object, that of a terminating pod included.
Listed == {p \in Pods : phase[p] \notin {"none", "gone"}}
Active == {p \in Listed : ~wants[p]}

StartPod(p) ==
  /\ phase[p] = "none"
  /\ Cardinality(Active) < replicas
  /\ Move(p, "ready")
  /\ UNCHANGED <<revision, items, overdue, wants, job, caller, controller,
                 pending, replicas, budget>>

\* handle_termination_signal: exit if ready_to_terminate, else remember the signal.
Signal(p) ==
  \/ /\ phase[p] \in {"ready", "down"}
     /\ Move(p, "gone")
     /\ UNCHANGED wants
  \/ /\ phase[p] \in {"list", "claim", "work"}
     /\ wants' = [wants EXCEPT ![p] = TRUE]
     /\ UNCHANGED phase

\* Scaling down, or the eviction of a pod that the deployment will replace.
StopPod(p) ==
  /\ p \in Active
  /\ \/ Cardinality(Active) > replicas /\ UNCHANGED budget
     \/ Spend("podFailure")
  /\ Signal(p)
  /\ UNCHANGED <<revision, items, overdue, job, caller, controller, pending, replicas>>

\* The pod is lost, or its grace period ends (or a second signal arrives) while it
\* still processes an item.
Kill(p) ==
  /\ p \in Listed
  /\ Spend("podFailure")
  /\ Move(p, "gone")
  /\ job' = [job EXCEPT ![p] = None]
  /\ UNCHANGED <<revision, items, overdue, wants, caller, controller, pending, replicas>>

-----------------------------------------------------------------------------
(* The backlog controller *)

\* An ADDED or DELETED event (MODIFIED ones are skipped) makes on_backlog_change
\* list the items of the service.
HandleEvent ==
  /\ controller.pc = "watch"
  /\ pending > 0
  /\ pending' = pending - 1
  /\ controller' =
       [pc |-> "check", cur |-> None, running |-> {}, count |-> Cardinality(Existing),
        todo |-> {[name |-> n, item |-> items[n], late |-> n \in overdue] : n \in Claimed}]
  /\ UNCHANGED <<revision, items, overdue, phase, wants, job, caller, replicas, budget>>

IsStale(claim, running) == claim.item.by \notin running \/ claim.late

\* One round of the loop over the claimed items.  The pods are listed at the first
\* round, and again as long as the list is empty: always after the items.
CheckClaim(claim) ==
  LET running == IF controller.running = {} THEN Listed ELSE controller.running IN
  /\ controller.pc = "check"
  /\ controller' =
       [controller EXCEPT
          !.running = running,
          !.todo = @ \ {claim},
          !.pc = IF IsStale(claim, running) THEN "remove" ELSE @,
          !.cur = IF IsStale(claim, running) THEN claim ELSE @]
  /\ UNCHANGED <<revision, items, overdue, phase, wants, job, caller, pending,
                 replicas, budget>>

\* remove_claim: 409 makes it sleep and call itself with the same dict, another
\* error is raised and ends the controller.
RemoveClaim ==
  LET n == controller.cur.name IN
  /\ controller.pc = "remove"
  /\ IF IsCurrent(n, controller.cur.item)
     THEN /\ Store(n, [controller.cur.item EXCEPT !.by = None])
          /\ overdue' = overdue \ {n}
          /\ controller' = [controller EXCEPT !.pc = "check", !.cur = None]
     ELSE /\ controller' = IF items[n] = None THEN Down
                           ELSE [controller EXCEPT !.pc = "retry"]
          /\ UNCHANGED <<revision, items, overdue>>
  /\ UNCHANGED <<phase, wants, job, caller, pending, replicas, budget>>

\* The retry deletes annotations from the dict that the first attempt already
\* deleted: KeyError, which nothing catches.
RetryRemoveClaim ==
  /\ controller.pc = "retry"
  /\ controller' = Down
  /\ UNCHANGED <<revision, items, overdue, phase, wants, job, caller, pending,
                 replicas, budget>>

Smaller(a, b) == IF a < b THEN a ELSE b

\* Mutant: the rounding up is off by one.
DesiredReplicasRounded == Smaller(controller.count \div ItemsPerReplica + 1, MaxReplicas)
\* Mutant: a replica is asked for only if there are more items than it is to process.
DesiredReplicasLate == Smaller(controller.count \div (ItemsPerReplica + 1), MaxReplicas)
DesiredReplicas ==
  Smaller((controller.count + ItemsPerReplica - 1) \div ItemsPerReplica, MaxReplicas)

\* scale_replicas: a failing read is only logged; conflicts of the replace (with
\* the status updates of the deployment) are retried, and the last one is raised.
Scale ==
  /\ controller.pc = "scale"
  /\ \/ /\ replicas' = DesiredReplicas
        /\ controller' = Watching
        /\ UNCHANGED budget
     \/ /\ Spend("scaleError")
        /\ controller' \in {Watching, Down}
        /\ UNCHANGED replicas
  /\ UNCHANGED <<revision, items, overdue, phase, wants, job, caller, pending>>

CheckedAll ==
  /\ controller.pc = "check"
  /\ controller.todo = {}
  /\ controller' = [controller EXCEPT !.pc = "scale"]
  /\ UNCHANGED <<revision, items, overdue, phase, wants, job, caller, pending,
                 replicas, budget>>

ControllerCrash ==
  /\ controller.pc # "down"
  /\ Spend("controllerCrash")
  /\ controller' = Down
  /\ UNCHANGED <<revision, items, overdue, phase, wants, job, caller, pending, replicas>>

\* A watch without resourceVersion: the items that exist are delivered as ADDED,
\* and what happened before is never delivered.
RestartController ==
  /\ controller.pc = "down"
  /\ controller' = Watching
  /\ pending' = Cardinality(Existing)
  /\ UNCHANGED <<revision, items, overdue, phase, wants, job, caller, replicas, budget>>

\* 410 (the resourceVersion was compacted) or a ProtocolError.
ResetWatch ==
  /\ WatchExpires
  /\ controller.pc = "watch"
  /\ pending' = Cardinality(Existing)
  /\ UNCHANGED <<revision, items, overdue, phase, wants, job, caller, controller,
                 replicas, budget>>

-----------------------------------------------------------------------------
(* Time: a claim becomes older than remove_claim_after_minutes *)

Works(p, n) == phase[p] = "work" /\ job[p].name = n

\* The claim of a pod that does not process the item (it crashed, or is gone).
AgeOrphan(n) ==
  /\ n \in Claimed \ overdue
  /\ ~Works(items[n].by, n)
  /\ overdue' = overdue \union {n}
  /\ UNCHANGED <<revision, items, phase, wants, job, caller, controller, pending,
                 replicas, budget>>

\* The processing of an item takes longer than the limit.
Overrun(n) ==
  /\ n \in Claimed \ overdue
  /\ Works(items[n].by, n)
  /\ Spend("overrun")
  /\ overdue' = overdue \union {n}
  /\ UNCHANGED <<revision, items, phase, wants, job, caller, controller, pending, replicas>>

-----------------------------------------------------------------------------
CallerNext ==
  \/ \E c \in Creators, n \in Names, prio \in Priorities : Create(c, n, prio)
  \/ \E c \in Creators : FindItem(c) \/ PatchPriority(c)
  \/ \E n \in Names, prio \in Priorities : UserPut(n, prio)
  \/ \E n \in Names : UserDelete(n)

Step(p) == Wake(p) \/ ListAndPick(p) \/ Claim(p) \/ Finish(p) \/ Restart(p)
PodNext == \E p \in Pods : Step(p) \/ Crash(p) \/ StartPod(p) \/ StopPod(p) \/ Kill(p)

OnBacklogChange ==
  \/ HandleEvent
  \/ \E claim \in controller.todo : CheckClaim(claim)
  \/ RemoveClaim \/ RetryRemoveClaim \/ CheckedAll \/ Scale
ControllerNext == OnBacklogChange \/ ControllerCrash \/ RestartController \/ ResetWatch

Ageing == \E n \in Names : AgeOrphan(n) \/ Overrun(n)

Next == CallerNext \/ PodNext \/ ControllerNext \/ Ageing

Spec == Init /\ [][Next]_vars

\* Processes run, Kubernetes restarts containers and reconciles the deployment,
\* clocks advance, and a watch is reset again and again (etcd compacts the
\* resourceVersion it holds).  No disturbance has to happen.
Fairness ==
  /\ \A c \in Creators : WF_vars(FindItem(c)) /\ WF_vars(PatchPriority(c))
  /\ \A p \in Pods : WF_vars(Step(p))
  /\ WF_vars(\E p \in Pods : StartPod(p))
  /\ WF_vars(\E p \in Pods : Cardinality(Active) > replicas /\ StopPod(p))
  /\ WF_vars(OnBacklogChange)
  /\ WF_vars(RestartController)
  /\ WF_vars(ResetWatch)
  /\ \A n \in Names : WF_vars(AgeOrphan(n))

FairSpec == Spec /\ Fairness

-----------------------------------------------------------------------------
(* Properties *)

\* What a pod processes is an item it still holds: same incarnation, claimed by it,
\* in the store.  Two pods therefore never process the same item, and the delete by
\* name at the end (odg/util.py) hits the item that was processed.  Holds as long as
\* no processing exceeds remove_claim_after_minutes and no user deletes items.
ClaimHeld ==
  \A p \in Pods : phase[p] = "work" =>
    LET n == job[p].name IN
      /\ items[n] # None
      /\ items[n].uid = job[p].item.uid
      /\ items[n].by = p

SameItem(n) == items[n] # None /\ items'[n] # None /\ items[n].uid = items'[n].uid

\* A claim ends, other than with its item, only by being removed, and only if its
\* pod object is gone or the claim is overdue.  Neither the priority patch of a
\* caller (create_backlog_item) nor a second pod (get_backlog_crd_and_claim) nor a
\* controller that decides on an old list (on_backlog_change) takes a claim away.
ClaimReleasedOnlyIfStale ==
  [][\A n \in Names :
       SameItem(n) /\ items[n].by # None /\ items'[n].by # items[n].by
         => /\ items'[n].by = None
            /\ phase[items[n].by] = "gone" \/ n \in overdue]_vars

\* The priority of an item is only ever raised, but for the PUT of a user: of two
\* callers that race to raise it (create_backlog_item), none undoes the other.
PriorityOnlyRaised ==
  [][\A n \in Names :
       SameItem(n) /\ items'[n].prio < items[n].prio
         => budget'["userPut"] < budget["userPut"]]_vars

\* Every item is eventually processed (or deleted), whatever pods crash or are
\* killed: an orphaned claim is found and released, and pods keep running as long
\* as there are items.
EveryItemLeaves == \A n \in Names : []<>(items[n] = None)

\* An extension that has no items left ends up without pods, in a run in which the
\* controller does not restart: the event of the last delete (backlog_controller.py)
\* makes it scale the deployment to 0.
IdleIsScaledDown ==
  [](controller.pc # "down") => (<>[](Existing = {}) => <>[](replicas = 0))

\* remove_claim "will try to remove claim again" after a conflict
\* (k8s/backlog.py:329): the attempt does not end the controller.
ConflictIsRetried == [][controller.pc = "retry" => controller'.pc # "down"]_vars

\* The queue of jobs that the pods work on, as the extensions see it.
Queue == INSTANCE WorkQueue WITH
  Jobs <- Names,
  Workers <- Pods,
  queued <- Existing,
  holder <- [n \in Names |-> IF items[n] = None THEN None ELSE items[n].by],
  busy <- [p \in Pods |-> IF phase[p] = "work" THEN job[p].name ELSE None]

\* The backlog implements the queue of WorkQueue (under the conditions of ClaimHeld).
ImplementsQueue == Queue!Spec
=============================================================================
