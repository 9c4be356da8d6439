---------------------------- MODULE OdgOperator ----------------------------
(***************************************************************************)
(* The ODG operator (src/odg_operator/__main__.py): one process that       *)
(* watches ODG resources and installs the extensions they request as       *)
(* managed resources, each of which names the secrets with its manifests.  *)
(* It may be killed between any two calls to the Kubernetes API.  Names    *)
(* are created at most once: a second ODG of the same name is not          *)
(* modelled.  ODGs carry the operator's finaliser from their creation on   *)
(* (nothing in the repository adds it).                                    *)
(***************************************************************************)
EXTENDS Integers, Sequences, FiniteSets

CONSTANTS
  None,           \* no object
  Odgs,           \* names of ODG resources
  Extensions,     \* known extension definitions (of one artefact each)
  Specs,          \* what an ODG may specify
  Requested,      \* Requested[s]: its extensions, required and dependencies included
  Indices,        \* suffixes of secret names; 0 for a name without suffix
  Chunks,         \* Chunks[s][e]: the secrets that hold the manifests of e
  Broken,         \* Broken[s]: extensions whose artefact handle_error reports
  MaxGeneration,  \* bound on the generation of a spec
  Budget          \* how often each of Kinds happens

Kinds == {"annotate", "timeout", "relist", "apiError", "kill"}

ASSUME OdgAssumption ==
  /\ None \notin Odgs \union Extensions \union Specs
  /\ Requested \in [Specs -> SUBSET Extensions]
  /\ Broken \in [Specs -> SUBSET Extensions]
  /\ Indices \subseteq Nat
  /\ Chunks \in [Specs -> [Extensions -> SUBSET Indices]]
  /\ MaxGeneration \in Nat
  /\ Budget \in [Kinds -> Nat]

VARIABLES
  odgs,      \* odgs[n]: the ODG resource, or None
  created,   \* the names created so far
  log,       \* the events since the resourceVersion that reconcile would return, or,
             \* as long as that is '', since the objects were listed
  managed,   \* managed[n][e]: the secretRefs of the managed resource, or None
  secrets,   \* secrets[n][e][i]: the spec whose manifests the secret holds, or None
  op,        \* the operator process
  seen,      \* last_seen_generation_for_resource_uid; 0 for no entry
  budget

vars == <<odgs, created, log, managed, secrets, op, seen, budget>>

States == {"none", "Installing", "Installed", "Deleting", "Unknown Error"}

Odg == [gen : Nat, spec : Specs, annotated : BOOLEAN, deleting : BOOLEAN,
        state : States]
Event == [name : Odgs, odg : Odg]

ASSUME NoneAssumption ==
  /\ None \notin Odg \union Event
  /\ \A refs \in SUBSET Indices : refs # None

\* Where the operator is: waiting for an event, about to remove the annotation or to
\* set the state, in the clean-up of a deleted ODG, within the try block of an
\* installation, or about to report its failure.
Cleaning == {"listAll", "clean", "finalise"}
Installing == {"write", "listUndesired", "prune"}
PCs == {"down", "watch", "annotated", "begin", "report", "failed"}
         \union Cleaning \union Installing

\* A process that waits for an event: whether reconcile has a resourceVersion, how many
\* events of the log it has received, and which of the listed objects it has not.
Idle(resumable, position, pending) ==
  [pc |-> "watch", resumable |-> resumable, position |-> position, pending |-> pending,
   event |-> None, todo |-> {}, ext |-> None, left |-> {}]
Down == [Idle(FALSE, 0, {}) EXCEPT !.pc = "down"]

Op == [pc : PCs, resumable : BOOLEAN, position : Nat, pending : SUBSET Event,
       event : Event \union {None}, todo : SUBSET Extensions,
       ext : Extensions \union {None}, left : SUBSET Indices]

TypeOK ==
  /\ odgs \in [Odgs -> Odg \union {None}]
  /\ created \subseteq Odgs
  /\ log \in Seq(Event)
  /\ managed \in [Odgs -> [Extensions -> (SUBSET Indices) \union {None}]]
  /\ secrets \in [Odgs -> [Extensions -> [Indices -> Specs \union {None}]]]
  /\ op \in Op
  /\ op.pc \notin {"down", "watch"} => op.event # None
  /\ seen \in [Odgs -> Nat]
  /\ budget \in [Kinds -> Nat]

Init ==
  /\ odgs = [n \in Odgs |-> None]
  /\ created = {}
  /\ log = <<>>
  /\ managed = [n \in Odgs |-> [e \in Extensions |-> None]]
  /\ secrets = [n \in Odgs |-> [e \in Extensions |-> [i \in Indices |-> None]]]
  /\ op = Idle(FALSE, 0, {})
  /\ seen = [n \in Odgs |-> 0]
  /\ budget = Budget

Spend(kind) ==
  /\ budget[kind] > 0
  /\ budget' = [budget EXCEPT ![kind] = @ - 1]

-----------------------------------------------------------------------------
(* The Kubernetes API, and its users *)

Existing == {n \in Odgs : odgs[n] # None}

\* A write of the ODG n, and the event of it.
Store(n, object) ==
  /\ odgs' = [odgs EXCEPT ![n] = object]
  /\ log' = Append(log, [name |-> n, odg |-> object])

Create(n, s) ==
  /\ n \notin created
  /\ created' = created \union {n}
  /\ Store(n, [gen |-> 1, spec |-> s, annotated |-> FALSE, deleting |-> FALSE,
               state |-> "none"])
  /\ UNCHANGED <<managed, secrets, op, seen, budget>>

ChangeSpec(n, s) ==
  /\ odgs[n] # None
  /\ ~odgs[n].deleting
  /\ odgs[n].gen < MaxGeneration
  /\ s # odgs[n].spec
  /\ Store(n, [odgs[n] EXCEPT !.gen = @ + 1, !.spec = s])
  /\ UNCHANGED <<created, managed, secrets, op, seen, budget>>

Annotate(n) ==
  /\ odgs[n] # None
  /\ ~odgs[n].deleting
  /\ Spend("annotate")
  /\ Store(n, [odgs[n] EXCEPT !.annotated = TRUE])
  /\ UNCHANGED <<created, managed, secrets, op, seen>>

\* The object stays until its finaliser is gone; setting its deletion timestamp
\* raises the generation.
Delete(n) ==
  /\ odgs[n] # None
  /\ ~odgs[n].deleting
  /\ Store(n, [odgs[n] EXCEPT !.gen = @ + 1, !.deleting = TRUE])
  /\ UNCHANGED <<created, managed, secrets, op, seen, budget>>

UserNext ==
  \E n \in Odgs :
    \/ \E s \in Specs : Create(n, s) \/ ChangeSpec(n, s)
    \/ Annotate(n)
    \/ Delete(n)

-----------------------------------------------------------------------------
(* The watch, and the steps of reconcile for one event *)

\* Mutant: a new watch starts with what happens from then on.
ResumeAtEnd == Len(log)
\* A watch that timed out is resumed at the resourceVersion that reconcile returned:
\* that of the last event it did not ignore, where the log starts.
ResumeAt == 0

\* A watch without resourceVersion delivers every object that exists as ADDED.
Relist ==
  /\ op' = Idle(FALSE, 0, {[name |-> n, odg |-> odgs[n]] : n \in Existing})
  /\ log' = <<>>

\* The watch ends after 300 seconds; objects that were listed have been sent by then.
Timeout ==
  /\ op.pc = "watch"
  /\ op.pending = {}
  /\ Spend("timeout")
  /\ IF op.resumable
     THEN op' = [op EXCEPT !.position = ResumeAt] /\ UNCHANGED log
     ELSE Relist
  /\ UNCHANGED <<odgs, created, managed, secrets, seen>>

\* What happens to an event: with the annotation it is always handled, without it
\* only if its generation is not the last one seen.
Handle(event) ==
  LET next == [op EXCEPT !.event = event] IN
  IF event.odg.annotated THEN [next EXCEPT !.pc = "annotated"]
  ELSE IF event.odg.gen = seen[event.name] THEN op
  ELSE [next EXCEPT !.pc = "begin"]

Deliver ==
  /\ op.pc = "watch"
  /\ \/ \E event \in op.pending :
          op' = [Handle(event) EXCEPT !.pending = @ \ {event}]
     \/ /\ op.pending = {}
        /\ op.position < Len(log)
        /\ op' = [Handle(log[op.position + 1]) EXCEPT !.position = @ + 1]
  /\ UNCHANGED <<odgs, created, log, managed, secrets, seen, budget>>

\* The patch that removes the annotation: 404 ends the process.
RemoveAnnotation ==
  LET n == op.event.name IN
  /\ op.pc = "annotated"
  /\ IF odgs[n] = None
     THEN op' = Down /\ UNCHANGED <<odgs, log>>
     ELSE /\ Store(n, [odgs[n] EXCEPT !.annotated = FALSE])
          /\ op' = [op EXCEPT !.pc = "begin"]
  /\ UNCHANGED <<created, managed, secrets, seen, budget>>

\* set_odg_state patches the status by name, whatever the object looks like by now.
NewState(n, state) == [odgs[n] EXCEPT !.state = state]

\* The generation and the version of the event are remembered before the first call
\* for it; 404 ends the process.  A listed event counts with the version of the list.
Begin ==
  LET n == op.event.name
      event == op.event.odg IN
  /\ op.pc = "begin"
  /\ seen' = [seen EXCEPT ![n] = event.gen]
  /\ IF odgs[n] = None
     THEN op' = Down /\ UNCHANGED <<odgs, log>>
     ELSE /\ odgs' = [odgs EXCEPT ![n] = NewState(n, IF event.deleting THEN "Deleting"
                                                     ELSE "Installing")]
          /\ log' = Append(SubSeq(log, op.position + 1, Len(log)),
                           [name |-> n, odg |-> odgs'[n]])
          /\ op' = [op EXCEPT !.resumable = TRUE,
                              !.position = 0,
                              !.pc = IF event.deleting THEN "listAll" ELSE "write",
                              !.todo = IF event.deleting THEN {}
                                       ELSE Requested[event.spec]]
  /\ UNCHANGED <<created, managed, secrets, budget>>

-----------------------------------------------------------------------------
(* create_or_update_odg *)

\* An extension whose chart cannot be used is skipped; for another one the managed
\* resource is written before the secrets it names.
WriteManaged(e) ==
  LET n == op.event.name
      s == op.event.odg.spec IN
  /\ op.pc = "write"
  /\ op.ext = None
  /\ IF e \in Broken[s]
     THEN op' = [op EXCEPT !.todo = @ \ {e}] /\ UNCHANGED managed
     ELSE /\ managed' = [managed EXCEPT ![n][e] = Chunks[s][e]]
          /\ op' = [op EXCEPT !.ext = e, !.left = Chunks[s][e]]
  /\ UNCHANGED <<odgs, created, log, secrets, seen, budget>>

WriteSecret(i) ==
  LET n == op.event.name IN
  /\ op.pc = "write"
  /\ op.ext # None
  /\ \A j \in op.left : i <= j
  /\ secrets' = [secrets EXCEPT ![n][op.ext][i] = op.event.odg.spec]
  /\ op' = [op EXCEPT !.left = @ \ {i}]
  /\ UNCHANGED <<odgs, created, log, managed, seen, budget>>

Written ==
  /\ op.pc = "write"
  /\ op.ext # None
  /\ op.left = {}
  /\ op' = [op EXCEPT !.ext = None, !.todo = @ \ {op.ext}]
  /\ UNCHANGED <<odgs, created, log, managed, secrets, seen, budget>>

AllWritten ==
  /\ op.pc = "write"
  /\ op.ext = None
  /\ op.todo = {}
  /\ op' = [op EXCEPT !.pc = "listUndesired"]
  /\ UNCHANGED <<odgs, created, log, managed, secrets, seen, budget>>

-----------------------------------------------------------------------------
(* Deletion of managed resources, of those no longer desired or of all *)

ManagedOf(n) == {e \in Extensions : managed[n][e] # None}

\* Mutant: what is no longer requested is left alone.
NothingUndesired(n, s) == {}
Undesired(n, s) == ManagedOf(n) \ Requested[s]

ListManaged ==
  LET n == op.event.name IN
  /\ \/ /\ op.pc = "listAll"
        /\ op' = [op EXCEPT !.pc = "clean", !.ext = None, !.todo = ManagedOf(n)]
     \/ /\ op.pc = "listUndesired"
        /\ op' = [op EXCEPT !.pc = "prune", !.ext = None,
                            !.todo = Undesired(n, op.event.odg.spec)]
  /\ UNCHANGED <<odgs, created, log, managed, secrets, seen, budget>>

\* An exception: within the try block of the installation it becomes an
\* ODGException, elsewhere it ends the process.
Failed == IF op.pc \in Installing THEN [op EXCEPT !.pc = "failed"] ELSE Down

\* The next managed resource of the list, with the secrets it names: nobody else deletes
\* managed resources, so it still exists.
Take(e) ==
  /\ op.pc \in {"clean", "prune"}
  /\ op.ext = None
  /\ managed[op.event.name][e] # None
  /\ op' = [op EXCEPT !.ext = e, !.left = managed[op.event.name][e]]
  /\ UNCHANGED <<odgs, created, log, managed, secrets, seen, budget>>

\* delete_managed_resource: the secrets it names first, and 404 is an error.
DeleteSecret(i) ==
  LET n == op.event.name
      e == op.ext IN
  /\ op.pc \in {"clean", "prune"}
  /\ op.ext # None
  /\ \A j \in op.left : i <= j
  /\ IF secrets[n][e][i] = None
     THEN op' = Failed /\ UNCHANGED secrets
     ELSE /\ secrets' = [secrets EXCEPT ![n][e][i] = None]
          /\ op' = [op EXCEPT !.left = @ \ {i}]
  /\ UNCHANGED <<odgs, created, log, managed, seen, budget>>

DeleteManaged ==
  LET n == op.event.name
      e == op.ext IN
  /\ op.pc \in {"clean", "prune"}
  /\ op.ext # None
  /\ op.left = {}
  /\ managed' = [managed EXCEPT ![n][e] = None]
  /\ op' = [op EXCEPT !.ext = None, !.todo = @ \ {e}]
  /\ UNCHANGED <<odgs, created, log, secrets, seen, budget>>

\* Mutant: the last managed resource of the list is forgotten.
AllDeletedButOne == Cardinality(op.todo) <= 1
AllDeleted == op.todo = {}

DeletedAll ==
  /\ op.pc \in {"clean", "prune"}
  /\ op.ext = None
  /\ AllDeleted
  /\ op' = [op EXCEPT !.pc = IF @ = "clean" THEN "finalise" ELSE "report"]
  /\ UNCHANGED <<odgs, created, log, managed, secrets, seen, budget>>

\* The next event.
Watching == Idle(op.resumable, op.position, op.pending)

\* The finaliser is removed, and with it the object, whose deletion timestamp the
\* event carried: names are not used twice.  404 ends the process.
RemoveFinaliser ==
  LET n == op.event.name IN
  /\ op.pc = "finalise"
  /\ IF odgs[n] = None
     THEN op' = Down /\ UNCHANGED <<odgs, log>>
     ELSE /\ odgs' = [odgs EXCEPT ![n] = None]
          /\ log' = Append(log, [name |-> n, odg |-> odgs[n]])
          /\ op' = Watching
  /\ UNCHANGED <<created, managed, secrets, seen, budget>>

\* The final state.  handle_error assigns a global of its own, so has_error is never
\* set and the state is Installed whenever nothing was raised.
Report ==
  LET n == op.event.name IN
  /\ op.pc \in {"report", "failed"}
  /\ IF odgs[n] = None
     THEN op' = Down /\ UNCHANGED <<odgs, log>>
     ELSE /\ Store(n, NewState(n, IF op.pc = "report" THEN "Installed"
                                 ELSE "Unknown Error"))
          /\ op' = Watching
  /\ UNCHANGED <<created, managed, secrets, seen, budget>>

-----------------------------------------------------------------------------
(* Failures *)

\* A call to the API fails.
ApiError ==
  /\ op.pc \notin {"down", "watch"}
  /\ Spend("apiError")
  /\ op' = Failed
  /\ UNCHANGED <<odgs, created, log, managed, secrets, seen>>

\* 410 or a ProtocolError of the watch, or a ProtocolError of a call outside of the
\* try block: main starts a new watch, and the generation counts as seen.
WatchEnds ==
  /\ op.pc \notin {"down"} \union Installing
  /\ Spend("relist")
  /\ Relist
  /\ UNCHANGED <<odgs, created, managed, secrets, seen>>

Kill ==
  /\ op.pc # "down"
  /\ Spend("kill")
  /\ op' = Down
  /\ UNCHANGED <<odgs, created, log, managed, secrets, seen>>

\* A new process: no generation has been seen.
Restart ==
  /\ op.pc = "down"
  /\ Relist
  /\ seen' = [n \in Odgs |-> 0]
  /\ UNCHANGED <<odgs, created, managed, secrets, budget>>

-----------------------------------------------------------------------------
Reconcile ==
  \/ Deliver \/ RemoveAnnotation \/ Begin
  \/ \E e \in op.todo : WriteManaged(e) \/ Take(e)
  \/ \E i \in op.left : WriteSecret(i) \/ DeleteSecret(i)
  \/ Written \/ AllWritten \/ ListManaged \/ DeleteManaged \/ DeletedAll
  \/ RemoveFinaliser \/ Report

Disturb == Timeout \/ ApiError \/ WatchEnds \/ Kill

Next == UserNext \/ Reconcile \/ Disturb \/ Restart

Spec == Init /\ [][Next]_vars

\* The process runs, and Kubernetes restarts it.
Fairness == WF_vars(Reconcile) /\ WF_vars(Restart)

FairSpec == Spec /\ Fairness

-----------------------------------------------------------------------------
(* Properties *)

\* The managed resources of n, and the secrets they name, are those of the spec s,
\* as far as its extensions can be installed.
Deployed(n, s) ==
  \A e \in Extensions :
    /\ e \in Requested[s] \ Broken[s] =>
         /\ managed[n][e] = Chunks[s][e]
         /\ \A i \in Chunks[s][e] : secrets[n][e][i] = s
    /\ e \notin Requested[s] => managed[n][e] = None

IsInstalled(n) == odgs[n] # None /\ odgs[n].state = "Installed"

\* An ODG in state Installed is deployed completely, with nothing of an earlier spec
\* left over, and with its present spec once the operator has seen its present
\* generation: whatever failed, was killed, replayed or relisted in between
\* (create_or_update_odg, reconcile).
InstalledMatches ==
  \A n \in Odgs : IsInstalled(n) =>
    \E s \in Specs : Deployed(n, s) /\ (seen[n] = odgs[n].gen => s = odgs[n].spec)

\* The finaliser goes last: an ODG that is gone has no managed resource left, wherever
\* the clean-up was interrupted (reconcile, delete_managed_resource).
GoneIsUninstalled == \A n \in Odgs : odgs[n] = None => ManagedOf(n) = {}

\* When users leave an ODG alone it is eventually, and for good, installed as
\* specified, across timeouts of the watch and requests to reconcile it.
Settles ==
  \A n \in Odgs, s \in Specs :
    <>[](odgs[n] # None /\ ~odgs[n].deleting /\ odgs[n].spec = s)
      => <>[](IsInstalled(n) /\ Deployed(n, s))

\* A deleted ODG eventually goes: the operator will "remove our finaliser to finally
\* delete" (odg_operator/__main__.py:717).
DeletionCompletes ==
  \A n \in Odgs : (odgs[n] # None /\ odgs[n].deleting) ~> (odgs[n] = None)

\* "an odg is considered successfully installed if the second return value is False"
\* (odg_operator/__main__.py:315): an ODG that is reported as Installed had no error.
ErrorIsReported ==
  [][\A n \in Odgs : op.pc = "report" /\ op'.pc = "watch" /\ IsInstalled(n)'
       /\ op.event.name = n
       => Broken[op.event.odg.spec] \intersect Requested[op.event.odg.spec] = {}]_vars
=============================================================================
