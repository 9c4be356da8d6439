------------------------- MODULE ArtefactEnumerator -------------------------
(***************************************************************************)
(* The artefact enumerator (src/artefact_enumerator.py), a cron job that   *)
(* compares the artefacts that are referenced by the configured components *)
(* and by runtime artefacts with the compliance snapshots in the           *)
(* delivery-db, and creates backlog items for the extensions; and the      *)
(* extensions, as far as they answer to its items: scanners that store a   *)
(* scan info, and the issue replicator, whose issues follow the snapshots. *)
(*                                                                         *)
(* Timestamps are ages, in ticks, that stop at AgeLimit.  A run of the job *)
(* is short: no tick falls into it.                                        *)
(***************************************************************************)
EXTENDS Faults, FiniteSets

CONSTANTS
  Artefacts,
  Scanners,     \* the enabled extensions other than the issue replicator
  Serves,       \* Serves[s]: the artefacts that s supports and some finding config matches
  Replicator,   \* the issue replicator
  Interval,     \* Interval[s]: ticks between two items for an unchanged artefact
  Grace         \* compliance_snapshot_grace_period

Services == Scanners \union {Replicator}

\* A compliance snapshot, with the current state of each service.
States == [age : Nat, status : Nat \union {None}]
Snapshots == [active : BOOLEAN, age : Nat, of : [Services -> States \union {None}]]

ASSUME EnumeratorAssumption ==
  /\ None \notin Snapshots
  /\ IsFiniteSet(Scanners)
  /\ Replicator \notin Scanners
  /\ Serves \in [Scanners -> SUBSET Artefacts]
  /\ Interval \in [Services -> Nat \ {0}]
  /\ Grace \in Nat
  /\ {"abort", "overlap"} \subseteq DOMAIN Limit

\* BacklogPriorities, as far as the enumerator uses them.
NONE == 0
LOW == 1
HIGH == 4

VARIABLES
  present,     \* artefacts that components or runtime artefacts refer to
  snapshots,   \* snapshots[a]: the compliance snapshot in the delivery-db, or None
  scans,       \* scans[a]: scanners whose scan info of a is in the delivery-db
  items,       \* items[a][s]: priority of the backlog item, NONE if there is none
  working,     \* working[a][s]: is the item being processed, and what was seen
  open,        \* artefacts that the issue replicator last saw in the BoM
  round        \* locals of enumerate_artefacts

enumeratorVars == <<present, snapshots, scans, items, working, open, round, faults>>

AgeLimit ==
  LET ages == {Grace} \union {Interval[s] : s \in Services}
  IN CHOOSE n \in ages : \A m \in ages : m <= n

\* The states of a snapshot: the one without service, and the current one of each
\* service (older ones are purged).
Older(age) == IF age < AgeLimit THEN age + 1 ELSE age
Aged(state) == IF state = None THEN None ELSE [state EXCEPT !.age = Older(@)]

Idle == [pc |-> "idle", found |-> {}, todo |-> {}, read |-> [a \in Artefacts |-> None],
         updated |-> [a \in Artefacts |-> None], due |-> {}]

EnumeratorInit ==
  /\ FaultsInit
  /\ present = {}
  /\ snapshots = [a \in Artefacts |-> None]
  /\ scans = [a \in Artefacts |-> {}]
  /\ items = [a \in Artefacts |-> [s \in Services |-> NONE]]
  /\ working = [a \in Artefacts |-> [s \in Services |-> None]]
  /\ open = {}
  /\ round = Idle

-----------------------------------------------------------------------------
(* Snapshots *)

Created == [active |-> TRUE, age |-> 0, of |-> [s \in Services |-> None]]

\* _create_or_update_compliance_snapshot_of_artefact
Activated(snapshot) ==
  IF snapshot = None THEN Created
  ELSE IF snapshot.active THEN snapshot
  ELSE [snapshot EXCEPT !.active = TRUE, !.age = 0]

\* _calculate_backlog_item_priority
Priority(snapshot, s, status) ==
  LET state == snapshot.of[s] IN
  IF state = None \/ (status # None /\ status # state.status) THEN HIGH
  ELSE IF state.age >= Interval[s] THEN LOW ELSE NONE

\* The services that are asked for a: of the scanners, those that support it.
ServicesOf(a) == {Replicator} \union {s \in Scanners : a \in Serves[s]}

\* The scan count is the status of the replicator's state; the others have none.
StatusOf(s, count) == IF s = Replicator THEN count ELSE None

DueServices(snapshot, a, count) ==
  {s \in ServicesOf(a) : Priority(snapshot, s, StatusOf(s, count)) # NONE}

\* Mutant: the states of all services get the current timestamp.
RefreshedAlways(snapshot, a, count) ==
  [snapshot EXCEPT !.of = [s \in Services |-> [age |-> 0, status |-> StatusOf(s, count)]]]
\* update_state for every service that is due.
Refreshed(snapshot, a, count) ==
  [snapshot EXCEPT !.of =
     [s \in Services |->
        IF s \in DueServices(snapshot, a, count)
        THEN [age |-> 0, status |-> StatusOf(s, count)]
        ELSE snapshot.of[s]]]

-----------------------------------------------------------------------------
(* A run of the job *)

\* The artefacts are listed, then the snapshots, which only this job writes, are
\* queried.  A component whose look-up fails contributes no artefacts.
StartRun ==
  /\ round.pc = "idle"
  /\ \E lost \in SUBSET present :
       /\ IF lost = {} THEN UNCHANGED faults ELSE Spend("lookup")
       /\ round' = [round EXCEPT !.pc = "process", !.read = snapshots,
                            !.found = present \ lost, !.todo = present \ lost]
  /\ UNCHANGED <<present, snapshots, scans, items, working, open>>

\* _process_compliance_snapshot_of_artefact; the query of the scan infos may fail.
ProcessArtefact(a) ==
  /\ round.pc = "process"
  /\ a \in round.todo
  /\ \E count \in {Cardinality(scans[a]), None} :
       LET snapshot == Activated(round.read[a]) IN
       /\ IF count = None THEN Spend("scanQuery") ELSE UNCHANGED faults
       /\ round' = [round EXCEPT
            !.todo = @ \ {a},
            !.updated[a] = Refreshed(snapshot, a, count),
            !.due = @ \union
              {<<a, s, Priority(snapshot, s, StatusOf(s, count))>> :
                 s \in DueServices(snapshot, a, count)}]
  /\ UNCHANGED <<present, snapshots, scans, items, working, open>>

Deactivated(snapshot) ==
  IF snapshot.active THEN [snapshot EXCEPT !.active = FALSE, !.age = 0] ELSE snapshot

\* Mutant: a snapshot that has just become inactive is not reported.
ProcessInactiveSilently ==
  LET gone == {a \in Artefacts : round.read[a] # None /\ a \notin round.found}
      deletable == {a \in gone : Deactivated(round.read[a]).age >= Grace}
      marked == {a \in gone \ deletable : round.read[a].active} IN
  /\ round.pc = "process"
  /\ round.todo = {}
  /\ round' = [round EXCEPT !.pc = "update",
       !.updated = [a \in Artefacts |-> IF a \in marked THEN Deactivated(round.read[a]) ELSE @[a]]]
  /\ \/ snapshots' = [a \in Artefacts |-> IF a \in deletable THEN None ELSE snapshots[a]]
        /\ UNCHANGED faults
     \/ deletable # {} /\ Spend("delete") /\ UNCHANGED snapshots
  /\ UNCHANGED <<present, scans, items, working, open>>

\* _process_inactive_compliance_snapshots: those that were active until now are marked
\* and reported; those whose grace period is over are deleted, which may fail.
ProcessInactive ==
  LET gone == {a \in Artefacts : round.read[a] # None /\ a \notin round.found}
      deletable == {a \in gone : Deactivated(round.read[a]).age >= Grace}
      marked == {a \in gone \ deletable : round.read[a].active} IN
  /\ round.pc = "process"
  /\ round.todo = {}
  /\ round' = [round EXCEPT
       !.pc = "update",
       !.updated = [a \in Artefacts |-> IF a \in marked THEN Deactivated(round.read[a]) ELSE @[a]],
       !.due = @ \union {<<a, Replicator, HIGH>> : a \in marked}]
  /\ \/ snapshots' = [a \in Artefacts |-> IF a \in deletable THEN None ELSE snapshots[a]]
        /\ UNCHANGED faults
     \/ deletable # {} /\ Spend("delete") /\ UNCHANGED snapshots
  /\ UNCHANGED <<present, scans, items, working, open>>

\* update_metadata: an error is logged, and the items are created nevertheless.
UpdateSnapshots ==
  /\ round.pc = "update"
  /\ round' = [round EXCEPT !.pc = "create"]
  /\ \/ /\ snapshots' = [a \in Artefacts |->
             IF round.updated[a] # None THEN round.updated[a] ELSE snapshots[a]]
        /\ UNCHANGED faults
     \/ Spend("update") /\ UNCHANGED snapshots
  /\ UNCHANGED <<present, scans, items, working, open>>

\* create_backlog_item: an item that exists, even one that is being processed, is
\* raised to the priority and no other is created.
CreateItem(a, s, prio) ==
  /\ round.pc = "create"
  /\ <<a, s, prio>> \in round.due
  /\ items' = [items EXCEPT ![a][s] = IF @ < prio THEN prio ELSE @]
  /\ IF working[a][s] # None THEN Spend("overlap") ELSE UNCHANGED faults
  /\ round' = [round EXCEPT !.due = @ \ {<<a, s, prio>>}]
  /\ UNCHANGED <<present, snapshots, scans, working, open>>

EndRun ==
  /\ round.pc = "create"
  /\ round.due = {}
  /\ round' = Idle
  /\ UNCHANGED <<present, snapshots, scans, items, working, open, faults>>

\* The job is killed, or an exception ends it (that of create_backlog_item included).
Abort ==
  /\ round.pc # "idle"
  /\ Spend("abort")
  /\ round' = Idle
  /\ UNCHANGED <<present, snapshots, scans, items, working, open>>

-----------------------------------------------------------------------------
(* The environment: bills of material, extensions and time *)

Appear(a) ==
  /\ a \notin present
  /\ Spend("appear")
  /\ present' = present \union {a}
  /\ UNCHANGED <<snapshots, scans, items, working, open, round>>

Vanish(a) ==
  /\ a \in present
  /\ Spend("vanish")
  /\ present' = present \ {a}
  /\ UNCHANGED <<snapshots, scans, items, working, open, round>>

\* An extension claims the item and reads what it needs.
Begin(a, s) ==
  /\ items[a][s] # NONE
  /\ working[a][s] = None
  /\ working' = [working EXCEPT ![a][s] =
       [active |-> snapshots[a] # None /\ snapshots[a].active]]
  /\ UNCHANGED <<present, snapshots, scans, items, open, round, faults>>

\* The callback returns, and the item is deleted by its name.
End(a, s) ==
  /\ working[a][s] # None
  /\ working' = [working EXCEPT ![a][s] = None]
  /\ items' = [items EXCEPT ![a][s] = NONE]
  /\ IF s = Replicator
     THEN /\ open' = IF working[a][s].active THEN open \union {a} ELSE open \ {a}
          /\ UNCHANGED scans
     ELSE /\ scans' = [scans EXCEPT ![a] = @ \union {s}]
          /\ UNCHANGED open
  /\ UNCHANGED <<present, snapshots, round, faults>>

Tick ==
  /\ round.pc = "idle"
  /\ snapshots' = [a \in Artefacts |->
       IF snapshots[a] = None THEN None
       ELSE [Aged(snapshots[a]) EXCEPT !.of = [s \in Services |-> Aged(@[s])]]]
  /\ snapshots' # snapshots
  /\ UNCHANGED <<present, scans, items, working, open, round, faults>>

-----------------------------------------------------------------------------
ProcessAny == \E a \in Artefacts : ProcessArtefact(a)
CreateAny == \E a \in Artefacts, s \in Services, prio \in {LOW, HIGH} : CreateItem(a, s, prio)
Run == StartRun \/ ProcessAny \/ ProcessInactive \/ UpdateSnapshots
         \/ CreateAny \/ EndRun

EnumeratorNext ==
  \/ Run
  \/ Abort
  \/ Tick
  \/ \E a \in Artefacts : Appear(a) \/ Vanish(a)
  \/ \E a \in Artefacts, s \in Services : Begin(a, s) \/ End(a, s)

\* The cron job is started again and again and runs to its end unless it fails;
\* extensions process their items (Backlog!EveryItemLeaves); clocks advance.  An item
\* that is processed does not stay so: a run that waits for the overlap limit goes on.
EnumeratorFairness ==
  /\ WF_enumeratorVars(Run)
  /\ SF_enumeratorVars(Tick)
  /\ \A a \in Artefacts, s \in Services :
       /\ WF_enumeratorVars(Begin(a, s))
       /\ WF_enumeratorVars(End(a, s))

EnumeratorSpec ==
  EnumeratorInit /\ [][EnumeratorNext]_enumeratorVars /\ EnumeratorFairness

-----------------------------------------------------------------------------
(* Properties *)

Settled(a) ==
  /\ round.pc = "idle"
  /\ items[a][Replicator] = NONE
  /\ working[a][Replicator] = None

\* "for each artefact becoming inactive, a backlog item for the issue replicator will be
\* created" (enumerate_artefacts): once that item is processed, the issue replicator
\* has seen that the artefact is not in the BoM any more, and the snapshot may go.  Failing
\* queries, updates and deletes do no harm, as long as the job is not killed and no item was to
\* be created while one for the same artefact was being processed.  It takes a grace period:
\* without one, which the configuration allows, a snapshot is deleted instead of being reported.
InactiveIsReported ==
  Grace # 0 /\ Never("abort") /\ Never("overlap") =>
    \A a \in Artefacts :
      Settled(a) /\ (snapshots[a] = None \/ ~snapshots[a].active) => a \notin open

\* An artefact that stays referenced is scanned again and again, whatever fails: a
\* state that says that the items were created, after a run that was cut off before it
\* created them (enumerate_artefacts), delays the scan by no more than the interval.
RescannedForEver ==
  \A s \in Scanners : \A a \in Serves[s] :
    <>[](a \in present) => []<>(working[a][s] # None)

\* The issue replicator ends up knowing an artefact that stays referenced: an artefact
\* that seemed to be gone because its component could not be looked up comes back.
ActiveIsReported ==
  \A a \in Artefacts : <>[](a \in present) => <>[](a \in open)

\* Both: an artefact in use is scanned and reported, whatever fails.
ActiveIsServed == RescannedForEver /\ ActiveIsReported
=============================================================================
