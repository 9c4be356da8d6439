--------------------------- MODULE MCControllers ---------------------------
(***************************************************************************)
(* Instances of the controllers and cron jobs for TLC.  The parts do not   *)
(* interact here: `part` says which one a behaviour is about, and the      *)
(* variables of the others do not change.                                  *)
(***************************************************************************)
EXTENDS Backups, ArtefactEnumerator, IssueReplicator, Rescoring

VARIABLES
  part,
  source, entries, caller, cleaner, spentD, leftD,                             \* cache
  logged, file, garbled, ending, thread, collection, revision, troubles,       \* logs
  odgs, created, log, managed, secrets, op, seen, upsets                       \* operator

Limits(kinds, n) == [kind \in kinds |-> n]
With(limits, kind, n) == [limits EXCEPT ![kind] = n]

\* Backups: up to six versions, of which two are retained.
\* Enumerator: one artefact, one scanner at an interval of two ticks, the issue replicator at
\* one of one tick.
ServesAll == [s \in Scanners |-> Artefacts]
OneOrTwoTicks == [s \in {"s1", "issues"} |-> IF s = "s1" THEN 2 ELSE 1]
\* Issues: a group of two artefacts, two replicas; the second artefact is of two groups.
OneOrTwoGroups == [m \in Members |-> IF m = "m1" THEN {"g1"} ELSE {"g1", "g2"}]
\* Rescoring: three artefacts, two of which are versions whose findings are stored as one; three
\* sprints, the assignment to which is moved ahead by one.
P(component, version) ==
  [component |-> component, version |-> version, artefact |-> "a", release |-> 1]
TwoVersions == {P("c1", 1), P("c1", 2)}
ThreePlaces == TwoVersions \union {P("c2", 1)}
ByFourth == <<[value |-> 0, time |-> None], [value |-> 4, time |-> 3]>>
ThreeSprints == <<2, 3, 4>>
MinusOne == -1

\* The largest numbers of a kind; all others happen at most once.
Often == [backup |-> 6, fails |-> 3, findings |-> 2, rescore |-> 2, appear |-> 2, leave |-> 2,
          find |-> 2]
Once == {"vanish", "lookup", "scanQuery", "update", "delete", "abort", "overlap", "parallel",
         "repeat", "cleanupFails", "replicaFails", "upgrade", "toggle", "unscore"}
OnceOrOften ==
  [kind \in Once \union DOMAIN Often |-> IF kind \in Once THEN 1 ELSE Often[kind]]

\* How many of the MaxFaults faults a behaviour of a part contains.
Bounded(n) == left' >= MaxFaults - n

\* Three are possible if all of them are findings that come or go and artefacts that leave.
OnlyFindsAndLeaves == Bounded(3) /\ spent'["find"] + spent'["leave"] = 3

\* Rescorings are of one of the two components; the findings of the other one stay as they are.
OfOneComponent == \A i \in DOMAIN rescorings' : rescorings'[i].scope.component # "c2"

\* Cache: three calls of one function, the result of the third twice as large as the others.
Args(component, datasource) ==
  [args |-> <<>>, kwargs |-> [component |-> component, datasource |-> datasource]]
CacheLimit ==
  With(With(Limits({"call", "store", "mark", "change", "manager"}, 1), "call", 4), "mark", 2)
D == INSTANCE DbCache WITH
  Calls <- {Args("a", "b"), Args("b", "a"), Args("a", "a")}, Prefilled <- {Args("a", "b")},
  Octets <- [c \in {Args("a", "b"), Args("b", "a"), Args("a", "a")} |->
               IF c = Args("a", "a") THEN 2 ELSE 1],
  MaxCacheSize <- 3, MinPruning <- 1, MaxReads <- 1,
  Limit <- CacheLimit, MaxFaults <- 4, manager <- cleaner, spent <- spentD, left <- leftD

\* Logs: two pods that log twice, of which nothing is lost.
L == INSTANCE LogCollection WITH
  Pods <- {"p1", "p2"}, MaxRecords <- 2, MaxStored <- 9, MaxRetries <- 1,
  LogsWhileMoving <- FALSE, Exits <- FALSE,
  Budget <- Limits({"apiError", "kill", "delete"}, 0), budget <- troubles

\* Operator: one ODG, two extensions; one spec needs two secrets for the first of them, the
\* other one does not request the second.  Kubernetes closes a watch, a user annotates.
Both(s, x, y) == IF s = "both" THEN x ELSE y
O == INSTANCE OdgOperator WITH
  Odgs <- {"n1"}, Extensions <- {"e1", "e2"}, Specs <- {"both", "one"},
  Requested <- [s \in {"both", "one"} |-> Both(s, {"e1", "e2"}, {"e1"})],
  Indices <- 0..2,
  Chunks <- [s \in {"both", "one"} |->
               [e \in {"e1", "e2"} |-> IF s = "both" /\ e = "e1" THEN {1, 2} ELSE {0}]],
  Broken <- [s \in {"both", "one"} |-> {}], MaxGeneration <- 2,
  Budget <- With(With(Limits({"annotate", "timeout", "relist", "apiError", "kill"}, 0),
                      "annotate", 1), "timeout", 1),
  budget <- upsets

ASSUME InstanceAssumption == D!DbCacheAssumption /\ D!CallsAssumption

Init ==
  /\ part \in {"backups", "enumerator", "issues", "rescoring", "cache", "logs", "operator"}
  /\ BackupsInit
  /\ EnumeratorInit
  /\ part # "issues" => per_finding = TRUE
  /\ ReplicatorInit
  /\ RescoringInit
  /\ D!DbCacheInit
  /\ L!Init
  /\ O!Init

backupsState == <<backups, dumps, taken, versions, run>>
enumeratorState == <<present, snapshots, scans, items, working, open, round>>
issuesState == <<per_finding, in_bom, scanned, due, requests, leaving, issues, replica,
                 overtaken, reopened>>
rescoringState == <<findings, rescorings, replication, shown>>
cacheState == <<source, entries, caller, cleaner, spentD, leftD>>
logsState == <<logged, file, garbled, ending, thread, collection, revision, troubles>>
operatorState == <<odgs, created, log, managed, secrets, op, seen, upsets>>
others == <<cacheState, logsState, operatorState>>
extended == <<backupsState, enumeratorState, issuesState, rescoringState, faults>>

Next ==
  \/ /\ part = "backups" /\ BackupsNext
     /\ UNCHANGED <<part, enumeratorState, issuesState, rescoringState, others>>
  \/ /\ part = "enumerator" /\ EnumeratorNext /\ Bounded(2)
     /\ UNCHANGED <<part, backupsState, issuesState, rescoringState, others>>
  \/ /\ part = "issues" /\ ReplicatorNext /\ (Bounded(2) \/ OnlyFindsAndLeaves)
     /\ UNCHANGED <<part, backupsState, enumeratorState, rescoringState, others>>
  \/ /\ part = "rescoring" /\ RescoringNext /\ Bounded(3) /\ OfOneComponent
     /\ UNCHANGED <<part, backupsState, enumeratorState, issuesState, others>>
  \/ /\ part = "cache" /\ D!DbCacheNext
     /\ UNCHANGED <<part, extended, logsState, operatorState>>
  \/ /\ part = "logs" /\ L!Next
     /\ UNCHANGED <<part, extended, cacheState, operatorState>>
  \/ /\ part = "operator" /\ O!Next
     /\ UNCHANGED <<part, extended, cacheState, logsState>>

vars == <<part, extended, others>>

Spec == Init /\ [][Next]_vars

-----------------------------------------------------------------------------
(* The fairness of the parts, while the part is the one in use *)

\* Those of DbCache, LogCollection and OdgOperator; the others are defined with the parts.
CacheFairness == WF_cacheState(part = "cache" /\ D!Managing)
LogFairness ==
  \A p \in {"p1", "p2"}, kind \in {"loop", "exit"} :
    /\ WF_logsState(part = "logs" /\ L!StartRound(<<p, kind>>))
    /\ WF_logsState(part = "logs" /\ L!Step(<<p, kind>>))
OperatorFairness ==
  /\ WF_operatorState(part = "operator" /\ O!Reconcile)
  /\ WF_operatorState(part = "operator" /\ O!Restart)

-----------------------------------------------------------------------------
(* The properties of the parts *)

\* ArtefactEnumerator: an artefact in use is scanned and reported again and again.
UsedIsServed == (part = "enumerator" /\ EnumeratorFairness) => ActiveIsServed

\* IssueReplicator: no issue with open findings is closed, and in the end there are the right ones.
IssuesSettle ==
  /\ PendingStaysOpen
  /\ (part = "issues" /\ ReplicatorFairness) => IssuesFollowFindings /\ IssuesAreClosed

\* Rescoring: the issues follow the rescorings.
RescoredIsShown == (part = "rescoring" /\ RescoringFairness) => IssuesFollowRescorings

\* DbCache: results belong to calls, configured calls are cached, and the cache does not overflow.
CacheIsSound == (part = "cache" /\ CacheFairness) => ([]D!CacheIsSound /\ D!CacheShrinks)

\* LogCollection: no record is lost, and each one is stored in the end.
RecordsAreStored ==
  []L!NoRecordLost /\ ((part = "logs" /\ LogFairness) => L!EveryRecordStored)

\* OdgOperator: an ODG ends up installed as specified.
OdgSettles == (part = "operator" /\ OperatorFairness) => O!Settles
=============================================================================
