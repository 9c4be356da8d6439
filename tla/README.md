# A TLA+ model of the Open Delivery Gear

The Open Delivery Gear (ODG) consists of the delivery-service, an HTTP service
over one database (the delivery-db), of extensions that scan artefacts and
create issues, and of controllers that keep both running in Kubernetes.  This
directory holds a specification of each part that keeps state, instances of
them for TLC, and proofs for TLAPS.  `PROJECT.json` maps every definition to
the lines it models, and lists the runs, the mutants that show that each
property depends on the code, the findings, the hazards and the theorems.

    tlc -workers 2 -config MCBacklog_safety.cfg MCBacklog.tla
    tlapm BacklogProofs.tla

## 1. The system

| Part | State it keeps | Operations | What is hard |
|---|---|---|---|
| Backlog (`k8s/backlog.py`, `odg/util.py`, `backlog_controller.py`) | custom resources: artefact, priority, claim; the replicas of a deployment | create or raise an item, select, claim, process, delete; release stale claims, scale | pods that die with a claim, items deleted and created again under one name, conflicts, lost watch events |
| Log collection (`k8s/logging.py`) | one file per log level in each pod, one resource for all pods of a service | append, take the records of a file, add them to the resource, keep them after a conflict | two threads of a pod, several pods, kills in the middle |
| ODG operator (`odg_operator`) | managed resources and their secrets, the state shown in an ODG | install, remove what is outdated, delete, report | a watch that ends or replays, kills between two API calls |
| Artefact enumerator (`artefact_enumerator.py`) | compliance snapshots (a list of states for each artefact) | enumerate the bill of materials, create, activate, deactivate and delete snapshots, request scans | failed look-ups, updates that are lost while items are created, grace periods |
| Metadata (`metadata.py`, `compliance_summary.py`) | findings and scan infos with discovery dates | put, delete, query, search | two scanners at once, commits whose answer is lost, cached summaries |
| Delivery-db cache (`deliverydb/cache_async.py`, `cache_manager.py`) | results with two time stamps, a weight and a mark | cached functions and routes, mark for deletion, prune, prefill | results calculated before a mark and stored after it |
| Component look-ups (`components.py`, `lookups.py`) | caches of descriptors in memory and in the database, cached listings | look up, write back, list, greatest version, upgrade pull requests | several repositories, versions published meanwhile |
| Blobs and SBOMs (`sbom_generator.py`, `blobstore/blob.py`, `cache_manager.py`) | blobs, scan infos that name them | upload, register, delete the old blob, clean up | two stores without a common transaction |
| Users (`middleware/auth.py`, `access_manager_extension.py`) | refresh tokens and roles of a user | log in, refresh, log out, update roles | concurrent read-modify-write of one row |
| Access of extensions (`odg_client`, `secret_mgmt`) | the token of a client, the signing keys of each pod | authenticate, request, retry, reload keys | keys rotated between issue and use of a token |
| Issue replicator (`issue_replicator`) | GitHub issues, a cached listing of them | list, create, update, close, drop redundant items | several replicas, a listing that is stale |
| Rescoring (`rescore`, `odg/findings.py`, `sprints`) | rescorings of four scopes | rescore, delete, propose; sprints and due dates | three readers that choose rescorings independently |
| SLA violations (`sla_violation_profiler_extension`) | one record for each released version | replay the rescorings of each finding up to the release | late rescorings, records that are never computed again |
| Responsibles (`responsibles`, `responsibles_extension`) | one entry for each artefact and finding type | choose a rule, collect responsibles, store; assign issues | statistics that are pending, rules in order |
| Scanners (`bdba_utils`, `ghas.py`, `codeql.py`, `sast.py`, `crypto_extension`, `osid_extension`, `malware`, `trivy_extension`) | findings in the delivery-db, products in BDBA, alerts in GitHub | scan, compare with what is stored, store, delete what is stale | failures that look like empty results, pods that die between two requests |
| Back-up (`delivery_db_backup.py`) | versions of a component, each with a dump | dump, upload, publish, purge | two objects for each back-up, cached listings |

They interact in three ways: by requests to the delivery-service (scanners,
replicator, enumerator), by backlog items (enumerator, rescoring and the
service request; extensions process), and by the cache, whose entries the
metadata and the look-ups mark or fill.

## 2. Modules

`Faults` declares the budget the other modules share: every disturbance and
every external event spends one unit of its kind (`Limit[kind]`), and at most
`MaxFaults` of them happen in a behaviour.  Cyclic work (scans, polls, runs of
cron jobs) is not bounded by it where liveness is claimed.

| Module | Models | State and actions |
|---|---|---|
| `Backlog` | items, callers, pods, controller | `items` is the API server with resource versions; `phase`, `wants`, `job` are the pods' loops; `caller` the three requests of `create_backlog_item`; `controller` one handling of an event, claim by claim |
| `WorkQueue`, `BacklogRefinement` | what the backlog promises | a queue whose jobs are with one worker at a time; the refinement mapping is `Queue` in `Backlog` |
| `LogCollection` | threads and exits of pods | `file`, `collection` with `revision`, one step per file or API operation |
| `BoundedLog` | what readers of the collection rely on | a log that is written in one step and drops only its oldest records; the refinement mapping is `ReadableLog` in `LogCollection` |
| `OdgOperator` | the watch loop | `op` is the process with its position in `reconcile`, `log` the events, `managed` and `secrets` the cluster |
| `ArtefactEnumerator` | one run after the other | `snapshots` with the states of the code, `enumerated` items, `round` the run |
| `ArtefactMetadata` | put, delete, summaries | `rows` with group and discovery date; a put is a query and a commit, with the retry of the client in between; `cached` the summaries |
| `Search` | the paginated search | the clauses as predicates on rows, keyset comparison, the loop over batches; a statement answers a set of rows, whose order is that of `ORDER BY` |
| `DbCache` | cached calls and the manager | a call reads, calculates and stores in separate steps; the manager streams, deletes, commits and prefills |
| `Components` | look-ups | `memory`, `stored`, `listings` per layer; one step per request of a look-up |
| `SbomStore` | blobs and scan infos | generator and clean-up, one step per request; the clean-up's rows are deleted in a transaction, the blobs are not |
| `Sessions` | tokens and roles | requests read the user, later commit; the access manager does the same for all users |
| `ServiceAccess` | client and pods | `client` holds token and retry count, `loaded` the keys of each pod |
| `IssueReplicator` | replicas and GitHub | a replica reads snapshots, findings, issues, and then acts on one issue at a time |
| `Rescoring` | rescorings and readers | three readers as operators on sequences of rescorings, and the replicator's reading of them in steps |
| `BdbaScans`, `GhasAlerts`, `CodeqlFindings`, `ArtefactScans` | scanners | their requests one by one, with every failure each of them distinguishes; `ArtefactScans` is parameterised by the extension, as SAST, crypto, OS-id, malware and Trivy differ only in the order of their requests and in what counts as a failure |
| `Backups` | the cron job | dump, publication and purge with failures in between, and a cached listing of versions |
| `SlaViolations` | the profiler and the report | `released` the versions, `rescorings` with their dates, `records` what the profiler stores; `overdue` and `late` are histories that say what it should have stored |
| `Responsibles` | route, extension and assignment | `statistics`, `identities` and `response` are the caches of the route, `info` what the extension stores, `issues` the assignees; `extension` and `replicator` poll the route |

`MCBacklog`, `MCLogCollection` and `MCOdgOperator` define the instances of the
three parts with the largest state.  Four modules hold several parts each:

| Module | Parts |
|---|---|
| `MCInstallations` | `OdgOperator` (by `MCOdgOperator`); `Backlog` twice, `Components`, `ServiceAccess` |
| `MCDeliveryService` | `Sessions`, `ArtefactMetadata`, `Responsibles`, `Search` |
| `MCControllers` | `Backups`, `ArtefactEnumerator`, `IssueReplicator`, `Rescoring`; `DbCache`, `LogCollection`, `OdgOperator` |
| `MCScanners` | `CodeqlFindings`, `ArtefactScans`, `SbomStore`, `SlaViolations`; `BdbaScans`, `GhasAlerts` |

The parts before the semicolon are extended, those after it are instances with
the constants the module gives them.  The parts share no state, so a behaviour
is one of a single part: `part` is chosen in the initial state, `Next` is the
step of that part, and the properties are those of the part, under its
fairness.  TLC thus checks the union of the state spaces, not their product.
The parts that are extended share one budget of faults; `Bounded(n)` grants a
part `n` units of it.

The proofs are in `BacklogProofs`, `BacklogRefinement`, `LogCollectionProofs`,
`OdgOperatorProofs`, `SbomProofs`, `DeliveryServiceProofs` (`Sessions`,
`ArtefactMetadata`, `Responsibles`, `ServiceAccess`, `Components`, `Search`),
`ScannerProofs` (`CodeqlFindings`, `ArtefactScans`, `SlaViolations`, `GhasAlerts`,
`BdbaScans`) and `ControllerProofs` (`Backups`, `ArtefactEnumerator`,
`IssueReplicator`, `Rescoring`, `DbCache`).

## 3. Runs

| Run | Question | Instance |
|---|---|---|
| `backlog_safety` | is a priority only raised, and a claim only taken from a pod that is gone or overdue? | one item, two pods, two callers, three priorities, two disturbances, each of another kind |
| `backlog_exclusive` | do two pods ever process an item, and does the backlog refine the queue? | two items, two pods, a failing pod, a put of a user |
| `log_safety` | do writes fit, and does the collection refine the bounded log? | two pods with two threads each, one of which ends, a storage limit of two records, one API error, kill and deletion |
| `installations` | is what is installed as specified, and nothing left of what is gone? does every item leave, and is an idle extension scaled down? are look-ups answered from the repository that was asked, and do clients recover from rotated keys? | operator: two extensions, two specifications, one of them broken, two disturbances of different kinds; backlogs of two items and three pods, one with at most one replica and a failing pod or a failing scaling, one with two replicas; three repositories, two of them in a virtual one that is not `<auto>`, two pods, a poll for the newest version and two pull requests (of two components, one of them closed) for the look-ups; one client, two pods and two keys for the access |
| `delivery_service` | are tokens sound, roles right and dates shared, do summaries follow, are pages complete, are answers real and assignees kept? | one user with two browsers; two versions with an artefact each; four labels, three rules and two sprints; six rows and four requests |
| `controllers` | are back-ups complete and kept, is every artefact served and every inactive one reported, is there one open issue, do readers and issues follow rescorings, is the cache sound, are records stored, does the operator settle? | six versions of which two are retained; one artefact with two extensions; two members, two replicas; three places, three sprints; three calls and a cache of three octets; two pods that log twice; one ODG |
| `scanners` | do failures keep findings, do findings follow the facts, do blobs match SBOMs, are SLA records right and reported? | two versions and two pods for BDBA; one alert; two languages; one finding and two workers for each of the extensions (ClamAV with a category for every name, and with one for some; a file it may answer with an error); two artefacts with three documents; one vulnerability, two roots and two days |
| `backlog_claim_conflict`, `log_twice`, `odg_delete`, `odg_errors`, `sla_report` | does the code do what its comments and messages say? It does not (section 6) | the smallest instance that shows it |

**Bounds.** Two actors of a kind are enough for each race that is looked for
(read by one, write by the other, write of the first); three pods are used where
one replaces another that failed.  Two values tell old from new; a third one is
used where something must lie in between (priorities, dates, languages).  Each
kind of disturbance happens once, or twice where the second hits the recovery
of the first; a behaviour contains one to four of them, as `Bounded(n)` or a
constraint of the MC module says: as many as the mutants of its properties need
to be found, and one more where that is affordable.  The type invariants are proved, hence no run spends time on them
in those modules.

SLA violations are checked with one finding, two roots, times up to 6 with two
of them to a day, so that an event can precede or follow a release on the same
day.  Responsibles are checked with three users, two sprints (hence two issues),
one artefact and one finding type, and two polls of the 24 the client makes: the
first finds the statistics pending, the second may find them ready or give up.
The cache has four faults, so that an entry can be marked, calculated again and
pruned while the manager is at work.  What is proved (section 5) does not depend
on the bounds of any instance.

**Deadlock** is checked in the backlog runs, whose controller never stops, and
in `log_twice`.  The other configurations switch it off: `log_safety` has exits
and kills of all pods; a deleted ODG leaves the operator nothing to do; the
parts of the four union models stop when the budget is spent (no user, no new
fact), which is what their liveness properties expect.

**Fairness.** Weak fairness on the steps of a process that is running (each is
a line of code that will be reached); of a restart (Kubernetes restarts pods
and runs cron jobs); of timers (expiry, reload).  Strong fairness is assumed
where several actors compete repeatedly for a thing that is again and again
available: `IssueReplicator!Claim` (some replica claims an item that is free
again and again), `ArtefactEnumerator`'s tick (time passes although runs go on
for ever), and `Rescoring!FetchFindings` (the groups are replicated in turn).
The profiler of SLA violations and its report are cron jobs, so they run again
and again; the extension of the responsibles and the replicator get items again
and again, and GitHub computes statistics once they were asked for.
No fairness is assumed of users, faults or external systems, except that BDBA
completes a scan and that an SBOM appears which was requested.

## 4. Properties

The properties are those a test hardly reaches.  Some that need a word:

- `ClaimHeld` holds under the condition its definition names: nobody deletes an
  item by hand, and no processing takes longer than the claim is honoured.
  With such an overrun two pods do process an item: the code intends that.
- `ImplementsBoundedLog`: what readers see is `BoundedLog`, a log to which a write
  appends in one step, although a thread reads, extends, trims and replaces in
  several.  That records may be stored twice is no contradiction: it is the
  finding `log_twice`.
- `NoRecordLost` speaks of the time before `Overflow`: when as many records as fit are
  in one place (also in a file, or with one thread) the oldest may be dropped.
- `OneDiscoveryDate`: a finding that appears for another version of an artefact
  has the discovery date of the first one, though scanners race.
- `LookupsAreSound`: what a look-up answers is what one of the repositories that are
  looked up holds, whichever layer of the cache answered.  The greatest listed
  version can be resolved, provided that the repositories it is listed from are
  among those: they are not for a named virtual repository that has members
  outside of `<auto>` (section 6).  A list of pull requests answers the question
  if it was `listed` for the component that asks; lists that were made for another
  one are exempt, as the key of the cache does not tell them apart (section 6).
- `VersionsAreSeen`: a poll gets the newest `max_versions` of the versions that match
  its filter, or that of the repository if it has none, in the end.
- `InactiveIsReported` holds for every grace period but 0: without one a snapshot is
  deleted by the run that finds its artefact gone, which then requests nothing.
- `PagesAreTheResult`: the pages together contain the rows that match and stay, in
  order.  It excepts rows written meanwhile, rows with a NULL sort value, and
  searches that gave up after `MaxRounds` batches without any visible row.
- `FindingsFollowEngine`, `FindingsFollowAlerts`, `AcceptedWasCovered`,
  `ScannedIsComplete`: a failure of an external system is never read as an empty
  result.  Where the code does read it so (a page of GitHub that is missing
  ends the listing) the property names that fault.  The first two also say that
  findings follow the facts in the end; their safety halves are
  `FailuresKeepFindings` and `OpenIsNotResolved`.  The former excepts a product
  that another pod empties while its result is post-processed (`emptied`).
  An error that clamd answers for one file is no failure to the code: the scan
  counts as complete.  `ScannedIsComplete` says what it then lacks, and what it
  shows instead (section 6).
- `BlobsMatchSboms` is `SbomsAreStored` and `BlobsAreNamed`: no name without a
  blob, and no blob without a name.  The first exempts a document that is
  generated again while a clean-up still has to delete it (section 6).
- `CacheIsSound` and `SummariesConverge` join what is said of a result (it belongs
  to the call, a summary to the findings BDBA has scanned) with what becomes of
  it (the cache shrinks to its limit, a summary follows the content).  The
  former half of summaries is `BdbaSummaryFollowsScans`, for a version whose
  artefact no other version shares (`Unshared`).
- `RecordsAreRight`: a record names what was overdue before the release, although
  it is rebuilt later from rescorings that went on changing.  Findings of which
  the delivery-db forgot something are exempt: the code cannot know.
- `AnswersAreReal`: statistics that GitHub has not computed yet are not stored as
  "nobody".  `AssigneesSettle`: an issue keeps the assignees that a mode says it
  keeps, and has those of the scan info, the extension or the service in the end.
- `RescoringsAgree`: summary, proposals and issues apply the same rescoring to a
  finding.

## 5. Proofs

`tlapm` checks what follows for every value of the constants.  A property that
TLC checks is stated by a theorem, and where the property joins safety and
liveness in one formula, by a theorem on its safety half.  An invariant is
seldom inductive: the strengthening is named here, and why it is needed.

`BacklogProofs`, `BacklogRefinement`
- `TypeCorrect`; `Invariant`: what each process remembers of an item is not newer
  than the store and was read at the resource version it carries, and a claim
  names the pod that works on the item.  From it follow `ReleasedOnlyIfStale`,
  `PriorityRaised` and `ExclusiveProcessing`.  `ClaimHeld` alone is not inductive:
  a claim is a replace that succeeds only on the version it read, so one must
  know that equal versions mean equal items.
- `Refinement`: every step is a step or a stutter of `WorkQueue`.

`LogCollectionProofs`
- `TypeCorrect`, `CollectionFits`: what a thread holds and writes is trimmed.
- `Refinement`: every step is a step or a stutter of `BoundedLog`.  A replace that
  succeeds extends the very version that is stored (`IInv`: equal versions are
  equal collections), and trimming a sum keeps a suffix of it (`TrimContinues`).
- `NothingLost`: `NoRecordLost` is not inductive, as a thread empties its file without
  looking.  `Kept` adds that a thread about to do so has all of the file (`Taken`),
  that one about to rewrite its file knows what is in it, and that what a pod holds
  of other pods is stored (`Own`).

`OdgOperatorProofs`
- `TypeCorrect`, `Invariant`, `FinaliserLast`: what a clean-up has not deleted yet is
  in its list, because no install runs while an ODG is being deleted: there is
  one process, and it handles one event at a time.
- `InstallationMatches`: an ODG in state *Installed* is deployed as specified.  Its
  strengthening `InstallInv` says that an event of the present generation, also one
  that is pending or replayed, has the present specification (`EventsInv`), that
  an ODG is not reported as installed while the process works on it
  (`WorkingInv`), and how far the installation has come (`ProgressInv`).

`SbomProofs`
- `NamedIsStored`: what the generator deletes has been replaced (`Replaced`), what it
  has uploaded is not on the clean-up's list (`Uploaded`), and the clean-up holds
  what its phase says (`Phases`).
- `BlobsAndSbomsMatch`: besides, no blob is left behind, as each has an owner
  (`SbomOwners`): a row of the metadata, a generator about to register it, or a
  clean-up about to delete it.

`DeliveryServiceProofs`
- `TokensSound`: each token belongs to one user (`Separate`) and one client
  (`Distinct`); if requests do not overlap, a request that writes is alone at its
  user (`Alone`), so the list it read is still the one it replaces.
- `RolesPersist`: a role given by hand survives the access manager, whose write has
  the roles it has read (`ReadRolesPersist`).
- `DatesAgree`: `MetadataInv` says which dates a PUT has read and will write, and that
  the stored dates of a group are equal; a PUT that is repeated after its commit
  finds its own rows.
- `SummariesFollowScans`: what a request has read is what is stored
  (`QueryIsCurrent`), and a cached summary is behind only between the deletion and
  the commit of a scan (`SummaryIsCurrent`).
- `AnswersReal`: an answer passes three layers of caches and what the extension has
  collected; each holds right answers only (`ResponsiblesInv`).  `AssigneesStay`: no
  edit in the modes `extend` and `skip` removes an assignee.
- `RotationsAreSeamless`: every pod trusts (`Trusted`) the key of each token that can
  still be used, in whatever order pods reload the keys.
- `LookupsSound`: a cached descriptor was published where its key says
  (`CachesRight`), a cached list names published versions (`ListingsRight`) or what
  was asked for (`PullsRight`), and a request holds what it may answer
  (`CallsRight`).  That a listed version is found needs the condition of
  `GreatestResolves` on virtual repositories.
- `PagesAreRight`: the order of the rows is a strict total order (`BeforeOrder`), the
  comparison with a cursor agrees with it unless a NULL decides (`AfterIsBefore`,
  `BeforeIsAfter`), and `LIMIT` takes the first rows (`SelectedFirst`).  Hence the
  cursor divides the rows into those passed and those ahead (`SearchInv`).

`ScannerProofs`
- `RescoredWasCovered`: a scan decides by what it read some requests ago, so each
  language it remembers as analysed was so at some time (`Remembered`).
- `ScansAreComplete`, `NoFindingDisappears`: what a worker has found, of the files that
  were answered for, is what the facts were, and the errors it has met are those of
  the files that have them (`ScansInv`), for each of the extensions.
- `RecordsRight`, `RecordsRemain`: the profiler replays rescorings; `SlaInv` says that
  the replay of what is stored tells what was overdue at present and before each
  release, as the histories have it, and that what the profiler has read agrees.
- `OpenStaysOpen`: a verdict is stored for an alert that was resolved at some time
  (`VerdictsAreReal`).
- `FailuresDeleteNothing`: the result a worker holds is that of a scan of a product
  with some engine (`ResultIsReal`, `ProductsAreReal`), never that of a failure.

`ControllerProofs`
- `BackupsRestorable`, `OldOnesRemoved`, `OnlyOldOnesRemoved`: the dump a purge deletes is
  that of a version it has removed; that no other version has this dump
  (`Distinct`) rests on the numbering of dumps, and on what a run holds between
  its upload and its publication (`Held`, `Purged`).
- `InactiveIsHeardOf`: what a run has read, will write and has asked for, related
  to the stored snapshots (`EnumeratorInv`).  `EnumeratorAssumption` admits a grace
  period of 0; the property, which is false then, has `Grace # 0` as a hypothesis.
- `OneIsOpen`, `PendingIsOpen`: the cached listing knows the open and the latest issue
  of all labels a replica has yet to deal with (`ReplicatorInv`).
- `ReadersAgree`: the three readers find rescorings by different queries; the proof
  shows that a rescoring matches a finding in all three or in none
  (`MatchingApplies`), and that what is due later is in no earlier sprint
  (`SprintsMonotonic`).
- `ResultsAreOwn`: a call is known by its id, an entry belongs to the call it is
  found by, and what the manager has filled in stays (`DbCacheInv`).

**Assumptions.** The modules name what they assume of their constants
(`NoneAssumption`, `LimitAssumption`, positive bounds other than the grace period, finite sets where a cardinality
is used, comparable sort values in `SearchAssumption`), and TLC evaluates it for
each instance.  `AccessAssumption`, `DbCacheAssumption`, `CallsAssumption`,
`GhasAssumption`, `BdbaAssumption` and `ComponentsAssumption` belong to parts that are
instantiated: they are hypotheses of the theorems, and `InstanceAssumption` of the
MC modules states that the instances satisfy them.  `CallsAssumption` is the one
that says something of the code: no two cached calls differ only in the order of
their positional arguments (section 6).  `Exclusive` (no item is deleted by hand,
no claim outlives its time) is a hypothesis of `ExclusiveProcessing` and
the `Refinement` of the backlog, as the code intends two pods to work on an item
otherwise.  `Quiet` (nothing fails, no pod is at its end, none logs while its file is
emptied) is one of `NothingLost`: an API error or a late record does lose records, as
the code drops what a thread holds and truncates the file unseen.

**Only model-checked.**  All liveness, which rests on fairness and `ENABLED`: the
latter halves of `SummariesConverge`, `AssigneesSettle`, `CacheIsSound` and the like,
and `EveryItemLeaves`, `UsedIsServed`, `RescoredIsShown`, `OdgSettles`, ...  Every safety
property of the passing runs, and every safety half of a combined one, is proved.

## 6. What was found

Five statements of the code about itself do not hold: the retry of `remove_claim`
ends the controller with a `KeyError`; records are stored twice after a
conflict; a deletion killed between two secrets never completes; an error
during an installation is not reported; the SLA reports of all components are
written to one file, of which the last one remains.  `PROJECT.json` quotes the lines.

Behaviours that are surprising though nothing in the repository says otherwise:

- an SBOM that is generated again with the digest it had is refused by the blob
  store (422), and the item is tried again by another pod;
- the key of cached upgrade pull requests does not contain the component, so a
  list made for one component is served to another one until it expires;
- the versions of a component in a named virtual repository are listed from its
  members, but descriptors are looked up by the name of the virtual repository
  and then in `<auto>`: a version only a member outside of `<auto>` has is
  listed, and is the greatest one, but not found;
- a compliance snapshot grace period of 0 is accepted: a snapshot is then deleted
  when its artefact disappears, without a backlog item for the issue replicator,
  and the issue stays as it is;
- any answer of clamd but `OK` is the name of a malware.  With the default
  categories (`.*`) an error such as `INSTREAM size limit exceeded. ERROR` becomes
  a finding of that name, which stays when the file can be read, as findings of
  malware are never deleted; if no category matches, the file is skipped with a
  warning.  In both cases the scan info is stored as if the scan were complete;
- the id of a cached call forgets the order of its positional arguments (sequences
  are sorted before they are hashed): a function two arguments of which can be
  exchanged would get the results of another call;
- a scan of an artefact which several versions of a component share invalidates
  the cached summary of the requested version only;
- an uploaded file is checked for being empty only after the first wait for the
  scan: if another pod replaces the binary of the product later, during
  post-processing, findings of the old binary are deleted;
- `rescorings_for_finding_by_specificity` sorts by date only;
- nothing in the repository adds the finaliser the operator waits for;
- a missing page of GitHub counts as the last one;
- the identity of a rescoring contains its severity, user and comment: two
  rescorings of one finding are two rows, and the newer wins;
- a clean-up that has listed an SBOM deletes its blob even if the artefact is in use
  again and the document has, after another one, been generated and uploaded
  again; the update of the metadata, which waits for the clean-up's transaction,
  then names a blob that is gone until the next generation;
- responsibles the extension has stored still win when none of its rules matches
  any more (`values.documentation.yaml` speaks of the rules only);
- with the mode `extend`, the assignees of the issue of one sprint are carried over
  to the issues of the next ones;
- `n_percentile_with_member_count` fails with an `UnboundLocalError` if more
  contributors tie than are asked for.

## 7. Not modelled

- Migrations: SQL, each in one transaction, run before the service starts.
- Parsing of configuration, start-up, route tables and the OpenAPI validation.
- Read-only routes: DORA metrics, diffs, statistics; the templates of issues and
  reports; the CVSS rule sets; parsing of scanner reports.
- Large objects of the database in chunks: a blob is stored in one step.
- The OAuth redirects, TLS, and GitHub, BDBA and OCI registries beyond the
  answers the code distinguishes.
- Two operators side by side during a rolling update.
- The parameters `start_date`, `end_date` and `version` of requests for component versions.
- A file on which clamd breaks every connection: the artefact is never scanned then,
  and the item stays in the backlog.  The budget of failed scans excludes it.
