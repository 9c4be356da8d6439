-------------------------- MODULE ArtefactMetadata --------------------------
(***************************************************************************)
(* The findings of one component in the delivery-db: the scanners that     *)
(* report them, the routes that store them (src/metadata.py), and the      *)
(* compliance summaries that are calculated from them and kept in the      *)
(* persistent cache (src/deliverydb/cache_async.py).                       *)
(*                                                                         *)
(* A finding belongs to a version of an artefact, not of the component, so *)
(* that its scans in several component versions share it; a scan info and  *)
(* a summary belong to a version of the component.                         *)
(***************************************************************************)
EXTENDS Faults, FiniteSets

CONSTANTS
  Versions,     \* component versions
  ArtefactOf,   \* ArtefactOf[v]: the version of the artefact in v
  Keys,         \* data keys of findings
  Bdba,         \* the versions scanned by BDBA; the others by a scanner on run_scan
  TimeToLive,   \* of a cached summary, in days
  Scopes        \* which versions are scanned, and of which ones summaries are requested

Stored == {ArtefactOf[v] : v \in Versions}

ASSUME MetadataAssumption ==
  /\ ArtefactOf \in [Versions -> Stored]
  /\ Bdba \subseteq Versions
  /\ TimeToLive \in Nat \ {0}
  /\ Scopes \subseteq [scanned : SUBSET Versions, viewed : SUBSET Versions]
  /\ None \notin Nat
  /\ {"scanFails", "resend"} \subseteq DOMAIN Limit

VARIABLES
  scope,      \* one of Scopes
  content,    \* content[x]: the findings that a scanner sees in artefact x at present
  rows,       \* rows[x][k]: age of the discovery date of a stored finding, or None
  infos,      \* the versions whose scan info is stored
  scan,       \* scan[v]: progress of the scanner
  late,       \* late[v]: a PUT the scanner has given up, which the service still handles
  cached,     \* cached[v]: summary in the cache and days until delete_after, or None
  query,      \* query[v]: a request that calculates the summary
  crossed,    \* history: a PUT read the findings while another one was being handled
  raced       \* history: findings were written while a summary was being calculated

metadataVars ==
  <<scope, content, rows, infos, scan, late, cached, query, crossed, raced, faults>>

\* Ages in days; only today and earlier are told apart.
Older1(age) == IF age = None THEN None ELSE 1

\* found: result of the scan; stale: what is to be deleted; day: age of its discovery
\* date; own: findings that the service read as existing; first: reused dates.
Quiet == [pc |-> "idle", found |-> {}, stale |-> {}, day |-> 0,
          own |-> {}, first |-> [k \in Keys |-> None]]
NoQuery == [pc |-> "idle", scanned |-> FALSE, keys |-> {}]

MetadataInit ==
  /\ FaultsInit
  /\ scope \in Scopes
  /\ content = [x \in Stored |-> {}]
  /\ rows = [x \in Stored |-> [k \in Keys |-> None]]
  /\ infos = {}
  /\ scan = [v \in Versions |-> Quiet]
  /\ late = [v \in Versions |-> Quiet]
  /\ cached = [v \in Versions |-> None]
  /\ query = [v \in Versions |-> NoQuery]
  /\ crossed = FALSE
  /\ raced = FALSE

KeysOf(x) == {k \in Keys : rows[x][k] # None}

-----------------------------------------------------------------------------
(* The metadata routes *)

\* Mutant: no discovery date is reused.
NotReused(k) == {None}
\* The discovery dates of the stored findings with the same package and CVE, whichever
\* version of the artefact they belong to (existing_by_group: that of the latest one).
Reusable(k) ==
  LET dates == {rows[x][k] : x \in Stored} \ {None}
  IN IF dates = {} THEN {None} ELSE dates

\* ArtefactMetadata.put up to its changes: the existing entries are queried.
ReadExisting(v, put) ==
  {[put EXCEPT !.pc = "commit", !.own = KeysOf(ArtefactOf[v]), !.first = dates] :
     dates \in {f \in [Keys -> {0, 1, None}] : \A k \in Keys : f[k] \in Reusable(k)}}

Handled(v) == scan[v].pc = "commit"
LateHandled(v) == late[v].pc = "commit"

\* The rest of it, for entries read as put.own: one that was deleted in the meantime
\* cannot be updated, one that was added cannot be inserted.
Conflicts(v, put) == put.found \intersect put.own # put.found \intersect KeysOf(ArtefactOf[v])

\* Mutant: the entry that was there stays valid.
NotExpired(entry) == entry
\* _collect_compliance_summary_cache_ids: findings have no component version, hence only
\* the scan info names cached summaries, those of the component version it belongs to.
Expired(entry) == IF entry = None THEN None ELSE [entry EXCEPT !.left = 0]
Invalidated(v) == [cached EXCEPT ![v] = Expired(@)]

Written(v, put) ==
  /\ rows' = [rows EXCEPT ![ArtefactOf[v]] =
       [k \in Keys |->
          IF k \notin put.found \/ k \in put.own THEN @[k]
          ELSE IF put.first[k] # None THEN put.first[k] ELSE put.day]]
  /\ infos' = infos \union {v}
  /\ cached' = Invalidated(v)
  /\ raced' = (raced \/ \E w \in Versions : query[w].pc # "idle")

PutQuery(v) ==
  /\ scan[v].pc = "put"
  /\ \E put \in ReadExisting(v, scan[v]) : scan' = [scan EXCEPT ![v] = put]
  /\ crossed' = (crossed \/ \E w \in Versions : Handled(w) \/ LateHandled(w))
  /\ UNCHANGED <<scope, content, rows, infos, late, cached, query, raced, faults>>

PutCommit(v) ==
  /\ Handled(v)
  /\ ~Conflicts(v, scan[v])
  /\ Written(v, scan[v])
  /\ scan' = [scan EXCEPT ![v] =
       [@ EXCEPT !.pc = IF v \in Bdba THEN "mark" ELSE "delete",
                 !.own = {}, !.first = [k \in Keys |-> None]]]
  /\ UNCHANGED <<scope, content, late, query, crossed, faults>>

\* The transaction is rolled back, and the client repeats the request.
PutConflict(v) ==
  /\ Handled(v)
  /\ Conflicts(v, scan[v])
  /\ scan' = [scan EXCEPT ![v] =
       [@ EXCEPT !.pc = "put", !.own = {}, !.first = [k \in Keys |-> None]]]
  /\ UNCHANGED <<scope, content, rows, infos, late, cached, query, crossed, raced, faults>>

\* The connection breaks: the client repeats the request, the service goes on.
Resend(v) ==
  /\ Handled(v)
  /\ late[v].pc = "idle"
  /\ Spend("resend")
  /\ late' = [late EXCEPT ![v] = scan[v]]
  /\ scan' = [scan EXCEPT ![v] =
       [@ EXCEPT !.pc = "put", !.own = {}, !.first = [k \in Keys |-> None]]]
  /\ UNCHANGED <<scope, content, rows, infos, cached, query, crossed, raced>>

LateCommit(v) ==
  /\ LateHandled(v)
  /\ IF Conflicts(v, late[v]) THEN UNCHANGED <<rows, infos, cached, raced>>
     ELSE Written(v, late[v])
  /\ late' = [late EXCEPT ![v] = Quiet]
  /\ UNCHANGED <<scope, content, scan, query, crossed, faults>>

\* delete_stale_findings and ArtefactMetadata.delete: without a component version, no
\* cached summary is invalidated.
DeleteStale(v) ==
  /\ scan[v].pc = "delete"
  /\ rows' = [rows EXCEPT ![ArtefactOf[v]] =
       [k \in Keys |-> IF k \in scan[v].stale THEN None ELSE @[k]]]
  /\ raced' = (raced \/ (scan[v].stale # {} /\ \E w \in Versions : query[w].pc # "idle"))
  /\ scan' = [scan EXCEPT ![v] = IF v \in Bdba THEN [@ EXCEPT !.pc = "put"] ELSE Quiet]
  /\ UNCHANGED <<scope, content, infos, late, cached, query, crossed, faults>>

-----------------------------------------------------------------------------
(* The scanners, called by process_backlog_items *)

\* run_scan: the artefact is scanned, the existing findings are queried, the current
\* ones are stored, and the others deleted.  BDBA deletes first (iter_artefact_metadata)
\* and marks the cached summaries once more when it has stored its findings.
StartScan(v) ==
  /\ scan[v].pc = "idle"
  /\ scan' = [scan EXCEPT ![v] =
       [Quiet EXCEPT !.pc = "query", !.found = content[ArtefactOf[v]]]]
  /\ UNCHANGED <<scope, content, rows, infos, late, cached, query, crossed, raced, faults>>

QueryExisting(v) ==
  /\ scan[v].pc = "query"
  /\ scan' = [scan EXCEPT ![v] =
       [@ EXCEPT !.pc = IF v \in Bdba THEN "delete" ELSE "put",
                 !.stale = KeysOf(ArtefactOf[v]) \ scan[v].found]]
  /\ UNCHANGED <<scope, content, rows, infos, late, cached, query, crossed, raced, faults>>

\* mark_for_deletion runs in a task of its own, whose failure is logged only.
MarkCache(v) ==
  /\ scan[v].pc = "mark"
  /\ \/ cached' = Invalidated(v) /\ UNCHANGED faults
     \/ UNCHANGED cached /\ Spend("markFails")
  /\ scan' = [scan EXCEPT ![v] = Quiet]
  /\ UNCHANGED <<scope, content, rows, infos, late, query, crossed, raced>>

\* The extension is killed, or a request fails for good.  What the service handles is
\* rolled back; the backlog item is processed again.
ScanFails(v) ==
  /\ scan[v].pc # "idle"
  /\ Spend("scanFails")
  /\ scan' = [scan EXCEPT ![v] = Quiet]
  /\ UNCHANGED <<scope, content, rows, infos, late, cached, query, crossed, raced>>

-----------------------------------------------------------------------------
(* Compliance summaries: component_datatype_summaries behind dbcached_function *)

Fresh(v) == cached[v] # None /\ cached[v].left > 0
Summary(scanned, keys) == IF scanned THEN keys ELSE None

\* No fresh value is cached, or it is not asked for (shortcut_cache).  The scan infos
\* are queried first.
Calculate(v) ==
  /\ query[v].pc = "idle"
  /\ query' = [query EXCEPT ![v] = [NoQuery EXCEPT !.pc = "findings", !.scanned = v \in infos]]
  /\ UNCHANGED <<scope, content, rows, infos, scan, late, cached, crossed, raced, faults>>

QueryFindings(v) ==
  /\ query[v].pc = "findings"
  /\ query' = [query EXCEPT ![v] =
       [query[v] EXCEPT !.pc = "store",
         !.keys = IF query[v].scanned THEN KeysOf(ArtefactOf[v]) ELSE {}]]
  /\ UNCHANGED <<scope, content, rows, infos, scan, late, cached, crossed, raced, faults>>

\* Mutant: the value never becomes stale.
StoredForGood(v) ==
  /\ query[v].pc = "store"
  /\ cached' = [cached EXCEPT ![v] = IF @ # None /\ @.left > 0 THEN @ ELSE
       [value |-> Summary(query[v].scanned, query[v].keys), left |-> TimeToLive + 1]]
  /\ query' = [query EXCEPT ![v] = NoQuery]
  /\ UNCHANGED <<scope, content, rows, infos, scan, late, crossed, raced, faults>>

\* add_or_update_cache_entry: whatever happened to the entry meanwhile is overwritten.
StoreSummary(v) ==
  /\ query[v].pc = "store"
  /\ cached' = [cached EXCEPT ![v] =
       [value |-> Summary(query[v].scanned, query[v].keys), left |-> TimeToLive]]
  /\ query' = [query EXCEPT ![v] = NoQuery]
  /\ UNCHANGED <<scope, content, rows, infos, scan, late, crossed, raced, faults>>

\* prune_cache: the cache manager deletes the entries with the least weight.
Evict(v) ==
  /\ cached[v] # None
  /\ cached' = [cached EXCEPT ![v] = None]
  /\ UNCHANGED <<scope, content, rows, infos, scan, late, query, crossed, raced, faults>>

\* The request ends without a value (an exception, a lost connection).
QueryFails(v) ==
  /\ query[v].pc # "idle"
  /\ Spend("queryFails")
  /\ query' = [query EXCEPT ![v] = NoQuery]
  /\ UNCHANGED <<scope, content, rows, infos, scan, late, cached, crossed, raced>>

-----------------------------------------------------------------------------
(* The environment *)

\* The scanner's database changes, or a user enters another package version.
Change(x) ==
  /\ Spend("change")
  /\ \E keys \in SUBSET Keys \ {content[x]} : content' = [content EXCEPT ![x] = keys]
  /\ UNCHANGED <<scope, rows, infos, scan, late, cached, query, crossed, raced>>

Day ==
  /\ rows' = [x \in Stored |-> [k \in Keys |-> Older1(rows[x][k])]]
  /\ scan' = [v \in Versions |->
       IF scan[v].pc = "idle" THEN scan[v]
       ELSE [scan[v] EXCEPT !.day = 1, !.first = [k \in Keys |-> Older1(@[k])]]]
  /\ late' = [v \in Versions |->
       IF late[v].pc = "idle" THEN late[v]
       ELSE [late[v] EXCEPT !.day = 1, !.first = [k \in Keys |-> Older1(@[k])]]]
  /\ cached' = [v \in Versions |->
       IF Fresh(v) THEN [cached[v] EXCEPT !.left = @ - 1] ELSE cached[v]]
  /\ <<rows, scan, late, cached>>' # <<rows, scan, late, cached>>
  /\ UNCHANGED <<scope, content, infos, query, crossed, raced, faults>>

-----------------------------------------------------------------------------
Scanning(v) ==
  \/ StartScan(v) \/ QueryExisting(v) \/ PutQuery(v) \/ PutCommit(v) \/ PutConflict(v)
  \/ DeleteStale(v) \/ MarkCache(v)
Summarising(v) == Calculate(v) \/ QueryFindings(v) \/ StoreSummary(v)

MetadataNext ==
  \/ \E v \in scope.scanned : Scanning(v) \/ ScanFails(v) \/ Resend(v) \/ LateCommit(v)
  \/ \E v \in scope.viewed : Summarising(v) \/ QueryFails(v) \/ Evict(v)
  \/ \E x \in Stored : Change(x)
  \/ Day

\* Artefacts are scanned again and again (ArtefactEnumerator!RescannedForEver), the
\* service answers, and time passes.
MetadataFairness ==
  /\ WF_metadataVars(Day)
  /\ \A v \in Versions :
       /\ WF_metadataVars(v \in scope.scanned /\ Scanning(v))
       /\ WF_metadataVars(LateCommit(v))
       /\ WF_metadataVars(QueryFindings(v) \/ StoreSummary(v))

MetadataSpec == MetadataInit /\ [][MetadataNext]_metadataVars /\ MetadataFairness

-----------------------------------------------------------------------------
(* Properties *)
\* "entries that should share the same discovery date" (_group_key in put): the same
\* finding in several versions of the artefact counts from the day it was discovered
\* first, whatever fails and is repeated, unless two PUTs were handled at the same time.
OneDiscoveryDate ==
  ~crossed => \A x, y \in Stored : \A k \in KeysOf(x) \intersect KeysOf(y) : rows[x][k] = rows[y][k]

\* The artefact is that of no other version of the component.
Unshared(v) == \A w \in Versions : ArtefactOf[w] = ArtefactOf[v] => w = v

\* "the cache is invalidated upon successful finish of the scan"
\* (_collect_compliance_summary_cache_ids): as long as no scan failed or was repeated and no
\* summary was calculated while findings were written, a summary that is served after the scan is
\* that of the stored findings.  (The scan of an artefact that several versions of the component
\* share invalidates the summary of the one it was requested for only.)
BdbaSummaryFollowsScans ==
  ~raced /\ Never("scanFails") /\ Never("resend") =>
    \A v \in Bdba :
      Unshared(v) /\ scan[v].pc = "idle" /\ Fresh(v) =>
        cached[v].value = Summary(v \in infos, KeysOf(ArtefactOf[v]))

\* Whatever was crossed, raced, lost or repeated: once the scanned content does not
\* change any more, the stored findings become that content, and so do the summaries.
SummaryConverges ==
  \A v \in Versions :
    <>[](Fresh(v) /\ v \in scope.scanned => cached[v].value = content[ArtefactOf[v]])
=============================================================================
