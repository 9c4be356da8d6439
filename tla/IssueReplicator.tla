-------------------------- MODULE IssueReplicator --------------------------
(***************************************************************************)
(* The issue replicator (src/issue_replicator): for a group of artefacts   *)
(* and a type of findings it keeps one GitHub issue per sprint, or one per *)
(* sprint and finding.  Backlog items are created per artefact, so that    *)
(* several replicas may work on one group at once; each reads snapshots,   *)
(* findings and issues in requests of their own and edits the issues one   *)
(* after the other.                                                        *)
(***************************************************************************)
EXTENDS Faults, FiniteSets, Sequences

CONSTANTS
  Members,      \* the artefacts of one group, each with at most one finding
  Sprints,
  Replicas,     \* of the issue replicator
  Groups,       \* Groups[m]: the groups of m, over all types of findings
  ClosedIssues  \* number_included_closed_issues of the mapping

\* Labels of an issue, for one issue per sprint, and for one per sprint and finding.
AllLabels == [sprint : Sprints, finding : Members \union {None}]

ASSUME ReplicatorAssumption ==
  /\ None \notin Members \union Sprints \union AllLabels
  /\ {"parallel", "repeat"} \subseteq DOMAIN Limit
  /\ DOMAIN Groups = Members
  /\ ClosedIssues \in Nat

VARIABLES
  per_finding,  \* enable_per_finding
  in_bom,       \* members with an active compliance snapshot
  scanned,      \* members with a scan info
  due,          \* due[m]: sprint in which the finding of m is due, or None
  requests,     \* members with a backlog item
  leaving,      \* members that left the BoM, for which no item has been created since
  issues,       \* the issues on GitHub in the order of their ids
  replica,      \* replica[w]: locals of replicate_issue
  overtaken,    \* history: the BoM changed while an artefact of the group was processed
  reopened      \* history: a user reopened an issue

replicatorVars == <<per_finding, in_bom, scanned, due, requests, leaving, issues, replica,
                    overtaken, reopened, faults>>

\* due: the findings found, by the artefacts that were read; known: the cached list of
\* issues, or None.
Free == [pc |-> "idle", item |-> None, members |-> {}, scanned |-> {},
         due |-> [m \in Members |-> None], known |-> None, todo |-> {}]

ReplicatorInit ==
  /\ FaultsInit
  /\ per_finding \in BOOLEAN
  /\ in_bom = Members
  /\ scanned = {}
  /\ due = [m \in Members |-> None]
  /\ requests = Members
  /\ leaving = {}
  /\ issues = <<>>
  /\ replica = [w \in Replicas |-> Free]
  /\ overtaken = FALSE
  /\ reopened = FALSE

\* The labels by which issues are told apart: those of the sprint (issue_id), and, for
\* issues per finding, the digest of the finding's key.
Labels == [sprint : Sprints, finding : IF per_finding THEN Members ELSE {None}]

-----------------------------------------------------------------------------
(* replicate_issue *)

\* A replica claims an item.
Claim(w, m) ==
  /\ replica[w].pc = "idle"
  /\ m \in requests
  /\ \A v \in Replicas : replica[v].item # m
  /\ IF \E v \in Replicas : replica[v].pc # "idle" THEN Spend("parallel") ELSE UNCHANGED faults
  /\ replica' = [replica EXCEPT ![w].pc = "snapshots", ![w].item = m]
  /\ UNCHANGED <<per_finding, in_bom, scanned, due, requests, leaving, issues, overtaken, reopened>>

\* Mutant: all compliance snapshots count.
AnySnapshot == Members
\* Those with is_active.
ActiveSnapshots == in_bom

QuerySnapshots(w) ==
  /\ replica[w].pc = "snapshots"
  /\ replica' = [replica EXCEPT ![w] = [@ EXCEPT !.pc = "findings", !.members = ActiveSnapshots]]
  /\ UNCHANGED <<per_finding, in_bom, scanned, due, requests, leaving, issues, overtaken, reopened,
                 faults>>

\* Scan infos and findings are queried together, if the group is in the BoM.
ReadFindings(w) ==
  LET members == replica[w].members IN
  /\ replica[w].pc = "findings"
  /\ replica' = [replica EXCEPT ![w] =
       [@ EXCEPT !.pc = "list",
                 !.scanned = scanned \intersect members,
                 !.due = [m \in Members |-> IF m \in members THEN due[m] ELSE None]]]
  /\ UNCHANGED <<per_finding, in_bom, scanned, due, requests, leaving, issues, overtaken, reopened,
                 faults>>

Open(seq) == {i \in DOMAIN seq : seq[i].open}

\* all_issues: the open ones, and of the closed ones the latest.
Listed ==
  LET closed == DOMAIN issues \ Open(issues)
  IN Open(issues) \union {i \in closed : Cardinality({j \in closed : j > i}) < ClosedIssues}

\* The list is queried for the first sprint and cached.
ListIssues(w) ==
  /\ replica[w].pc = "list"
  /\ replica' = [replica EXCEPT ![w] =
       [@ EXCEPT !.pc = "edit", !.todo = Labels,
                 !.known = IF replica[w].known # None THEN replica[w].known
                           ELSE [i \in DOMAIN issues |->
                             IF i \in Listed THEN issues[i]
                             ELSE [issues[i] EXCEPT !.labels = None]]]]
  /\ UNCHANGED <<per_finding, in_bom, scanned, due, requests, leaving, issues, overtaken, reopened,
                 faults>>

Known(w, labels) == {i \in DOMAIN replica[w].known : replica[w].known[i].labels = labels}
KnownOpen(w, labels) == {i \in Known(w, labels) : replica[w].known[i].open}

NotScanned(w) == replica[w].members \ replica[w].scanned
FullyScanned(w) == NotScanned(w) = {}

\* The findings an issue is about.
Findings(w, labels) ==
  {m \in replica[w].members : replica[w].due[m] = labels.sprint /\ labels.finding \in {None, m}}

\* The group is not in the BoM any more, or everything has been scanned and nothing found.
Obsolete(w, labels) ==
  replica[w].members = {} \/ (FullyScanned(w) /\ Findings(w, labels) = {})

\* What _create_or_update_issue is called for: findings, or, with one issue per sprint,
\* an open issue that gets the label scan-pending.
Wanted(w, labels) ==
  /\ ~Obsolete(w, labels)
  /\ \/ Findings(w, labels) # {}
     \/ ~per_finding /\ KnownOpen(w, labels) # {}

Latest(ids) == CHOOSE i \in ids : \A j \in ids : j <= i

Edited(w, labels) ==
  [labels |-> labels, open |-> TRUE, pending |-> ~FullyScanned(w), lists |-> Findings(w, labels)]

\* close_issue_if_present for all of them that were open.
CloseIssues(w, labels) ==
  /\ Obsolete(w, labels)
  /\ issues' = [i \in DOMAIN issues |->
       IF i \in KnownOpen(w, labels) THEN [issues[i] EXCEPT !.open = FALSE] ELSE issues[i]]
  /\ UNCHANGED faults

\* More than one issue is open: they are left as they are.  Otherwise, the latest one is
\* reused, and opened if it is not.
UpdateIssue(w, labels) ==
  /\ Wanted(w, labels)
  /\ Known(w, labels) # {}
  /\ issues' = IF Cardinality(KnownOpen(w, labels)) > 1 THEN issues
               ELSE [issues EXCEPT ![Latest(Known(w, labels))] = Edited(w, labels)]
  /\ UNCHANGED faults

\* create_issue; if the comment that follows fails, all of it is repeated.
CreateIssue(w, labels) ==
  /\ Wanted(w, labels)
  /\ Known(w, labels) = {}
  /\ \/ issues' = Append(issues, Edited(w, labels)) /\ UNCHANGED faults
     \/ /\ Spend("repeat")
        /\ issues' = issues \o <<Edited(w, labels), Edited(w, labels)>>

Skip(w, labels) ==
  /\ ~Obsolete(w, labels)
  /\ ~Wanted(w, labels)
  /\ UNCHANGED <<issues, faults>>

\* create_or_update_or_close_issue
Replicate(w, labels) ==
  /\ replica[w].pc = "edit"
  /\ labels \in replica[w].todo
  /\ \/ CloseIssues(w, labels) \/ UpdateIssue(w, labels)
     \/ CreateIssue(w, labels) \/ Skip(w, labels)
  /\ replica' = [replica EXCEPT ![w].todo = @ \ {labels}]
  /\ UNCHANGED <<per_finding, in_bom, scanned, due, requests, leaving, overtaken, reopened>>

\* cleanup_redundant_backlog_items
Redundant(m) == {n \in Members : Groups[n] \subseteq Groups[m]}

\* Mutant: the cached list of issues is kept for the next item.
KeepCache(w) == [Free EXCEPT !.known = replica[w].known]
\* cache_clear, which replicate_issue does before anything is cached.
ClearCache(w) == Free

\* Items whose groups were all processed are deleted, the own one by
\* process_backlog_items; an error of the former is ignored.
Finish(w) ==
  /\ replica[w].pc = "edit"
  /\ replica[w].todo = {}
  /\ \/ requests' = requests \ ({replica[w].item} \union Redundant(replica[w].item))
        /\ UNCHANGED faults
     \/ requests' = requests \ {replica[w].item} /\ Spend("cleanupFails")
  /\ replica' = [replica EXCEPT ![w] = ClearCache(w)]
  /\ UNCHANGED <<per_finding, in_bom, scanned, due, leaving, issues, overtaken, reopened>>

\* The replica is killed or a request fails for good; the item stays.
FailReplication(w) ==
  /\ replica[w].pc # "idle"
  /\ Spend("replicaFails")
  /\ replica' = [replica EXCEPT ![w] = Free]
  /\ UNCHANGED <<per_finding, in_bom, scanned, due, requests, leaving, issues, overtaken, reopened>>

-----------------------------------------------------------------------------
(* The environment *)

\* The artefact enumerator creates items for members of the BoM again and again, for
\* those that left it once.
Request(m) ==
  /\ m \in (in_bom \ requests) \union leaving
  /\ requests' = requests \union {m}
  /\ leaving' = leaving \ {m}
  /\ UNCHANGED <<per_finding, in_bom, scanned, due, issues, replica, overtaken, reopened, faults>>

Busy == \E w \in Replicas : replica[w].pc # "idle"

LeaveGroup(m) ==
  /\ m \in in_bom
  /\ Spend("leave")
  /\ in_bom' = in_bom \ {m}
  /\ leaving' = leaving \union {m}
  /\ overtaken' = (overtaken \/ Busy)
  /\ UNCHANGED <<per_finding, scanned, due, requests, issues, replica, reopened>>

\* A scan, or a rescoring.
Find(m) ==
  /\ Spend("find")
  /\ scanned' = scanned \union {m}
  /\ \E sprint \in Sprints \union {None} : due' = [due EXCEPT ![m] = sprint]
  /\ <<scanned', due'>> # <<scanned, due>>
  /\ UNCHANGED <<per_finding, in_bom, requests, leaving, issues, replica, overtaken, reopened>>

\* A new version of the artefact has not been scanned yet.
Upgrade(m) ==
  /\ m \in scanned
  /\ Spend("upgrade")
  /\ scanned' = scanned \ {m}
  /\ due' = [due EXCEPT ![m] = None]
  /\ UNCHANGED <<per_finding, in_bom, requests, leaving, issues, replica, overtaken, reopened>>

\* A user closes or reopens an issue.
Toggle(i) ==
  /\ Spend("toggle")
  /\ issues' = [issues EXCEPT ![i].open = ~@]
  /\ reopened' = (reopened \/ ~issues[i].open)
  /\ UNCHANGED <<per_finding, in_bom, scanned, due, requests, leaving, replica, overtaken>>

-----------------------------------------------------------------------------
ReplicateAny(w) == \E labels \in Labels : Replicate(w, labels)
Work(w) == QuerySnapshots(w) \/ ReadFindings(w) \/ ListIssues(w) \/ ReplicateAny(w) \/ Finish(w)

ReplicatorNext ==
  \/ \E w \in Replicas :
       Work(w) \/ FailReplication(w) \/ \E m \in Members : Claim(w, m)
  \/ \E m \in Members : Request(m) \/ LeaveGroup(m) \/ Find(m) \/ Upgrade(m)
  \/ \E i \in DOMAIN issues : Toggle(i)

\* Items are created again and again (ArtefactEnumerator!RescannedForEver) and leave the
\* backlog (Backlog!EveryItemLeaves).
ReplicatorFairness ==
  /\ \A w \in Replicas : WF_replicatorVars(Work(w))
  /\ \A m \in Members :
       /\ WF_replicatorVars(Request(m))
       /\ SF_replicatorVars(\E w \in Replicas : Claim(w, m))

ReplicatorSpec ==
  ReplicatorInit /\ [][ReplicatorNext]_replicatorVars /\ ReplicatorFairness

-----------------------------------------------------------------------------
(* Properties *)

OpenWith(labels) == {i \in Open(issues) : issues[i].labels = labels}

\* "cache clear is necessary to prevent creating duplicated issues" (replicate_issue): no
\* two open issues have the same labels, although issues are closed, forgotten and
\* created anew and replicas are killed; except after two replicas worked on the group
\* at once, a creation was repeated, or a user reopened one.
OneOpenIssue ==
  Never("parallel") /\ Never("repeat") /\ ~reopened =>
    \A labels \in Labels : Cardinality(OpenWith(labels)) <= 1

\* An issue is not closed by the replicator while a member of the group that it knows of
\* has not been scanned: the finding may be there still.
PendingStaysOpen ==
  [][\A w \in Replicas, i \in DOMAIN issues :
       replica[w].pc = "edit" /\ replica'[w] # replica[w] /\ issues[i].open =>
         \/ i \in DOMAIN issues' /\ issues'[i].open
         \/ replica[w].members \subseteq replica[w].scanned]_replicatorVars

Unique == \A labels \in Labels : Cardinality(OpenWith(labels)) <= 1

\* Whatever was killed, repeated, closed or overtaken: when nothing changes any more and
\* all members have been scanned, the open issues list precisely the present findings.
IssuesFollowFindings ==
  <>[](in_bom # {} /\ in_bom \subseteq scanned /\ Unique) =>
    <>[](\A labels \in Labels :
           LET about == {m \in in_bom : due[m] = labels.sprint /\ labels.finding \in {None, m}}
           IN {issues[i].lists : i \in OpenWith(labels)} = {about} \ {{}})

\* No issue stays open for a group that left the BoM, unless it left while one of its
\* items was processed: a replica deletes items that were created after its queries.
IssuesAreClosed ==
  []~overtaken /\ <>[](in_bom = {}) /\ <>[](Unique) => <>[](Open(issues) = {})
=============================================================================
