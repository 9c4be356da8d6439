----------------------------- MODULE Rescoring -----------------------------
(***************************************************************************)
(* Rescorings of findings: users post and delete them                      *)
(* (src/rescore/artefacts.py); the rescoring proposals, the compliance     *)
(* summary (src/compliance_summary.py) and the issue replicator            *)
(* (src/issue_replicator/__main__.py) each decide on their own which of    *)
(* them apply to a finding (src/rescore/utility.py) and when it is due     *)
(* (src/odg/findings.py, src/sprints/util.py).                             *)
(***************************************************************************)
EXTENDS Faults, Sequences, Functions

CONSTANTS
  Places,       \* artefacts in use: [component, version, artefact, release]
  Unversioned,  \* those whose findings are stored without the component version (BDBA)
  Categories,   \* by severity: [value, time], time None if nothing has to be done
  Due,          \* Due[i]: the day the i-th sprint ends on, ascending
  Offset        \* sprint_assignment_offset

Attributes == {"component", "version", "artefact", "release"}

ASSUME RescoringAssumption ==
  /\ \A p \in Places : /\ p = [field \in Attributes |-> p[field]]
                       /\ \A field \in Attributes : p[field] # None
  \* The extension that reports the findings decides, for all versions.
  /\ \A p, q \in Places : p.component = q.component /\ p.artefact = q.artefact =>
       (p \in Unversioned <=> q \in Unversioned)
  /\ Categories \in Seq([value : Nat, time : Nat \union {None}]) /\ Categories # <<>>
  /\ Due \in Seq(Nat) /\ Due # <<>> /\ Offset \in Int
  /\ None \notin Nat

VARIABLES
  findings,     \* findings[x]: the finding of artefact x, None without
  rescorings,   \* the rescorings, newest first: [scope, category, due]
  replication,  \* locals of the issue replicator
  shown         \* shown[x]: the sprint whose issue shows the finding of x, None if no issue does

rescoringVars == <<findings, rescorings, replication, shown, faults>>

Row(p) == IF p \in Unversioned THEN [p EXCEPT !.version = None] ELSE p
Rows == {Row(p) : p \in Places}
Group(x) == [component |-> x.component, artefact |-> x.artefact]
ArtefactGroups == {Group(p) : p \in Places}

\* scoped_component_artefact_id: global, component, artefact, single.
Scopes(x) ==
  {[field \in DOMAIN x |-> IF field \in kept THEN x[field] ELSE None] :
     kept \in {{}, {"component"}, {"component", "artefact"}, DOMAIN x}}

Resting == [pc |-> "idle", group |-> None, findings |-> None, rescorings |-> None]

RescoringInit ==
  /\ FaultsInit
  /\ findings = [x \in Rows |-> None]
  /\ rescorings = <<>>
  /\ replication = Resting
  /\ shown = [x \in Rows |-> None]

-----------------------------------------------------------------------------
(* Which rescorings apply to a finding *)

IfSet(candidate, actual) == candidate = None \/ candidate = actual

\* _iter_rescorings_for_finding; a finding without component version matches any.
Matches(r, x) ==
  /\ \A field \in {"component", "artefact", "release"} : IfSet(r.scope[field], x[field])
  /\ x.version = None \/ IfSet(r.scope.version, x.version)

\* Newest first, which is the order they are kept in here: what is selected keeps its position.
ForFinding(x, rs) == RestrictValues(rs, LAMBDA r : Matches(r, x))
NewestOf(rs) ==
  IF DOMAIN rs = {} THEN None ELSE rs[CHOOSE i \in DOMAIN rs : \A j \in DOMAIN rs : i <= j]

\* The rows the queries for artefact p yield: each attribute is unset or that of p.
Selected(p, rs) ==
  RestrictValues(rs, LAMBDA r : \A field \in DOMAIN p : IfSet(r.scope[field], p[field]))

\* The rescoring proposals of artefact p.
ProposalRescorings(p, rs) == ForFinding(Row(p), Selected(p, rs))

\* The summary of a component fetches the rescorings of the component and leaves out those of
\* other artefacts.
SummaryWithoutGlobal(p, rs) ==
  ForFinding(Row(p), RestrictValues(rs, LAMBDA r : /\ r.scope.component = p.component
                                                   /\ IfSet(r.scope.version, p.version)
                                                   /\ IfSet(r.scope.artefact, p.artefact)
                                                   /\ IfSet(r.scope.release, p.release)))
SummaryRescorings(p, rs) ==
  LET component == RestrictValues(rs, LAMBDA r : /\ IfSet(r.scope.component, p.component)
                                                 /\ IfSet(r.scope.version, p.version))
  IN ForFinding(Row(p), RestrictValues(component, LAMBDA r : /\ IfSet(r.scope.artefact, p.artefact)
                                                             /\ IfSet(r.scope.release, p.release)))

\* The issue replicator fetches those of all artefacts of the group.
GroupRescorings(g, rs) ==
  RestrictValues(rs, LAMBDA r : \E p \in Places :
                       Group(p) = g /\ \A field \in DOMAIN p : IfSet(r.scope[field], p[field]))

\* rescore_finding: an operation moves the categorisation up or down, no further than the last.
Operated(category, by) ==
  CASE category + by > Len(Categories) -> Len(Categories)
    [] category + by < 1 -> 1
    [] OTHER -> category + by

-----------------------------------------------------------------------------
(* When a finding is due *)

\* effective_due_date; None: there is nothing left to do.
DueDate(f, r) ==
  CASE r = None -> IF Categories[f.category].time = None
                   THEN None ELSE f.discovered + Categories[f.category].time
    [] r # None /\ r.due # None -> r.due
    [] r # None /\ r.due = None -> IF Categories[r.category].time = None
                                   THEN None ELSE f.discovered + Categories[r.category].time

\* find_sprint_for_ref_date: the first sprint that ends on the date or later, moved by the offset
\* as far as there are sprints; the last one if none does.
First(date) == CHOOSE i \in 1..Len(Due) : Due[i] >= date /\ \A j \in 1..i-1 : Due[j] < date
Moved(i) == IF i < 1 THEN 1 ELSE IF i > Len(Due) THEN Len(Due) ELSE i
SprintFor(date) ==
  CASE date = None -> None
    [] date # None /\ \E i \in 1..Len(Due) : Due[i] >= date -> Moved(First(date) + Offset)
    [] OTHER -> Len(Due)

\* _iter_findings_with_sprints: the newest rescoring that applies decides, without one the finding.
Original(f, rs) == SprintFor(DueDate(f, None))
ToShow(f, rs) == SprintFor(DueDate(f, NewestOf(rs)))

-----------------------------------------------------------------------------
(* The actions *)

Without(i) == SubSeq(rescorings, 1, i - 1) \o SubSeq(rescorings, i + 1, Len(rescorings))

\* Rescore.post: an equal rescoring, whose row has the same id, is replaced in the same
\* transaction.
Rescore(x, scope, category, due) ==
  LET new == [scope |-> scope, category |-> category, due |-> due]
  IN /\ Spend("rescore")
     /\ \/ /\ \A i \in DOMAIN rescorings : rescorings[i] # new
           /\ rescorings' = <<new>> \o rescorings
        \/ \E i \in DOMAIN rescorings :
             rescorings[i] = new /\ rescorings' = <<new>> \o Without(i)
     /\ UNCHANGED <<findings, replication, shown>>

Unscore(i) ==
  /\ Spend("unscore")
  /\ rescorings' = Without(i)
  /\ UNCHANGED <<findings, replication, shown>>

\* An extension reports a finding, or the finding is gone.
FindingChanges(x) ==
  /\ Spend("findings")
  /\ \/ /\ findings[x] = None
        /\ \E category \in 1..Len(Categories), day \in 0..1 :
             findings' = [findings EXCEPT ![x] = [category |-> category, discovered |-> day]]
     \/ findings[x] # None /\ findings' = [findings EXCEPT ![x] = None]
  /\ UNCHANGED <<rescorings, replication, shown>>

\* The group is processed: a rescoring asked for it, or its interval has passed.
\* _iter_findings_for_artefact fetches the findings, and then the rescorings.
FetchFindings(g) ==
  /\ replication.pc = "idle"
  /\ replication' = [Resting EXCEPT !.pc = "rescorings", !.group = g, !.findings = findings]
  /\ UNCHANGED <<findings, rescorings, shown, faults>>

ReadRescorings ==
  /\ replication.pc = "rescorings"
  /\ replication' = [replication EXCEPT !.pc = "show",
                       !.rescorings = GroupRescorings(replication.group, rescorings)]
  /\ UNCHANGED <<findings, rescorings, shown, faults>>

\* A finding without a due date is in no sprint's issue.
ShowIssues ==
  /\ replication.pc = "show"
  /\ shown' = [x \in Rows |->
       IF Group(x) # replication.group THEN shown[x]
       ELSE IF replication.findings[x] = None THEN None
       ELSE ToShow(replication.findings[x], ForFinding(x, replication.rescorings))]
  /\ replication' = Resting
  /\ UNCHANGED <<findings, rescorings, faults>>

RescoringNext ==
  \/ \E x \in Rows : \E scope \in Scopes(x) : \E due \in {None, Due[Len(Due)] + 1} :
       \E category \in 1..Len(Categories) : Rescore(x, scope, category, due)
  \/ \E i \in 1..Len(rescorings) : Unscore(i)
  \/ \E x \in Rows : FindingChanges(x)
  \/ \E g \in ArtefactGroups : FetchFindings(g)
  \/ ReadRescorings
  \/ ShowIssues

\* Every group is processed again and again, at its interval.
RescoringFairness ==
  /\ \A g \in ArtefactGroups : SF_rescoringVars(FetchFindings(g))
  /\ WF_rescoringVars(ReadRescorings \/ ShowIssues)

RescoringSpec == RescoringInit /\ [][RescoringNext]_rescoringVars /\ RescoringFairness

-----------------------------------------------------------------------------
(* Properties *)

\* The sprint of the newest rescoring that applies to the finding of x, or else of the finding.
View(x) ==
  IF findings[x] = None THEN None
  ELSE SprintFor(DueDate(findings[x], NewestOf(ForFinding(x, rescorings))))

\* The three readers fetch different supersets of the rescorings of a finding, and agree on those
\* that apply to it.
ConsumersAgree ==
  \A p \in Places : findings[Row(p)] # None =>
    /\ ProposalRescorings(p, rescorings) = SummaryRescorings(p, rescorings)
    /\ ProposalRescorings(p, rescorings)
         = ForFinding(Row(p), GroupRescorings(Group(p), rescorings))

\* A finding that is due later is never shown for an earlier sprint, with whatever rescorings.
SprintsInOrder ==
  \A x, y \in Rows :
    LET due(z) == DueDate(findings[z], NewestOf(ForFinding(z, rescorings)))
    IN findings[x] # None /\ findings[y] # None /\ due(x) # None /\ due(y) # None =>
         (due(x) <= due(y) => View(x) <= View(y))

\* A rescoring rule keeps the order of two findings, and yields a categorisation there is.
RulesKeepOrder ==
  \A x, y \in Rows : findings[x] # None /\ findings[y] # None =>
    \A by \in -Len(Categories)..Len(Categories) :
      /\ Operated(findings[x].category, by) \in DOMAIN Categories
      /\ findings[x].category <= findings[y].category =>
           Operated(findings[x].category, by) <= Operated(findings[y].category, by)

RescoringsAgree == ConsumersAgree /\ SprintsInOrder /\ RulesKeepOrder

\* However reads and rescorings interleave, in the end every finding is in the issue of the sprint
\* that its newest rescoring, or else its own categorisation, gives it.
IssuesFollowRescorings == <>[](\A x \in Rows : shown[x] = View(x))
=============================================================================
