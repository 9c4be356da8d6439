----------------------------- MODULE MCScanners -----------------------------
(***************************************************************************)
(* Instances of the extensions that scan for TLC.  The parts do not        *)
(* interact here: `part` says which one a behaviour is about, and the      *)
(* variables of the others do not change.                                  *)
(***************************************************************************)
EXTENDS CodeqlFindings, ArtefactScans, SbomStore, SlaViolations

VARIABLES
  part,
  spentB, leftB, spentG, leftG,                             \* faults
  engine, products, scans, awaiting, scored, hints,         \* bdba
  alert, component, secrets, verdicts, reopened, job        \* ghas

Limits(kinds, n) == [kind \in kinds |-> n]
With(limits, kind, n) == [limits EXCEPT ![kind] = n]

\* BDBA: two versions of a component and two pods; a new engine rates one vulnerability lower and
\* does not report the other one any more.  Either two pods upload the artefact as two products, or
\* a user overwrites the version of a package or a binary is deleted.
BdbaLimit == Limits({"retry", "http", "fail", "retention", "hint", "crash"}, 1)
OneProductOrNeither ==
  Len(products') <= 1 \/ \A kind \in {"hint", "retention"} : spentB'[kind] = 0
B == INSTANCE BdbaScans WITH
  Owners <- {"v1", "v2"}, Scanners <- {"w1", "w2"}, Cves <- {"a", "b"},
  Score <- <<[v \in {"a", "b"} |-> IF v = "a" THEN 2 ELSE 1],
             [v \in {"a", "b"} |-> IF v = "a" THEN 1 ELSE 0]>>, ForceUpload <- FALSE,
  Limit <- BdbaLimit, MaxFaults <- 1,
  spent <- spentB, left <- leftB

\* GHAS: an alert in each of two organisations.
GhasLimit == With(Limits({"github", "service", "resolve", "reopen", "component"}, 1), "github", 2)
G == INSTANCE GhasAlerts WITH
  Alerts <- {"a1", "a2"}, AlertOrg <- [a \in {"a1", "a2"} |-> IF a = "a1" THEN "o1" ELSE "o2"],
  Limit <- GhasLimit, MaxFaults <- 3, spent <- spentG, left <- leftG

\* CodeQL: a repository of up to three languages, one of which is excluded.
\* The other extensions: two overlapping scans of an artefact with up to two findings.
\* SBOMs: two artefacts, one of which is built anew.
TwoSources == [x \in {"x1", "x2"} |-> IF x = "x1" THEN {"d1", "d2"} ELSE {"d3"}]
\* SLA violations: two components that refer to one with a vulnerability; events of three days, two
\* on each, and of a fourth.
TwoRoots == <<"r1", "r2">>
OneDay == [f \in {"f1"} |-> 1]
ThreeEffects == {[due |-> None, allowed |-> None], [due |-> None, allowed |-> 2],
                 [due |-> 1, allowed |-> 1]}

Twice == {"github", "service", "repository", "label", "fact", "rebuild", "bom", "rescore",
          "release"}
Once == {"scan", "die", "queryFails", "kill", "lostAnswer", "deleteFails", "abortCleanup",
         "find", "erase", "abort"}
OnceOrTwice == [kind \in Once \union Twice |-> IF kind \in Twice THEN 2 ELSE 1]

\* How many of the MaxFaults faults a behaviour of a part contains.
Bounded(n) == left' >= MaxFaults - n

ASSUME InstanceAssumption == B!BdbaAssumption /\ G!GhasAssumption

Init ==
  /\ part \in {"codeql", "bdba", "ghas", "scans", "sboms", "sla"}
  /\ part # "codeql" => repository = [languages |-> {}, active |-> {}]
  /\ CodeqlInit
  /\ B!BdbaInit
  /\ G!GhasInit
  /\ part # "scans" => extension = "sast" /\ facts = NoFinding /\ unreadable = {}
  /\ ScansInit
  /\ part # "sboms" =>
       on_exist = "skip" /\ document = [x \in Sources |-> IF x = "x1" THEN "d1" ELSE "d3"]
  /\ SbomInit
  /\ SlaInit

codeqlState == <<repository, labelled, notEnabled, accepted, scan, wasCovered>>
bdbaState == <<engine, products, scans, awaiting, scored, hints, spentB, leftB>>
ghasState == <<alert, component, secrets, verdicts, reopened, job, spentG, leftG>>
scansState == <<extension, facts, unreadable, sbom, stored, bogus, scanned, worker>>
sbomsState == <<on_exist, bom, document, blobs, sboms, gen, cleanup, meddled>>
slaState == <<now, found, rescorings, released, records, profiler, reporter, report,
              overdue, late, rewritten>>

Next ==
  \/ /\ part = "codeql" /\ CodeqlNext /\ Bounded(3)
     /\ UNCHANGED <<part, bdbaState, ghasState, scansState, sbomsState, slaState>>
  \/ /\ part = "bdba" /\ B!BdbaNext /\ OneProductOrNeither
     /\ UNCHANGED <<part, codeqlState, ghasState, scansState, sbomsState, slaState, faults>>
  \/ /\ part = "ghas" /\ G!GhasNext
     /\ UNCHANGED <<part, codeqlState, bdbaState, scansState, sbomsState, slaState, faults>>
  \/ /\ part = "scans" /\ ScansNext /\ Bounded(1)
     /\ UNCHANGED <<part, codeqlState, bdbaState, ghasState, sbomsState, slaState>>
  \/ /\ part = "sboms" /\ SbomNext /\ Bounded(2)
     /\ UNCHANGED <<part, codeqlState, bdbaState, ghasState, scansState, slaState>>
  \/ /\ part = "sla" /\ SlaNext /\ Bounded(3)
     /\ UNCHANGED <<part, codeqlState, bdbaState, ghasState, scansState, sbomsState>>

vars == <<part, codeqlState, bdbaState, ghasState, scansState, sbomsState, slaState, faults>>

Spec == Init /\ [][Next]_vars

-----------------------------------------------------------------------------
(* The fairness of the parts, while the part is the one in use *)

\* B!BdbaFairness and G!GhasFairness.
BdbaFairness ==
  /\ \A w \in {"w1", "w2"} : WF_bdbaState(part = "bdba" /\ B!Work(w))
  /\ \A i \in 1..2 : WF_bdbaState(part = "bdba" /\ i \in DOMAIN products /\ B!FinishProduct(i))
  /\ \A o \in {"v1", "v2"} : WF_bdbaState(part = "bdba" /\ B!ScanIsDue(o))
GhasFairness == WF_ghasState(part = "ghas" /\ G!GhasStep)

-----------------------------------------------------------------------------
(* The properties of the parts *)

\* CodeqlFindings: the findings end up as the analyses of the repository.
AnalysesSettle == (part = "codeql" /\ CodeqlFairness) => FindingsFollowAnalyses

\* BdbaScans: no failure removes a finding, and in the end they are those of the latest engine.
FindingsFollowEngine ==
  B!FailuresKeepFindings /\ ((part = "bdba" /\ BdbaFairness) => B!FindingsFollowEngine)

\* GhasAlerts: an open alert is not shown as resolved, and in the end findings follow alerts.
FindingsFollowAlerts ==
  []G!OpenIsNotResolved /\ ((part = "ghas" /\ GhasFairness) => G!FindingsFollowAlerts)

\* ArtefactScans: what is a fact stays a finding, and what is none does not.
FindingsFollowFacts ==
  FindingsStay /\ ((part = "scans" /\ ScansFairness) => FactsAreReported /\ GoneFindingsAreDeleted)

\* SbomStore: unused SBOMs are removed in the end.
SbomsAreCleanedUp == (part = "sboms" /\ SbomFairness) => UnusedHaveNoSbom

\* SlaViolations: a record stays as it is, and the newest version gets one, which the report shows.
SlaIsReported == RecordsStay /\ ((part = "sla" /\ SlaFairness) => NewestIsReported)
=============================================================================
