----------------------------- MODULE GhasAlerts -----------------------------
(***************************************************************************)
(* Secret scanning alerts of GitHub as findings (src/ghas.py, a cron job): *)
(* open alerts become findings, findings whose alert is no longer listed   *)
(* get a rescoring according to the alert's resolution.  The requests to   *)
(* GitHub (src/github_util.py) may fail one by one.                        *)
(***************************************************************************)
EXTENDS Faults, Sequences, FiniteSets

CONSTANTS
  Alerts,
  AlertOrg    \* AlertOrg[a]: the organisation of the alert

GhasAssumption == None \notin {"open", "resolved"}

AlertOrgs == {AlertOrg[a] : a \in Alerts}

VARIABLES
  alert,       \* alert[a]: None (not yet raised), "open" or "resolved"
  component,   \* alerts whose repository is an OCM component
  secrets,     \* findings in the delivery-db, <<alert, artefact>>
  verdicts,    \* verdicts[f]: rescorings of finding f by the cron job, by creation date
  reopened,    \* history: alerts that were opened again
  job          \* locals of scan()

ghasVars == <<alert, component, secrets, verdicts, reopened, job, faults>>

Places == {"source", "fallback"}
AlertFindings == Alerts \X Places

\* rescored[f]: None, or the resolution of the alert.
NoJob == [pc |-> "idle", orgs |-> {}, listed |-> {}, current |-> {}, pending |-> {},
          rescored |-> [f \in AlertFindings |-> None]]
Details(current, pending, rescored) ==
  [pc |-> "details", orgs |-> {}, listed |-> {}, current |-> current, pending |-> pending,
   rescored |-> rescored]

GhasInit ==
  /\ FaultsInit
  /\ alert = [a \in Alerts |-> None]
  /\ component = {}
  /\ secrets = {}
  /\ verdicts = [f \in AlertFindings |-> <<>>]
  /\ reopened = {}
  /\ job = NoJob

StartGhas ==
  /\ job.pc = "idle"
  /\ job' = [NoJob EXCEPT !.pc = "list", !.orgs = AlertOrgs]
  /\ UNCHANGED <<alert, component, secrets, verdicts, reopened, faults>>

\* get_secret_alerts: all open alerts of an organisation.
OpenAlerts(o) == {a \in Alerts : AlertOrg[a] = o /\ alert[a] = "open"}

\* github_api_request_paginated: a page that cannot be fetched is like an empty last page.
Answers(all) == SUBSET all

\* create_ghas_findings, organisation by organisation: what is missing, also because of an
\* exception, is only logged.
ListAlerts ==
  /\ job.pc = "list"
  /\ \E o \in job.orgs :
       \E got \in Answers(OpenAlerts(o)) :
         /\ IF got = OpenAlerts(o) THEN UNCHANGED faults ELSE Spend("github")
         /\ job' = [job EXCEPT !.orgs = @ \ {o}, !.listed = @ \union got,
                               !.pc = IF job.orgs = {o} THEN "place" ELSE "list"]
  /\ UNCHANGED <<alert, component, secrets, verdicts, reopened>>

\* build_artefact_from_finding: the main source of the component, if there is one.
PlaceOf(a) == IF a \in component THEN "source" ELSE "fallback"

\* Mutant: only the findings of the artefacts the alerts belong to now are read.
StaleHere(current) == {f \in secrets \ current : f[2] = PlaceOf(f[1])}
\* Findings of the delivery-db whose alert is not listed, at this artefact, any more.
Stale(current) == secrets \ current

\* The findings are placed, and those in the delivery-db are read.
CompareFindings ==
  LET current == {<<a, PlaceOf(a)>> : a \in job.listed}
  IN /\ job.pc = "place"
     /\ job' = Details(current, Stale(current), job.rescored)
     /\ UNCHANGED <<alert, component, secrets, verdicts, reopened, faults>>

\* The alert is requested once more; without a resolution it is still open.
Resolution(a) == alert[a]

\* One stale finding: a request that fails ends the job (None has no attribute get).
RequestDetails ==
  /\ job.pc = "details"
  /\ job.pending # {}
  /\ \/ \E f \in job.pending :
          /\ job' = Details(job.current, job.pending \ {f},
                            [job.rescored EXCEPT ![f] = Resolution(f[1])])
          /\ UNCHANGED faults
     \/ /\ Spend("github")
        /\ job' = NoJob
  /\ UNCHANGED <<alert, component, secrets, verdicts, reopened>>

\* ArtefactMetadata.put: a rescoring that exists keeps its creation date.
WithVerdict(old, verdict) ==
  IF \E i \in DOMAIN old : old[i] = verdict THEN old ELSE Append(old, verdict)

\* All of it is delivered at once, or nothing.
DeliverGhas ==
  /\ job.pc = "details"
  /\ job.pending = {}
  /\ \/ /\ secrets' = secrets \union job.current
        /\ verdicts' = [f \in AlertFindings |->
                          IF job.rescored[f] # None
                          THEN WithVerdict(verdicts[f], job.rescored[f]) ELSE verdicts[f]]
        /\ UNCHANGED faults
     \/ Spend("service") /\ UNCHANGED <<secrets, verdicts>>
  /\ job' = NoJob
  /\ UNCHANGED <<alert, component, reopened>>

-----------------------------------------------------------------------------
(* GitHub *)

RaiseAlert(a) ==
  /\ alert[a] = None
  /\ alert' = [alert EXCEPT ![a] = "open"]
  /\ UNCHANGED <<component, secrets, verdicts, reopened, job, faults>>

ResolveAlert(a) ==
  /\ alert[a] = "open"
  /\ Spend("resolve")
  /\ alert' = [alert EXCEPT ![a] = "resolved"]
  /\ UNCHANGED <<component, secrets, verdicts, reopened, job>>

ReopenAlert(a) ==
  /\ alert[a] = "resolved"
  /\ Spend("reopen")
  /\ alert' = [alert EXCEPT ![a] = "open"]
  /\ reopened' = reopened \union {a}
  /\ UNCHANGED <<component, secrets, verdicts, job>>

\* The first version of the component is published.
AddComponent(a) ==
  /\ a \notin component
  /\ Spend("component")
  /\ component' = component \union {a}
  /\ UNCHANGED <<alert, secrets, verdicts, reopened, job>>

GhasStep == StartGhas \/ ListAlerts \/ CompareFindings \/ RequestDetails \/ DeliverGhas

GhasNext ==
  \/ GhasStep
  \/ \E a \in Alerts :
       RaiseAlert(a) \/ ResolveAlert(a) \/ ReopenAlert(a) \/ AddComponent(a)

\* The cron job runs again and again, and goes on (failures are bounded).
GhasFairness == WF_ghasVars(GhasStep)

GhasSpec == GhasInit /\ [][GhasNext]_ghasVars /\ GhasFairness

-----------------------------------------------------------------------------
(* Properties *)

\* The most recent rescoring applies.
Effective(f) == IF verdicts[f] = <<>> THEN "open" ELSE verdicts[f][Len(verdicts[f])]

\* The alert behind a resolved finding has been resolved at some time: a page that was not fetched
\* or a finding that moved to another artefact does not make an open alert look resolved.
OpenIsNotResolved ==
  \A f \in secrets : Effective(f) = "resolved" => alert[f[1]] = "resolved" \/ f[1] \in reopened

\* An alert that stays open is a finding, and one that is not resolved, unless it was opened again:
\* the rescoring for its resolution stays the most recent one.
OpenIsReported ==
  \A a \in Alerts :
    <>[](alert[a] = "open") /\ [](a \notin reopened)
    => <>[](\E f \in secrets : f[1] = a /\ Effective(f) = "open")

\* "Automatically rescored due to closed GitHub alert": all findings of an alert that stays
\* resolved are rescored, if it was never opened again in between.
ResolvedIsRescored ==
  \A a \in Alerts :
    <>[](alert[a] = "resolved") /\ [](a \notin reopened)
    => <>[](\A f \in secrets : f[1] = a => Effective(f) = "resolved")

\* The findings end up as open or resolved as their alerts.
FindingsFollowAlerts == OpenIsReported /\ ResolvedIsRescored
=============================================================================
