---------------------------- MODULE SlaViolations ----------------------------
(***************************************************************************)
(* SLA violations (sla_violation_profiler_extension): a job looks once at  *)
(* every released version of the configured components and stores which    *)
(* findings were overdue at some time before the release, rebuilt from the *)
(* rescorings of the delivery-db; another job publishes a report.          *)
(***************************************************************************)
EXTENDS Faults, Sequences, Functions

CONSTANTS
  Roots,        \* sequence of the configured components
  Vulnerabilities, \* those of a component all roots refer to
  Allowed,      \* Allowed[f]: days to process f; None: the severity has no limit
  Effects,      \* what a rescoring sets: [due |-> day or None, allowed |-> days or None]
  MaxVersions,  \* max_versions_limit of each root
  TicksPerDay,  \* bound: events of one day
  MaxTime       \* bound: end of time

ASSUME SlaAssumption ==
  /\ Roots \in Seq({Roots[i] : i \in DOMAIN Roots}) /\ Roots # <<>>
  /\ \A f \in Vulnerabilities : Allowed[f] # None => Allowed[f] \in Nat
  /\ \A effect \in Effects :
       effect.due \in Nat \union {None} /\ effect.allowed \in Nat \union {None}
  /\ None \notin Nat
  /\ TicksPerDay \in Nat \ {0} /\ MaxVersions \in Nat \ {0}

VARIABLES
  now,         \* time; no two events have the same
  found,       \* found[f]: its entry in the delivery-db, or None
  rescorings,  \* rescorings[f]: those that match f, oldest first
  released,    \* released[r]: times of creation of the versions of root r
  records,     \* SLA records: <<r, v>> -> violating findings
  profiler,    \* locals of main()
  reporter,    \* locals of the report's main()
  report,      \* sections of the published report
  overdue,     \* history: findings that have been overdue
  late,        \* history: late[r][v], those that had been when v was released
  rewritten    \* history: findings that, or rescorings of which, were removed or replaced

slaVars == <<now, found, rescorings, released, records, profiler, reporter, report,
             overdue, late, rewritten, faults>>
history == <<overdue, late, rewritten>>
delivery == <<now, found, rescorings, released>>
profiled == <<records, profiler>>
reported == <<reporter, report>>

RootNames == {Roots[i] : i \in DOMAIN Roots}
Day(t) == t \div TicksPerDay
\* A job that is about to begin.
NewProfiler == [pc |-> "list", root |-> 1, todo |-> {}, findings |-> <<>>, new |-> <<>>]
NewReporter == [pc |-> "write", root |-> 1, file |-> {}]

SlaInit ==
  /\ FaultsInit
  /\ now = 0
  /\ found = [f \in Vulnerabilities |-> None]
  /\ rescorings = [f \in Vulnerabilities |-> <<>>]
  /\ released = [r \in RootNames |-> <<>>]
  /\ records = <<>>
  /\ profiler = NewProfiler
  /\ reporter = NewReporter
  /\ report = {}
  /\ overdue = {}
  /\ late = [r \in RootNames |-> <<>>]
  /\ rewritten = {}

-----------------------------------------------------------------------------
(* Findings, rescorings and releases *)

InitialDeadline(f, entry) == entry.discovered + Allowed[f]
NewDeadline(entry, effect) ==
  IF effect.due # None THEN effect.due
  ELSE IF effect.allowed = None THEN None ELSE entry.discovered + effect.allowed
Passed(deadline, day) == deadline # None /\ day > deadline

\* The deadline in force: that of the latest rescoring.
Deadline(f, entry, matching) ==
  IF DOMAIN matching = {} THEN InitialDeadline(f, entry)
  ELSE NewDeadline(entry,
         matching[CHOOSE i \in DOMAIN matching : \A j \in DOMAIN matching : j <= i])

OverdueOn(day) ==
  {f \in Vulnerabilities :
     /\ found'[f] # None /\ Allowed[f] # None
     /\ Passed(Deadline(f, found'[f], rescorings'[f]), day)}

\* An event takes place now.
Event(kind) ==
  /\ Spend(kind)
  /\ now < MaxTime
  /\ now' = now + 1
  /\ overdue' = overdue \union OverdueOn(Day(now'))

\* A scan finds f; the discovery date may be that of an earlier entry.
Find(f) ==
  /\ found[f] = None
  /\ \E day \in {0, Day(now)} : found' = [found EXCEPT ![f] = [discovered |-> day, created |-> now]]
  /\ UNCHANGED <<rescorings, released, late, rewritten>>
  /\ Event("find")
  /\ UNCHANGED <<profiled, reported>>

\* A scan does not find f any more and deletes its entry.
Disappear(f) ==
  /\ found[f] # None
  /\ found' = [found EXCEPT ![f] = None]
  /\ rewritten' = rewritten \union {f}
  /\ UNCHANGED <<rescorings, released, late>>
  /\ Event("erase")
  /\ UNCHANGED <<profiled, reported>>

SameEffect(effect, rescoring) == rescoring.due = effect.due /\ rescoring.allowed = effect.allowed

\* A user rescores f; an equal rescoring made before, whose row has the same id, is replaced.
Rescore(f, effect) ==
  LET new == [due |-> effect.due, allowed |-> effect.allowed, at |-> now]
      equal == {i \in DOMAIN rescorings[f] : SameEffect(effect, rescorings[f][i])}
  IN /\ found[f] # None
     /\ \/ /\ equal = {}
           /\ rescorings' = [rescorings EXCEPT ![f] = Append(@, new)]
           /\ UNCHANGED rewritten
        \/ /\ \E i \in equal :
                rescorings' = [rescorings EXCEPT ![f] =
                  Append(SubSeq(@, 1, i - 1) \o SubSeq(@, i + 1, Len(@)), new)]
           /\ rewritten' = rewritten \union {f}
     /\ UNCHANGED <<found, released, late>>
     /\ Event("rescore")
     /\ UNCHANGED <<profiled, reported>>

\* A user deletes the latest rescoring of f.
DeleteRescoring(f) ==
  /\ rescorings[f] # <<>>
  /\ rescorings' = [rescorings EXCEPT ![f] = SubSeq(@, 1, Len(@) - 1)]
  /\ rewritten' = rewritten \union {f}
  /\ UNCHANGED <<found, released, late>>
  /\ Event("erase")
  /\ UNCHANGED <<profiled, reported>>

\* A new version of a root, whose descriptor carries the time of its creation.
Release(r) ==
  /\ released' = [released EXCEPT ![r] = Append(@, now)]
  /\ late' = [late EXCEPT ![r] = Append(@, overdue)]
  /\ UNCHANGED <<found, rescorings, rewritten>>
  /\ Event("release")
  /\ UNCHANGED <<profiled, reported>>

NextDay ==
  /\ now' = (Day(now) + 1) * TicksPerDay
  /\ now' <= MaxTime
  /\ UNCHANGED <<found, rescorings, released, late, rewritten>>
  /\ overdue' = overdue \union OverdueOn(Day(now'))
  /\ UNCHANGED <<profiled, reported, faults>>

-----------------------------------------------------------------------------
(* The profiler: concurrencyPolicy Forbid, so that there is one job at most *)

\* Mutant: rescorings made after the release count as well.
EveryRescoring(matching, release) == matching
\* filter_rescorings_before_release_date; what is left keeps its position.
Counted(matching, release) ==
  RestrictValues(matching, LAMBDA rescoring : rescoring.at < release)

\* iter_policy_violations: a rescoring after the deadline then in force, or the release after the
\* last one.
Violates(f, entry, counted, release) ==
  LET Earlier(i) == Restrict(counted, {j \in DOMAIN counted : j < i})
  IN \/ \E i \in DOMAIN counted :
          Passed(Deadline(f, entry, Earlier(i)), Day(counted[i].at))
     \/ Passed(Deadline(f, entry, counted), Day(release))

\* iter_version_sla_violations
Violations(entries, release) ==
  {f \in Vulnerabilities :
     /\ entries[f] # None
     /\ entries[f].created <= release
     /\ Allowed[f] # None
     /\ Violates(f, entries[f], Counted(rescorings[f], release), release)}

Newest(r, n) == {v \in DOMAIN released[r] : v > Len(released[r]) - n}

\* Mutant: versions with a record are profiled again.
EveryVersion(r) == Newest(r, MaxVersions)
Unprofiled(r) == {v \in Newest(r, MaxVersions) : <<r, v>> \notin DOMAIN records}

\* The job goes on with the next version, the next root, or the update.
Onward(job) ==
  IF job.todo # {} THEN [job EXCEPT !.pc = "findings"]
  ELSE [job EXCEPT !.pc = IF job.root = Len(Roots) THEN "store" ELSE "list",
                   !.root = IF job.root = Len(Roots) THEN @ ELSE @ + 1]

\* Records of findings of versions, and one more.
WithRecord(all, x, violating) ==
  [y \in DOMAIN all \union {x} |-> IF y = x THEN violating ELSE all[y]]

\* The versions of a root, and those with a record.
ListVersions ==
  /\ profiler.pc = "list"
  /\ profiler' = Onward([profiler EXCEPT !.todo = Unprofiled(Roots[profiler.root])])
  /\ UNCHANGED <<delivery, records, reported, history, faults>>

QueryFindings ==
  /\ profiler.pc = "findings"
  /\ profiler' = [profiler EXCEPT !.pc = "rescorings", !.findings = found]
  /\ UNCHANGED <<delivery, records, reported, history, faults>>

\* The versions are looked at one by one, the rescorings are queried after the findings.
QueryRescorings ==
  LET r == Roots[profiler.root]
  IN /\ profiler.pc = "rescorings"
     /\ \E v \in profiler.todo :
          profiler' = Onward([profiler EXCEPT
            !.todo = @ \ {v}, !.findings = <<>>,
            !.new = WithRecord(profiler.new, <<r, v>>,
                               Violations(profiler.findings, released[r][v]))])
     /\ UNCHANGED <<delivery, records, reported, history, faults>>

\* One request with the records of all roots.
StoreRecords ==
  /\ profiler.pc = "store"
  /\ records' = [x \in DOMAIN profiler.new \union DOMAIN records |->
                   IF x \in DOMAIN profiler.new THEN profiler.new[x] ELSE records[x]]
  /\ profiler' = NewProfiler
  /\ UNCHANGED <<delivery, reported, history, faults>>

\* A look-up or query fails, or the pod dies: the job ends and its records are lost.
AbortProfiler ==
  /\ profiler # NewProfiler
  /\ Spend("abort")
  /\ profiler' = NewProfiler
  /\ UNCHANGED <<delivery, records, reported, history>>

-----------------------------------------------------------------------------
(* The report: the roots are written one by one to the file of the configured name *)

\* _render_report: the file is opened for writing.
Rendered(file, section) == {section}

\* _generate_report_for_component: the newest version and its record, if there is one by now.  A
\* root without version ends the job.
WriteReport ==
  LET r == Roots[reporter.root]
      v == Len(released[r])
      section == [root |-> r, version |-> v,
                  violations |-> IF <<r, v>> \in DOMAIN records THEN records[<<r, v>>] ELSE None]
      job == [reporter EXCEPT !.file = Rendered(@, section)]
  IN /\ reporter.pc = "write"
     /\ reporter' = IF v = 0 THEN NewReporter
                    ELSE IF reporter.root = Len(Roots)
                      THEN [job EXCEPT !.pc = "push"] ELSE [job EXCEPT !.root = @ + 1]
     /\ UNCHANGED <<delivery, profiled, report, history, faults>>

\* Pushed to a branch, and the pull request is merged (auto_merge).
MergeReport ==
  /\ reporter.pc = "push"
  /\ \/ report' = reporter.file /\ UNCHANGED faults
     \/ Spend("abort") /\ UNCHANGED report
  /\ reporter' = NewReporter
  /\ UNCHANGED <<delivery, profiled, history>>

-----------------------------------------------------------------------------

ProfilerStep == ListVersions \/ QueryFindings \/ QueryRescorings \/ StoreRecords
ReporterStep == WriteReport \/ MergeReport

SlaNext ==
  \/ \E f \in Vulnerabilities :
       Find(f) \/ Disappear(f) \/ DeleteRescoring(f) \/ \E effect \in Effects : Rescore(f, effect)
  \/ \E r \in RootNames : Release(r)
  \/ NextDay
  \/ ProfilerStep \/ AbortProfiler
  \/ ReporterStep

\* The jobs are run again and again, and each goes on.
SlaFairness == WF_slaVars(ProfilerStep) /\ WF_slaVars(ReporterStep)

SlaSpec == SlaInit /\ [][SlaNext]_slaVars /\ SlaFairness

-----------------------------------------------------------------------------
(* Properties *)

\* A record names exactly the findings that were overdue at some time before the release, whenever
\* it was made: what happened after the release does not change it, nor does a later waiver undo
\* it.  Exempt are findings of which the delivery-db forgot something (a repeated rescoring counts
\* with its latest date only) and those whose severity has no limit.
RecordsAreRight ==
  \A x \in DOMAIN records :
    LET names == {f \in Vulnerabilities \ rewritten : Allowed[f] # None}
    IN records[x] \intersect names = late[x[1]][x[2]] \intersect names

\* A record stays as it is, even if findings and rescorings it was made from are gone.
RecordsStay ==
  [][\A x \in DOMAIN records : x \in DOMAIN records' /\ records'[x] = records[x]]_slaVars

HasVersion(r) == released[r] # <<>>
Latest(r) == <<r, Len(released[r])>>

\* The newest version of each root has a record in the end, and the report shows that of the last
\* root of the configuration.
NewestIsReported ==
  /\ \A r \in RootNames : <>[](HasVersion(r) => Latest(r) \in DOMAIN records)
  /\ LET r == Roots[Len(Roots)]
     IN <>[]((\A s \in RootNames : HasVersion(s)) =>
          [root |-> r, version |-> Len(released[r]), violations |-> records[Latest(r)]] \in report)

\* The docstring of sla_report.py: it "renders a markdown report per component".
EveryRootReported == report # {} => {section.root : section \in report} = RootNames
=============================================================================
