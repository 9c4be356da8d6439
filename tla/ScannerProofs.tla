---------------------------- MODULE ScannerProofs -----------------------------
(***************************************************************************)
(* What the scanners guarantee: no finding of CodeqlFindings is rescored   *)
(* because GitHub did not answer, what ArtefactScans says was scanned is   *)
(* complete, the records of SlaViolations name what had been overdue, no   *)
(* open alert of GhasAlerts is shown as resolved, and no failure of        *)
(* BdbaScans deletes a finding; for all languages, findings, alerts,       *)
(* workers, products, versions and rescorings and any number of failures.  *)
(***************************************************************************)
EXTENDS CodeqlFindings, ArtefactScans, SlaViolations, GhasAlerts, BdbaScans, TLAPS,
        SequenceTheorems

-----------------------------------------------------------------------------
(* CodeQL *)

CodeqlTypeOK ==
  /\ repository \in [languages : SUBSET Languages, active : SUBSET Languages]
  /\ labelled \in BOOLEAN
  /\ notEnabled \subseteq Languages
  /\ accepted \subseteq Languages
  /\ wasCovered \subseteq Languages
  /\ scan \in [pc : {"idle", "label", "languages", "analyses"},
               existing : SUBSET Languages, languages : SUBSET Languages]

\* The history knows the present, and what the languages a scan has read tell of a time between its
\* beginning and now: a language that is not among them needed no finding at that time.
Remembered ==
  /\ \A l \in Languages : Covered(repository, l) => l \in wasCovered
  /\ scan.pc = "analyses" => \A l \in Languages : l \notin scan.languages => l \in wasCovered

CodeqlInv == Remembered /\ AcceptedWasCovered

\* Initially there is neither a finding nor a scan.
LEMMA CodeqlInitial == CodeqlInit => CodeqlTypeOK /\ CodeqlInv
<1> SUFFICES ASSUME CodeqlInit PROVE CodeqlTypeOK /\ CodeqlInv
  OBVIOUS
<1>1. PICK all \in SUBSET Languages : repository = [languages |-> all, active |-> {}]
  BY DEF CodeqlInit
<1>2. wasCovered = Languages \ Missing(repository) /\ scan = IdleScan /\ notEnabled = {}
        /\ accepted = {} /\ labelled = FALSE
  BY DEF CodeqlInit
<1>3. CodeqlTypeOK
  BY <1>1, <1>2 DEF CodeqlTypeOK, IdleScan
<1>4. CodeqlInv
  BY <1>2 DEF CodeqlInv, Remembered, AcceptedWasCovered, IdleScan, Missing
<1> QED
  BY <1>3, <1>4

\* A step of a scan: what it rescores was not among the languages it read, or is analysed now.
LEMMA CodeqlScans ==
  CodeqlTypeOK /\ CodeqlInv /\ CodeqlStep => CodeqlTypeOK' /\ CodeqlInv'
<1> SUFFICES ASSUME CodeqlTypeOK, CodeqlInv, CodeqlStep PROVE CodeqlTypeOK' /\ CodeqlInv'
  OBVIOUS
<1> USE DEF CodeqlTypeOK, CodeqlInv, Remembered, AcceptedWasCovered, IdleScan
<1>1. CASE BeginCodeqlScan
  BY <1>1 DEF BeginCodeqlScan, Covered
<1>2. CASE CheckScanPolicy
  BY <1>2 DEF CheckScanPolicy, Covered
<1>3. CASE RequestLanguages
  <2>1. UNCHANGED <<repository, labelled, notEnabled, accepted, wasCovered>>
    BY <1>3 DEF RequestLanguages
  <2>2. CASE scan' = IdleScan
    BY <2>1, <2>2 DEF Covered
  <2>3. CASE scan' = [scan EXCEPT !.pc = "analyses", !.languages = repository.languages]
    <3>1. scan' \in [pc : {"analyses"}, existing : SUBSET Languages, languages : SUBSET Languages]
      BY <2>3
    <3>2. scan'.languages = repository.languages
      BY <2>3
    <3>3. \A l \in Languages : l \notin repository.languages => l \in wasCovered
      BY DEF Covered
    <3> QED
      BY <2>1, <3>1, <3>2, <3>3 DEF Covered
  <2> QED
    BY <1>3, <2>2, <2>3 DEF RequestLanguages, NoAnswerAtAll
<1>4. CASE RequestAnalyses
  <2>1. PICK got \in SUBSET repository.active :
          \/ /\ notEnabled' = notEnabled \union ((scan.languages \ ExcludedLanguages) \ got)
             /\ accepted' = accepted \union Rescored((scan.languages \ ExcludedLanguages) \ got)
          \/ UNCHANGED <<notEnabled, accepted>>
    BY <1>4 DEF RequestAnalyses
  <2>2. scan.pc = "analyses" /\ scan' = IdleScan /\ UNCHANGED <<repository, labelled, wasCovered>>
    BY <1>4 DEF RequestAnalyses
  <2>3. Rescored((scan.languages \ ExcludedLanguages) \ got) \subseteq wasCovered
    <3> SUFFICES ASSUME NEW l \in scan.existing,
                        l \notin (scan.languages \ ExcludedLanguages) \ got
                 PROVE  l \in wasCovered
      BY DEF Rescored
    <3>1. l \in Languages
      OBVIOUS
    <3>2. CASE l \notin scan.languages
      BY <2>2, <3>1, <3>2
    <3>3. CASE l \in ExcludedLanguages \/ l \in got
      BY <3>1, <3>3 DEF Covered
    <3> QED
      BY <3>2, <3>3
  <2>4. CodeqlTypeOK'
    BY <2>1, <2>2, <2>3
  <2> QED
    BY <2>1, <2>2, <2>3, <2>4 DEF Covered
<1> QED
  BY <1>1, <1>2, <1>3, <1>4 DEF CodeqlStep

\* Changes of the repository only add to the history.
LEMMA CodeqlChanges ==
  ASSUME CodeqlTypeOK, CodeqlInv,
         LabelSource \/ \E languages, active \in SUBSET Languages :
                          ChangeRepository([languages |-> languages, active |-> active])
  PROVE  CodeqlTypeOK' /\ CodeqlInv'
<1> USE DEF CodeqlTypeOK, CodeqlInv, Remembered, AcceptedWasCovered
<1>1. CASE LabelSource
  BY <1>1 DEF LabelSource, Covered
<1>2. ASSUME NEW languages \in SUBSET Languages, NEW active \in SUBSET Languages,
             ChangeRepository([languages |-> languages, active |-> active])
      PROVE  CodeqlTypeOK' /\ CodeqlInv'
  <2>1. wasCovered' = wasCovered \union (Languages \ Missing(repository'))
    BY <1>2 DEF ChangeRepository
  <2>2. \A l \in Languages : Covered(repository, l)' => l \in wasCovered'
    BY <2>1 DEF Missing, Covered
  <2> QED
    BY <1>2, <2>1, <2>2 DEF ChangeRepository
<1> QED
  BY <1>1, <1>2

\* The history of languages that needed no finding holds those of the present, and those that a scan
\* in progress has not seen among the languages it read earlier.
THEOREM CodeqlInvariant == CodeqlSpec => [](CodeqlTypeOK /\ CodeqlInv)
<1>1. ASSUME CodeqlTypeOK /\ CodeqlInv, [CodeqlNext]_codeqlVars
      PROVE  (CodeqlTypeOK /\ CodeqlInv)'
  <2>1. CASE CodeqlNext
    BY <1>1, <2>1, CodeqlScans, CodeqlChanges DEF CodeqlNext
  <2>2. CASE UNCHANGED codeqlVars
    BY <1>1, <2>2 DEF codeqlVars, CodeqlTypeOK, CodeqlInv, Remembered, AcceptedWasCovered, Covered
  <2> QED
    BY <1>1, <2>1, <2>2
<1> QED
  BY <1>1, CodeqlInitial, PTL DEF CodeqlSpec

\* The types of the variables of CodeqlFindings.
THEOREM CodeqlTypeCorrect == CodeqlSpec => []CodeqlTypeOK
  BY CodeqlInvariant, PTL

\* Requests to GitHub that fail, in any number and at any time, rescore no finding which was
\* justified all the time.
THEOREM RescoredWasCovered == CodeqlSpec => []AcceptedWasCovered
<1>1. CodeqlTypeOK /\ CodeqlInv => AcceptedWasCovered
  BY DEF CodeqlInv
<1> QED
  BY <1>1, CodeqlInvariant, PTL

-----------------------------------------------------------------------------
(* Scanner orchestration *)

Scans == [pc : {"idle", "sbom", "scan", "existing", "delete", "store"}, todo : SUBSET Findings,
          result : Facts, errors : SUBSET Findings, existing : SUBSET Findings]

ScansTypeOK ==
  /\ FaultsTypeOK
  /\ extension \in Extensions
  /\ facts \in Facts
  /\ unreadable \in SUBSET Findings
  /\ sbom \in BOOLEAN
  /\ stored \in Facts
  /\ bogus \in SUBSET Findings
  /\ scanned \in BOOLEAN
  /\ worker \in [Workers -> Scans]

\* What a scan sees of a file, and what is then stored of it.
Seen(f) == IF f \in unreadable THEN None ELSE facts[f]
Claimed(f) == IF f \notin unreadable /\ Categorised(facts[f]) THEN facts[f] ELSE None

\* A scan has seen what is the case, of the files that could be read, and knows the others.  It goes
\* on when it has seen everything.  The findings it has read are still findings.
IsTrue(task) ==
  task.pc # "idle" =>
    /\ \A f \in Findings : task.result[f] = IF f \in task.todo THEN None ELSE Seen(f)
    /\ task.errors = unreadable \ task.todo
    /\ task.pc \in {"existing", "delete", "store"} => task.todo = {}
    /\ \A f \in task.existing : Claimed(f) # None

\* As long as the facts are the same, there are no findings but them, and the errors.
ScansInv ==
  Never("fact") =>
    /\ \A w \in Workers : IsTrue(worker[w])
    /\ \A f \in Findings : stored[f] \in {None, Claimed(f)}
    /\ bogus \subseteq ReportedErrors(unreadable)
    /\ ScannedIsComplete

LEMMA RestingType == Resting \in Scans /\ IsTrue(Resting)
  BY DEF Resting, Scans, NoFinding, Facts, IsTrue

\* What is stored of a scan that has seen everything.
LEMMA ClaimedIsSeen ==
  ASSUME NEW f
  PROVE  /\ Categorised(Seen(f)) => Seen(f) = Claimed(f)
         /\ ~Categorised(Seen(f)) => Claimed(f) = None
         /\ Categorised(Seen(f)) <=> Claimed(f) # None
  BY DEF Seen, Claimed, Categorised

\* A step that spends a unit of some kind: if no fact changed so far, none had changed before.
LEMMA SpendType ==
  ASSUME FaultsTypeOK, NEW kind, Spend(kind)
  PROVE  FaultsTypeOK' /\ (Never("fact")' => Never("fact"))
<1>1. CASE kind \in DOMAIN Limit
  BY <1>1, ScansAssumption, LimitAssumption DEF FaultsTypeOK, Spend, Never
<1>2. CASE kind \notin DOMAIN Limit
  <2>1. spent' = spent /\ left' \in Nat
    BY <1>2 DEF FaultsTypeOK, Spend
  <2>. QED  BY <2>1 DEF FaultsTypeOK, Never
<1>. QED  BY <1>1, <1>2

LEMMA SpendFact ==
  ASSUME FaultsTypeOK, Spend("fact")
  PROVE  ~Never("fact")'
  BY ScansAssumption DEF FaultsTypeOK, Spend, Never

LEMMA SeenStays ==
  ASSUME UNCHANGED <<extension, facts, unreadable>>
  PROVE  /\ \A v : IsTrue(worker'[v]) => IsTrue(worker[v])'
         /\ \A f : (Claimed(f))' = Claimed(f)
<1>1. \A f : (Seen(f))' = Seen(f) /\ (Claimed(f))' = Claimed(f)
  BY DEF Seen, Claimed
<1>2. \A v : IsTrue(worker'[v]) => IsTrue(worker[v])'
  BY <1>1 DEF IsTrue
<1>. QED  BY <1>1, <1>2

\* Steps of a scan which store nothing and of which IsTrue remains true.
LEMMA ScanGoesOn ==
  ASSUME ScansTypeOK, ScansInv, FaultsTypeOK', Never("fact")' => Never("fact"),
         UNCHANGED <<extension, facts, unreadable, stored, bogus, scanned>>, sbom' \in BOOLEAN,
         NEW w \in Workers, NEW r \in Scans, Becomes(w, r),
         Never("fact") => IsTrue(r)
  PROVE  ScansTypeOK' /\ ScansInv'
<1>1. ScansTypeOK'
  BY DEF ScansTypeOK, Becomes
<1>2. ScansInv'
  <2> SUFFICES ASSUME Never("fact")' PROVE
         /\ \A v \in Workers : IsTrue(worker[v])'
         /\ \A f \in Findings : (stored[f] \in {None, Claimed(f)})'
         /\ (bogus \subseteq ReportedErrors(unreadable))'
         /\ ScannedIsComplete'
    BY DEF ScansInv
  <2>1. \A v \in Workers : worker'[v] = IF v = w THEN r ELSE worker[v]
    BY DEF ScansTypeOK, Becomes
  <2>2. \A v \in Workers : IsTrue(worker'[v])
    BY <2>1 DEF ScansInv
  <2>3. \A v \in Workers : IsTrue(worker[v])'
    BY <2>2, SeenStays
  <2>4. /\ \A f \in Findings : stored[f] \in {None, Claimed(f)}
        /\ bogus \subseteq ReportedErrors(unreadable)
        /\ ScannedIsComplete
    BY DEF ScansInv
  <2>. QED  BY <2>3, <2>4 DEF ScannedIsComplete, Claimed, ReportedErrors
<1>. QED  BY <1>1, <1>2

\* Steps that leave the facts and the findings alone.
LEMMA ScanReads ==
  ASSUME ScansTypeOK, ScansInv, NEW w \in Workers,
         \/ BeginScan(w) \/ FetchSbom(w) \/ Scan(w) \/ ReadStored(w)
         \/ ScanBreaks(w) \/ WorkerDies(w)
  PROVE  ScansTypeOK' /\ ScansInv' /\ UNCHANGED stored
<1>0. worker[w] \in Scans /\ (Never("fact") => IsTrue(worker[w]))
  BY DEF ScansTypeOK, ScansInv
<1>1. /\ UNCHANGED <<extension, facts, unreadable, sbom, stored, bogus, scanned>>
      /\ UNCHANGED faults \/ Spend("scan") \/ Spend("die")
  BY DEF BeginScan, FetchSbom, Scan, ReadStored, ScanBreaks, WorkerDies
<1>2. FaultsTypeOK' /\ (Never("fact")' => Never("fact"))
  <2>1. CASE UNCHANGED faults
    BY <2>1 DEF ScansTypeOK, FaultsTypeOK, faults, Never
  <2>. QED  BY <1>1, <2>1, SpendType DEF ScansTypeOK
<1>3. PICK r \in Scans : Becomes(w, r) /\ (Never("fact") => IsTrue(r))
  <2>1. CASE BeginScan(w)
    <3> DEFINE r == [Resting EXCEPT !.pc = FirstStep, !.todo = Findings]
    <3>1. r \in Scans
      BY DEF Resting, Scans, NoFinding, Facts, FirstStep
    <3>2. IsTrue(r)
      BY DEF Resting, IsTrue, FirstStep, NoFinding, ScansTypeOK
    <3>. QED  BY <2>1, <3>1, <3>2 DEF BeginScan
  <2>2. CASE FetchSbom(w)
    <3> DEFINE r == [worker[w] EXCEPT !.pc = "scan"]
    <3>1. r \in Scans
      BY <1>0 DEF Scans
    <3>2. Never("fact") => IsTrue(r)
      BY <1>0, <2>2 DEF IsTrue, Scans, FetchSbom
    <3>. QED  BY <2>2, <3>1, <3>2, RestingType DEF FetchSbom, NoSbom
  <2>3. CASE Scan(w)
    <3>1. PICK portion \in Portions(w) :
            Becomes(w, [worker[w] EXCEPT
                     !.todo = @ \ portion,
                     !.result = [f \in Findings |->
                                   IF f \in portion \ unreadable THEN facts[f] ELSE @[f]],
                     !.errors = @ \union (portion \intersect unreadable),
                     !.pc = IF worker[w].todo # portion THEN "scan"
                            ELSE IF extension \in Trivy \union {"crypto"} THEN "existing"
                            ELSE "store"])
      BY <2>3 DEF Scan
    <3>2. portion \subseteq worker[w].todo /\ portion \subseteq Findings
      BY <1>0 DEF Portions, Scans
    <3> DEFINE result == [f \in Findings |->
                            IF f \in portion \ unreadable THEN facts[f]
                            ELSE worker[w].result[f]]
               errors == worker[w].errors \union (portion \intersect unreadable)
               pc == IF worker[w].todo # portion THEN "scan"
                     ELSE IF extension \in Trivy \union {"crypto"} THEN "existing" ELSE "store"
               r == [worker[w] EXCEPT !.todo = worker[w].todo \ portion,
                                    !.result = result, !.errors = errors, !.pc = pc]
    <3>3. result \in Facts
      BY <1>0 DEF Facts, ScansTypeOK, Scans
    <3>4. /\ pc \in {"scan", "existing", "store"}
          /\ pc \in {"existing", "store"} => worker[w].todo \ portion = {}
      OBVIOUS
    <3>5. \A f \in Findings : result[f] = IF f \in portion \ unreadable THEN facts[f]
                                        ELSE worker[w].result[f]
      OBVIOUS
    <3>6. worker[w].pc = "scan"
      BY <2>3 DEF Scan
    <3>7. errors \in SUBSET Findings
      BY <1>0, <3>2 DEF Scans
    <3>8. Never("fact") => errors = unreadable \ (worker[w].todo \ portion)
      BY <1>0, <3>2, <3>6 DEF IsTrue, ScansTypeOK, Scans
    <3> HIDE DEF result, pc, errors
    <3>9. r \in Scans
      BY <1>0, <3>2, <3>3, <3>4, <3>7 DEF Scans
    <3>10. /\ r.pc = pc /\ r.todo = worker[w].todo \ portion /\ r.result = result
           /\ r.errors = errors /\ r.existing = worker[w].existing
      BY <1>0 DEF Scans
    <3>11. Never("fact") =>
             \A f \in Findings :
               result[f] = IF f \in worker[w].todo \ portion THEN None ELSE Seen(f)
      BY <1>0, <3>2, <3>5, <3>6 DEF IsTrue, Seen
    <3>12. Never("fact") => IsTrue(r)
      BY <1>0, <3>4, <3>6, <3>8, <3>10, <3>11 DEF IsTrue
    <3>. QED  BY <3>1, <3>9, <3>12 DEF result, pc, errors
  <2>4. CASE ReadStored(w)
    <3> DEFINE pc == IF extension = "crypto" THEN "delete" ELSE "store"
               existing == {f \in Findings : stored[f] # None}
               r == [worker[w] EXCEPT !.existing = existing, !.pc = pc]
    <3>1. r \in Scans /\ r.pc \in {"delete", "store"} /\ r.todo = worker[w].todo
          /\ r.existing = existing /\ r.result = worker[w].result
          /\ r.errors = worker[w].errors
      BY <1>0 DEF Scans
    <3>2. Never("fact") => IsTrue(r)
      BY <1>0, <2>4, <3>1 DEF IsTrue, ReadStored, ScansInv
    <3>. QED  BY <2>4, <3>1, <3>2 DEF ReadStored
  <2>5. CASE ScanBreaks(w) \/ WorkerDies(w)
    BY <2>5, RestingType DEF ScanBreaks, WorkerDies, ScanAborted
  <2>. QED  BY <2>1, <2>2, <2>3, <2>4, <2>5
<1>. QED  BY <1>1, <1>2, <1>3, ScanGoesOn DEF ScansTypeOK

\* What is stored is what is the case, and nothing that is the case is deleted.
LEMMA ScanWrites ==
  ASSUME ScansTypeOK, ScansInv, NEW w \in Workers, DeleteStaleFindings(w) \/ StoreResult(w)
  PROVE  /\ ScansTypeOK' /\ ScansInv'
         /\ Never("fact") => \A f \in Findings : stored[f] # None => stored'[f] # None
<1>0. worker[w] \in Scans /\ (Never("fact") => IsTrue(worker[w]))
  BY DEF ScansTypeOK, ScansInv
<1>1. UNCHANGED <<extension, facts, unreadable, sbom, faults>>
  BY DEF DeleteStaleFindings, StoreResult
<1>2. FaultsTypeOK' /\ (Never("fact")' <=> Never("fact"))
  BY <1>1 DEF ScansTypeOK, FaultsTypeOK, faults, Never
<1>3. Never("fact") =>
        /\ \A f \in Findings : worker[w].result[f] = Seen(f)
        /\ worker[w].errors = unreadable
        /\ Reported(w) = {f \in Findings : Claimed(f) # None}
  <2>1. Never("fact") =>
          /\ \A f \in Findings : worker[w].result[f] = Seen(f)
          /\ worker[w].errors = unreadable
    BY <1>0 DEF IsTrue, DeleteStaleFindings, StoreResult
  <2>. QED  BY <2>1, ClaimedIsSeen DEF Reported
<1>4. PICK r \in Scans : Becomes(w, r) /\ (Never("fact") => IsTrue(r))
  <2>1. PICK pc \in {"delete", "store", "done"} :
          Goes(w, pc) /\ (pc # "done" => worker[w].pc \in {"delete", "store"})
    BY DEF DeleteStaleFindings, StoreResult, AfterDelete, AfterStore
  <2>2. CASE pc = "done"
    BY <2>1, <2>2, RestingType DEF Goes
  <2>3. CASE pc # "done"
    <3> DEFINE r == [worker[w] EXCEPT !.pc = pc]
    <3>1. r \in Scans
      BY <1>0, <2>1, <2>3 DEF Scans
    <3>2. Never("fact") => IsTrue(r)
      BY <1>0, <2>1, <2>3 DEF IsTrue, Scans
    <3>. QED  BY <2>1, <2>3, <3>1, <3>2 DEF Goes
  <2>. QED  BY <2>2, <2>3
<1>5. /\ stored' \in Facts
      /\ scanned' \in BOOLEAN
      /\ bogus' \in SUBSET Findings
  BY <1>0 DEF DeleteStaleFindings, StoreResult, ScansTypeOK, Facts, Scans, ReportedErrors
<1>6. \A v \in Workers : worker'[v] = IF v = w THEN r ELSE worker[v]
  BY <1>4 DEF ScansTypeOK, Becomes
<1>7. ScansTypeOK'
  BY <1>1, <1>2, <1>4, <1>5 DEF ScansTypeOK, Becomes
<1> DEFINE Goal ==
      /\ \A f \in Findings : stored'[f] \in {None, Claimed(f)}
      /\ \A f \in Findings : stored[f] # None => stored'[f] # None
      /\ bogus' \subseteq ReportedErrors(unreadable)
      /\ scanned' => /\ \A f \in Findings : stored'[f] = Claimed(f)
                     /\ bogus' = ReportedErrors(unreadable)
<1>8. Never("fact") => Goal
  <2> SUFFICES ASSUME Never("fact") PROVE Goal
    OBVIOUS
  <2>1. /\ \A f \in Findings : stored[f] \in {None, Claimed(f)}
        /\ bogus \subseteq ReportedErrors(unreadable)
    BY DEF ScansInv
  <2>2. scanned => /\ \A f \in Findings : stored[f] = Claimed(f)
                   /\ bogus = ReportedErrors(unreadable)
    BY DEF ScansInv, ScannedIsComplete, Claimed
  <2>3. CASE DeleteStaleFindings(w)
    <3>1. StaleFindings(w) = {}
      BY <1>0, <1>3, <2>3 DEF IsTrue, StaleFindings, Scans, DeleteStaleFindings
    <3>2. /\ scanned' = scanned /\ bogus' = bogus
          /\ \A f \in Findings : stored'[f] = stored[f]
      BY <2>3, <3>1 DEF DeleteStaleFindings
    <3>. QED  BY <2>1, <2>2, <3>2
  <2>4. CASE StoreResult(w)
    <3>1. \A f \in Findings :
            stored'[f] = IF f \in Reported(w) THEN worker[w].result[f] ELSE stored[f]
      BY <2>4 DEF StoreResult
    <3>2. \A f \in Findings : stored'[f] = Claimed(f)
      <4> SUFFICES ASSUME NEW f \in Findings PROVE stored'[f] = Claimed(f)
        OBVIOUS
      <4>1. CASE Claimed(f) # None
        BY <1>3, <3>1, <4>1, ClaimedIsSeen
      <4>2. CASE Claimed(f) = None
        BY <1>3, <2>1, <3>1, <4>2
      <4>. QED  BY <4>1, <4>2
    <3>3. bogus' = ReportedErrors(unreadable)
      BY <1>3, <2>1, <2>4 DEF StoreResult
    <3>. QED  BY <2>1, <3>2, <3>3
  <2>. QED  BY <2>3, <2>4
<1>9. ScansInv'
  <2> SUFFICES ASSUME Never("fact") PROVE ScansInv'
    BY <1>2 DEF ScansInv
  <2>1. /\ \A v \in Workers : IsTrue(worker[v])'
        /\ \A f \in Findings : (Claimed(f))' = Claimed(f)
        /\ (ReportedErrors(unreadable))' = ReportedErrors(unreadable)
    <3>1. \A v \in Workers : IsTrue(worker'[v])
      BY <1>4, <1>6 DEF ScansInv
    <3>2. (ReportedErrors(unreadable))' = ReportedErrors(unreadable)
      BY <1>1 DEF ReportedErrors
    <3>. QED  BY <1>1, <3>1, <3>2, SeenStays
  <2>2. ScannedIsComplete'
    BY <1>8, <2>1 DEF ScannedIsComplete, Claimed
  <2>. QED  BY <1>8, <2>1, <2>2 DEF ScansInv
<1>. QED  BY <1>7, <1>8, <1>9

\* The environment.
LEMMA ScansEnvironment ==
  ASSUME ScansTypeOK, ScansInv,
         \/ \E f \in Findings, status \in Statuses \union {None} : FactChanges(f, status)
         \/ \E f \in Findings : AnswerChanges(f)
         \/ SbomAppears
         \/ UNCHANGED scansVars
  PROVE  ScansTypeOK' /\ ScansInv' /\ UNCHANGED stored
<1>1. CASE \E f \in Findings, status \in Statuses \union {None} : FactChanges(f, status)
  <2>1. PICK f \in Findings, status \in Statuses \union {None} : FactChanges(f, status)
    BY <1>1
  <2>2. FaultsTypeOK' /\ ~Never("fact")'
    BY <2>1, SpendType, SpendFact DEF ScansTypeOK, FactChanges
  <2>. QED  BY <2>1, <2>2 DEF ScansTypeOK, ScansInv, FactChanges, Facts
<1>2. CASE SbomAppears \/ UNCHANGED scansVars
  <2>1. /\ UNCHANGED <<extension, facts, unreadable, stored, bogus, scanned, worker, faults>>
        /\ sbom' \in BOOLEAN
    BY <1>2 DEF SbomAppears, scansVars, ScansTypeOK
  <2>2. FaultsTypeOK' /\ (Never("fact")' <=> Never("fact"))
    BY <2>1 DEF ScansTypeOK, FaultsTypeOK, faults, Never
  <2>. QED  BY <2>1, <2>2 DEF ScansTypeOK, ScansInv, ScannedIsComplete, IsTrue, Seen, Claimed,
                              ReportedErrors
<1>3. CASE \E f \in Findings : AnswerChanges(f)
  <2>1. PICK f \in Findings : AnswerChanges(f)
    BY <1>3
  <2>2. FaultsTypeOK' /\ ~Never("fact")'
    BY <2>1, SpendType, SpendFact DEF ScansTypeOK, AnswerChanges
  <2>. QED  BY <2>1, <2>2 DEF ScansTypeOK, ScansInv, AnswerChanges
<1>. QED  BY <1>1, <1>2, <1>3

\* Every step keeps the types and the strengthening, and takes no fact away.
LEMMA ScansStep ==
  ASSUME ScansTypeOK, ScansInv, [ScansNext]_scansVars
  PROVE  /\ ScansTypeOK' /\ ScansInv'
         /\ Never("fact") => \A f \in Findings : stored[f] # None => stored'[f] # None
<1>1. ASSUME NEW w \in Workers, Working(w) \/ ScanBreaks(w) \/ WorkerDies(w)
      PROVE  /\ ScansTypeOK' /\ ScansInv'
             /\ Never("fact") => \A f \in Findings : stored[f] # None => stored'[f] # None
  BY <1>1, ScanReads, ScanWrites DEF Working
<1>. QED  BY <1>1, ScansEnvironment DEF ScansNext

\* As long as the facts are the same: a worker has seen what is the case of the files that could be
\* read and knows the others, and what is stored is a fact or the text of an error; also between the
\* update and the removal of stale findings, where a worker may die.
THEOREM ScansInvariant == ScansSpec => [](ScansTypeOK /\ ScansInv)
<1>1. ScansInit => ScansTypeOK /\ ScansInv
  <2> SUFFICES ASSUME ScansInit PROVE ScansTypeOK /\ ScansInv
    OBVIOUS
  <2>1. ScansTypeOK
    BY RestingType, LimitAssumption
    DEF ScansInit, ScansTypeOK, FaultsTypeOK, FaultsInit, NoFinding, Facts, Extensions, Clamav
  <2>2. ScansInv
    BY RestingType DEF ScansInit, ScansInv, NoFinding, ScannedIsComplete
  <2>. QED  BY <2>1, <2>2
<1>. QED  BY <1>1, ScansStep, PTL DEF ScansSpec

\* For any findings and statuses, any number of overlapping scans of any of the extensions, and
\* however often they break off: once a scan was stored, the findings of the delivery-db are the
\* facts of the files that could be read and, if they have a category, the errors of the others.
THEOREM ScansAreComplete == ScansSpec => []ScannedIsComplete
<1>1. ScansInv => ScannedIsComplete
  BY DEF ScansInv, ScannedIsComplete
<1>. QED  BY <1>1, ScansInvariant, PTL

\* Likewise no clean-up takes away a finding that is a fact.
THEOREM NoFindingDisappears == ScansSpec => FindingsStay
<1>1. ASSUME ScansTypeOK, ScansInv, [ScansNext]_scansVars
      PROVE  [Never("fact") => \A f \in Findings : stored[f] # None => stored'[f] # None]_scansVars
  BY <1>1, ScansStep
<1>. QED  BY <1>1, ScansInvariant, PTL DEF ScansSpec, FindingsStay

-----------------------------------------------------------------------------
(* SLA violations *)

Decisions == [due : Nat \union {None}, allowed : Nat \union {None}, at : Nat]

\* Findings of which nothing was forgotten and whose severity has a limit.
Unforgotten(f) == f \notin rewritten /\ Allowed[f] # None

\* A rescoring was made after the deadline then in force.
Missed(f, entry, rs) ==
  \E i \in DOMAIN rs :
    Passed(Deadline(f, entry, Restrict(rs, {j \in DOMAIN rs : j < i})), Day(rs[i].at))

\* f is overdue if its rescorings say so.
EntryRight(f) ==
  /\ rescorings[f] \in Seq(Decisions)
  /\ \A i \in DOMAIN rescorings[f] : rescorings[f][i].at < now
  /\ found[f] = None => rescorings[f] = <<>>
  /\ found[f] # None =>
       found[f].created \in Nat /\ found[f].created < now /\ found[f].discovered \in Nat
  /\ f \in overdue <=> found[f] # None /\ Violates(f, found[f], rescorings[f], now)

\* f was overdue before a release if those rescorings say so that were made before it.
Violating(f, entry, release) ==
  entry # None /\ entry.created <= release
    /\ Violates(f, entry, Counted(rescorings[f], release), release)
LateRight(f) ==
  \A r \in RootNames : \A v \in DOMAIN released[r] :
    f \in late[r][v] <=> Violating(f, found[f], released[r][v])

HistoryInv ==
  /\ now \in Nat
  /\ found = [f \in Vulnerabilities |-> found[f]]
  /\ rescorings = [f \in Vulnerabilities |-> rescorings[f]]
  /\ released \in [RootNames -> Seq(Nat)]
  /\ late \in [RootNames -> Seq(SUBSET Vulnerabilities)]
  /\ overdue \in SUBSET Vulnerabilities
  /\ \A r \in RootNames :
       /\ Len(late[r]) = Len(released[r])
       /\ \A v \in DOMAIN released[r] : released[r][v] < now
  /\ \A f \in Vulnerabilities : Unforgotten(f) => EntryRight(f) /\ LateRight(f)

\* Records of versions there are, which name what had been overdue.
IsRight(x, violating) ==
  \E r \in RootNames : \E v \in DOMAIN released[r] :
    /\ x = <<r, v>>
    /\ \A f \in Vulnerabilities : Unforgotten(f) => (f \in violating <=> f \in late[r][v])
AreRight(all) == \A x \in DOMAIN all : IsRight(x, all[x])

\* A finding that was read may only have been found since, after the versions were released.
IsRead(f) ==
  \/ profiler.findings[f] = found[f]
  \/ /\ profiler.findings[f] = None
     /\ \A v \in profiler.todo : released[Roots[profiler.root]][v] < found[f].created

ProfilerInv ==
  /\ profiler = [pc |-> profiler.pc, root |-> profiler.root, todo |-> profiler.todo,
                 findings |-> profiler.findings, new |-> profiler.new]
  /\ profiler.root \in DOMAIN Roots
  /\ profiler.todo \subseteq DOMAIN released[Roots[profiler.root]]
  /\ \A v \in profiler.todo : <<Roots[profiler.root], v>> \notin DOMAIN records
  /\ DOMAIN profiler.new \intersect DOMAIN records = {}
  /\ AreRight(profiler.new)
  /\ AreRight(records)
  /\ profiler.pc = "rescorings" =>
       \A f \in Vulnerabilities : Unforgotten(f) => IsRead(f)

SlaInv == HistoryInv /\ ProfilerInv

-----------------------------------------------------------------------------
(* Days, deadlines and rescorings *)

\* Days follow each other.
LEMMA Days ==
  ASSUME NEW t \in Nat
  PROVE  /\ Day(t) \in Nat
         /\ t < (Day(t) + 1) * TicksPerDay
         /\ (Day(t) + 1) * TicksPerDay \in Nat
         /\ \A u \in Nat : t <= u => Day(t) <= Day(u)
<1>1. TicksPerDay \in Nat /\ TicksPerDay > 0
  BY SlaAssumption
<1> DEFINE q(u) == u \div TicksPerDay
<1>2. \A u \in Nat : /\ q(u) \in Nat /\ q(u) * TicksPerDay <= u
                     /\ u < q(u) * TicksPerDay + TicksPerDay
  BY <1>1
<1>3. \A a, b \in Nat : a <= b => a * TicksPerDay <= b * TicksPerDay
  BY <1>1
<1>4. \A a \in Nat : /\ (a + 1) * TicksPerDay = a * TicksPerDay + TicksPerDay
                     /\ a * TicksPerDay \in Nat
  BY <1>1
<1> HIDE DEF q
<1>5. ASSUME NEW u \in Nat, t <= u PROVE q(t) <= q(u)
  <2> SUFFICES ASSUME q(u) + 1 <= q(t) PROVE FALSE
    BY <1>2, <1>5
  <2>1. (q(u) + 1) * TicksPerDay <= q(t) * TicksPerDay
    BY <1>2, <1>3
  <2>2. q(u) * TicksPerDay + TicksPerDay <= q(t) * TicksPerDay
    BY <1>2, <1>4, <2>1
  <2>. QED  BY <1>1, <1>2, <1>4, <1>5, <2>2
<1>6. Day(t) = q(t) /\ \A u \in Nat : Day(u) = q(u)
  BY DEF Day, q
<1>7. (q(t) + 1) * TicksPerDay = q(t) * TicksPerDay + TicksPerDay /\ q(t) * TicksPerDay \in Nat
  BY <1>2, <1>4
<1>. QED  BY <1>1, <1>2, <1>5, <1>6, <1>7

LEMMA DeadlineType ==
  ASSUME NEW f \in Vulnerabilities, Allowed[f] # None, NEW entry, entry.discovered \in Nat,
         NEW rs \in Seq(Decisions)
  PROVE  Deadline(f, entry, rs) \in Nat \union {None}
<1>1. Allowed[f] \in Nat
  BY SlaAssumption
<1>2. CASE DOMAIN rs = {}
  BY <1>1, <1>2 DEF Deadline, InitialDeadline
<1>3. CASE DOMAIN rs # {}
  <2>1. \E i \in DOMAIN rs : \A j \in DOMAIN rs : j <= i
    <3>1. Len(rs) \in DOMAIN rs /\ \A j \in DOMAIN rs : j <= Len(rs)
      BY <1>3
    <3>. QED  BY <3>1
  <2> DEFINE last == CHOOSE i \in DOMAIN rs : \A j \in DOMAIN rs : j <= i
  <2>2. last \in DOMAIN rs
    BY <2>1
  <2> HIDE DEF last
  <2>3. rs[last] \in Decisions
    BY <2>2
  <2>4. rs[last].due \in Nat \union {None} /\ rs[last].allowed \in Nat \union {None}
    BY <2>3 DEF Decisions
  <2>5. Deadline(f, entry, rs) = NewDeadline(entry, rs[last])
    BY <1>3 DEF Deadline, last
  <2>. QED  BY <2>4, <2>5 DEF NewDeadline
<1>. QED  BY <1>2, <1>3

\* What has passed remains passed.
LEMMA PassedStays ==
  ASSUME NEW deadline \in Nat \union {None}, NEW t \in Nat, NEW u \in Nat, t <= u,
         Passed(deadline, Day(t))
  PROVE  Passed(deadline, Day(u))
<1>1. Day(t) \in Nat /\ Day(u) \in Nat /\ Day(t) <= Day(u)
  BY Days
<1>. QED  BY <1>1 DEF Passed

LEMMA ViolatesMissed ==
  ASSUME NEW f, NEW entry, NEW rs, NEW t
  PROVE  Violates(f, entry, rs, t)
           <=> Missed(f, entry, rs) \/ Passed(Deadline(f, entry, rs), Day(t))
  BY DEF Violates, Missed

LEMMA MissedAppend ==
  ASSUME NEW f, NEW entry, NEW rs \in Seq(Decisions), NEW new \in Decisions
  PROVE  Missed(f, entry, Append(rs, new))
           <=> Missed(f, entry, rs) \/ Passed(Deadline(f, entry, rs), Day(new.at))
<1> DEFINE more == Append(rs, new)
           n == Len(rs)
           Earlier(s, i) == Restrict(s, {j \in DOMAIN s : j < i})
           Late(s, i) == Passed(Deadline(f, entry, Earlier(s, i)), Day(s[i].at))
<1>1. /\ DOMAIN rs = 1..n /\ DOMAIN more = 1..(n + 1) /\ n \in Nat
      /\ \A i \in 1..n : more[i] = rs[i]
      /\ more[n + 1] = new
  OBVIOUS
<1>2. ASSUME NEW i \in 1..n PROVE Late(more, i) <=> Late(rs, i)
  <2>1. {j \in DOMAIN more : j < i} = {j \in DOMAIN rs : j < i}
    BY <1>1
  <2>2. Earlier(more, i) = Earlier(rs, i)
    BY <1>1, <2>1 DEF Restrict
  <2>. QED  BY <1>1, <2>2
<1>3. Earlier(more, n + 1) = rs
  <2>1. {j \in DOMAIN more : j < n + 1} = DOMAIN rs
    BY <1>1
  <2>2. rs = [i \in DOMAIN rs |-> rs[i]]
    OBVIOUS
  <2>. QED  BY <1>1, <2>1, <2>2 DEF Restrict
<1>4. Missed(f, entry, rs) <=> \E i \in 1..n : Late(rs, i)
  BY <1>1 DEF Missed
<1>5. Missed(f, entry, more) <=> \E i \in 1..(n + 1) : Late(more, i)
  BY <1>1 DEF Missed
<1>6. Late(more, n + 1) <=> Passed(Deadline(f, entry, rs), Day(new.at))
  BY <1>1, <1>3
<1> HIDE DEF Late, more, n
<1>7. (\E i \in 1..(n + 1) : Late(more, i)) <=> (\E i \in 1..n : Late(more, i)) \/ Late(more, n + 1)
  BY <1>1
<1>. QED  BY <1>2, <1>4, <1>5, <1>6, <1>7 DEF more

LEMMA CountedAppend ==
  ASSUME NEW rs \in Seq(Decisions), NEW new \in Decisions, NEW release \in Nat, release < new.at
  PROVE  Counted(Append(rs, new), release) = Counted(rs, release)
<1> DEFINE more == Append(rs, new)
<1>1. /\ DOMAIN rs = 1..Len(rs) /\ DOMAIN more = 1..(Len(rs) + 1) /\ Len(rs) \in Nat
      /\ \A i \in 1..Len(rs) : more[i] = rs[i]
      /\ more[Len(rs) + 1] = new
  OBVIOUS
<1>2. new.at \in Nat /\ ~(new.at < release)
  BY DEF Decisions
<1> HIDE DEF more
<1>3. {i \in DOMAIN more : more[i].at < release} = {i \in DOMAIN rs : rs[i].at < release}
  BY <1>1, <1>2
<1>4. Counted(more, release) = Counted(rs, release)
  BY <1>1, <1>3 DEF Counted, RestrictValues, Restrict
<1>. QED  BY <1>4 DEF more

LEMMA CountedAll ==
  ASSUME NEW rs \in Seq(Decisions), NEW release, \A i \in DOMAIN rs : rs[i].at < release
  PROVE  Counted(rs, release) = rs
<1>1. rs = [i \in DOMAIN rs |-> rs[i]]
  OBVIOUS
<1>2. {i \in DOMAIN rs : rs[i].at < release} = DOMAIN rs
  OBVIOUS
<1>. QED  BY <1>1, <1>2 DEF Counted, RestrictValues, Restrict
-----------------------------------------------------------------------------
(* Events *)

\* Time passes.
Passes ==
  /\ now' \in Nat /\ now < now'
  /\ overdue' = overdue \union OverdueOn(Day(now'))
  /\ rewritten \subseteq rewritten'

LEMMA OverdueNow ==
  ASSUME HistoryInv, Passes, NEW f \in Vulnerabilities, Unforgotten(f)'
  PROVE  /\ f \in overdue' <=>
              f \in overdue \/ (found'[f] # None
                                /\ Passed(Deadline(f, found'[f], rescorings'[f]), Day(now')))
         /\ Unforgotten(f) /\ EntryRight(f) /\ LateRight(f)
  BY DEF HistoryInv, Passes, Unforgotten, OverdueOn

\* Nothing happens to f.
LEMMA FindingSame ==
  ASSUME HistoryInv, Passes, NEW f \in Vulnerabilities, Unforgotten(f)',
         found'[f] = found[f], rescorings'[f] = rescorings[f]
  PROVE  EntryRight(f)'
<1>1. /\ f \in overdue' <=>
           f \in overdue \/ (found[f] # None
                             /\ Passed(Deadline(f, found[f], rescorings[f]), Day(now')))
      /\ Unforgotten(f) /\ EntryRight(f)
  BY OverdueNow
<1>2. now \in Nat /\ now' \in Nat /\ now <= now'
  BY DEF HistoryInv, Passes
<1>3. CASE found[f] = None
  <2>1. rescorings[f] = <<>> /\ DOMAIN rescorings[f] = {}
    BY <1>1, <1>3 DEF EntryRight
  <2>. QED  BY <1>1, <1>3, <2>1 DEF EntryRight
<1>4. CASE found[f] # None
  <2> DEFINE deadline == Deadline(f, found[f], rescorings[f])
  <2>1. deadline \in Nat \union {None}
    BY <1>1, <1>4, DeadlineType DEF EntryRight, Unforgotten
  <2> HIDE DEF deadline
  <2>2. Passed(deadline, Day(now)) => Passed(deadline, Day(now'))
    BY <1>2, <2>1, PassedStays
  <2>3. f \in overdue <=> Missed(f, found[f], rescorings[f]) \/ Passed(deadline, Day(now))
    BY <1>1, <1>4, ViolatesMissed DEF EntryRight, deadline
  <2>4. Violates(f, found[f], rescorings[f], now')
          <=> Missed(f, found[f], rescorings[f]) \/ Passed(deadline, Day(now'))
    BY ViolatesMissed DEF deadline
  <2>5. f \in overdue' <=> Violates(f, found[f], rescorings[f], now')
    BY <1>1, <1>4, <2>2, <2>3, <2>4 DEF deadline
  <2>6. /\ \A i \in DOMAIN rescorings[f] : rescorings[f][i].at < now'
        /\ found[f].created < now'
    <3>1. \A i \in DOMAIN rescorings[f] : rescorings[f][i].at \in Nat /\ rescorings[f][i].at < now
      <4> SUFFICES ASSUME NEW i \in DOMAIN rescorings[f] PROVE rescorings[f][i].at \in Nat
        BY <1>1 DEF EntryRight
      <4>1. rescorings[f][i] \in Decisions
        BY <1>1 DEF EntryRight
      <4>. QED  BY <4>1 DEF Decisions
    <3>. QED  BY <1>1, <1>2, <1>4, <3>1 DEF EntryRight, Passes
  <2>. QED  BY <1>1, <1>4, <2>5, <2>6 DEF EntryRight
<1>. QED  BY <1>3, <1>4

LEMMA FindingFound ==
  ASSUME HistoryInv, Passes, NEW f \in Vulnerabilities, Unforgotten(f)',
         found[f] = None, found'[f] # None, found'[f].created = now, found'[f].discovered \in Nat,
         rescorings'[f] = rescorings[f], UNCHANGED <<released, late>>
  PROVE  EntryRight(f)' /\ LateRight(f)'
<1>1. /\ f \in overdue' <=>
           f \in overdue \/ Passed(Deadline(f, found'[f], rescorings'[f]), Day(now'))
      /\ Unforgotten(f) /\ EntryRight(f) /\ LateRight(f)
  BY OverdueNow
<1>2. now \in Nat /\ now' \in Nat /\ now < now'
  BY DEF HistoryInv, Passes
<1>3. rescorings[f] = <<>> /\ f \notin overdue
  BY <1>1 DEF EntryRight
<1>4. ~Missed(f, found'[f], <<>>)
  BY DEF Missed
<1>5. f \in overdue' <=> Violates(f, found'[f], <<>>, now')
  BY <1>1, <1>3, <1>4, ViolatesMissed
<1>6. EntryRight(f)'
  BY <1>1, <1>2, <1>3, <1>5 DEF EntryRight
<1>7. ASSUME NEW r \in RootNames, NEW v \in DOMAIN released[r]
      PROVE  ~Violating(f, found[f], released[r][v]) /\ ~Violating(f, found[f], released[r][v])'
  <2>1. released[r][v] < now /\ released[r][v] \in Nat
    BY DEF HistoryInv
  <2>. QED  BY <1>2, <2>1 DEF Violating
<1>8. LateRight(f)'
  BY <1>1, <1>7 DEF LateRight
<1>. QED  BY <1>6, <1>8

LEMMA FindingRescored ==
  ASSUME HistoryInv, Passes, NEW f \in Vulnerabilities, Unforgotten(f)', NEW new \in Decisions,
         new.at = now, found[f] # None, found'[f] = found[f],
         rescorings'[f] = Append(rescorings[f], new), UNCHANGED <<released, late>>
  PROVE  EntryRight(f)' /\ LateRight(f)'
<1> DEFINE rs == rescorings[f]
           more == Append(rs, new)
           e == found[f]
<1>1. /\ f \in overdue' <=> f \in overdue \/ Passed(Deadline(f, e, more), Day(now'))
      /\ Unforgotten(f) /\ EntryRight(f) /\ LateRight(f)
  BY OverdueNow
<1>2. now \in Nat /\ now' \in Nat /\ now < now' /\ rs \in Seq(Decisions)
  BY <1>1 DEF HistoryInv, Passes, EntryRight
<1>3. f \in overdue <=> Missed(f, e, rs) \/ Passed(Deadline(f, e, rs), Day(now))
  BY <1>1, ViolatesMissed DEF EntryRight
<1>4. Missed(f, e, more) <=> Missed(f, e, rs) \/ Passed(Deadline(f, e, rs), Day(now))
  BY <1>2, MissedAppend
<1>5. f \in overdue' <=> Violates(f, e, more, now')
  <2> HIDE DEF more, e, rs
  <2>. QED  BY <1>1, <1>3, <1>4, ViolatesMissed
<1>6. more \in Seq(Decisions) /\ \A i \in DOMAIN more : more[i].at < now'
  <2>1. /\ more \in Seq(Decisions) /\ DOMAIN more = 1..(Len(rs) + 1) /\ Len(rs) \in Nat
        /\ DOMAIN rs = 1..Len(rs)
        /\ \A i \in 1..Len(rs) : more[i] = rs[i]
        /\ more[Len(rs) + 1] = new
    BY <1>2
  <2>2. \A i \in 1..Len(rs) : rs[i].at \in Nat /\ rs[i].at < now
    <3> SUFFICES ASSUME NEW i \in 1..Len(rs) PROVE rs[i].at \in Nat /\ rs[i].at < now
      OBVIOUS
    <3>1. rs[i] \in Decisions
      BY <1>2
    <3>. QED  BY <1>1, <2>1, <3>1 DEF Decisions, EntryRight
  <2> HIDE DEF more, rs
  <2>3. \A i \in 1..Len(rs) : rs[i].at < now'
    BY <1>2, <2>2
  <2>. QED  BY <1>2, <2>1, <2>3
<1>7. EntryRight(f)'
  <2>1. e.created \in Nat /\ e.created < now' /\ e.discovered \in Nat
    BY <1>1, <1>2 DEF EntryRight
  <2> HIDE DEF more
  <2>2. rescorings'[f] = more
    BY DEF more
  <2>. QED  BY <1>5, <1>6, <2>1, <2>2 DEF EntryRight
<1>8. ASSUME NEW r \in RootNames, NEW v \in DOMAIN released[r]
      PROVE  Counted(more, released[r][v]) = Counted(rs, released[r][v])
  <2>1. released[r][v] < now /\ released[r][v] \in Nat
    BY DEF HistoryInv
  <2>. QED  BY <1>2, <2>1, CountedAppend
<1>9. LateRight(f)'
  <2>1. ASSUME NEW r \in RootNames, NEW v \in DOMAIN released[r]
        PROVE  Violating(f, found[f], released[r][v])' <=> Violating(f, found[f], released[r][v])
    BY <1>8 DEF Violating
  <2>. QED  BY <1>1, <2>1 DEF LateRight
<1>. QED  BY <1>7, <1>9

\* A version is released.
LEMMA FindingReleased ==
  ASSUME HistoryInv, Passes, NEW f \in Vulnerabilities, Unforgotten(f)', NEW r \in RootNames,
         UNCHANGED <<found, rescorings>>,
         released' = [released EXCEPT ![r] = Append(@, now)],
         late' = [late EXCEPT ![r] = Append(@, overdue)]
  PROVE  LateRight(f)'
<1>1. Unforgotten(f) /\ EntryRight(f) /\ LateRight(f)
  BY OverdueNow
<1>2. /\ released[r] \in Seq(Nat) /\ late[r] \in Seq(SUBSET Vulnerabilities)
      /\ Len(late[r]) = Len(released[r]) /\ now \in Nat
      /\ released'[r] = Append(released[r], now) /\ late'[r] = Append(late[r], overdue)
      /\ \A s \in RootNames \ {r} : released'[s] = released[s] /\ late'[s] = late[s]
  BY DEF HistoryInv
<1>3. /\ DOMAIN released'[r] = DOMAIN released[r] \union {Len(released[r]) + 1}
      /\ \A v \in DOMAIN released[r] : released'[r][v] = released[r][v] /\ late'[r][v] = late[r][v]
      /\ released'[r][Len(released[r]) + 1] = now
      /\ late'[r][Len(released[r]) + 1] = overdue
  BY <1>2
<1>4. f \in overdue <=> Violating(f, found[f], now)
  <2>1. Counted(rescorings[f], now) = rescorings[f]
    BY <1>1, CountedAll DEF EntryRight
  <2>2. found[f] # None => found[f].created <= now
    BY <1>1, <1>2 DEF EntryRight
  <2>. QED  BY <1>1, <2>1, <2>2 DEF EntryRight, Violating
<1>5. \A t : Violating(f, found[f], t)' <=> Violating(f, found[f], t)
  BY DEF Violating
<1> SUFFICES ASSUME NEW s \in RootNames, NEW v \in DOMAIN released'[s]
             PROVE  f \in late'[s][v] <=> Violating(f, found[f], released[s][v])'
  BY DEF LateRight
<1>6. CASE s # r \/ v \in DOMAIN released[r]
  <2>1. v \in DOMAIN released[s] /\ released'[s][v] = released[s][v] /\ late'[s][v] = late[s][v]
    BY <1>2, <1>3, <1>6
  <2>2. Violating(f, found[f], released[s][v])' <=> Violating(f, found[f], released[s][v])
    BY <2>1 DEF Violating
  <2>. QED  BY <1>1, <2>1, <2>2 DEF LateRight
<1>7. CASE s = r /\ v = Len(released[r]) + 1
  <2>1. released'[s][v] = now /\ late'[s][v] = overdue
    BY <1>3, <1>7
  <2>2. Violating(f, found[f], released[s][v])' <=> Violating(f, found[f], now)
    BY <2>1 DEF Violating
  <2>. QED  BY <1>4, <2>1, <2>2
<1>. QED  BY <1>3, <1>6, <1>7

-----------------------------------------------------------------------------
(* Steps of the history *)

LEMMA EventPasses ==
  ASSUME HistoryInv, NEW kind, Event(kind), rewritten \subseteq rewritten'
  PROVE  Passes
  BY DEF HistoryInv, Event, Passes

LEMMA LateSame ==
  ASSUME HistoryInv, Passes, NEW f \in Vulnerabilities, Unforgotten(f)',
         found'[f] = found[f], rescorings'[f] = rescorings[f], UNCHANGED <<released, late>>
  PROVE  LateRight(f)'
<1>1. LateRight(f)
  BY OverdueNow
<1>2. ASSUME NEW r \in RootNames, NEW v \in DOMAIN released[r]
      PROVE  Violating(f, found[f], released[r][v])' <=> Violating(f, found[f], released[r][v])
  BY DEF Violating
<1>. QED  BY <1>1, <1>2 DEF LateRight

\* What all events have in common.
LEMMA HistoryKept ==
  ASSUME HistoryInv, Passes,
         found' = [f \in Vulnerabilities |-> found'[f]],
         rescorings' = [f \in Vulnerabilities |-> rescorings'[f]],
         \/ UNCHANGED <<released, late>>
         \/ \E r \in RootNames : /\ released' = [released EXCEPT ![r] = Append(@, now)]
                                 /\ late' = [late EXCEPT ![r] = Append(@, overdue)],
         \A f \in Vulnerabilities : Unforgotten(f)' => EntryRight(f)' /\ LateRight(f)'
  PROVE  HistoryInv'
<1>1. overdue' \in SUBSET Vulnerabilities
  BY DEF HistoryInv, Passes, OverdueOn
<1>2. /\ released' \in [RootNames -> Seq(Nat)]
      /\ late' \in [RootNames -> Seq(SUBSET Vulnerabilities)]
      /\ \A r \in RootNames : /\ Len(late'[r]) = Len(released'[r])
                              /\ \A v \in DOMAIN released'[r] : released'[r][v] < now'
  <2>1. /\ now \in Nat /\ now' \in Nat /\ now < now'
        /\ released \in [RootNames -> Seq(Nat)]
        /\ late \in [RootNames -> Seq(SUBSET Vulnerabilities)]
        /\ overdue \in SUBSET Vulnerabilities
        /\ \A r \in RootNames : Len(late[r]) = Len(released[r])
    BY DEF HistoryInv, Passes
  <2>2. \A r \in RootNames : \A v \in DOMAIN released[r] : released[r][v] < now'
    <3> SUFFICES ASSUME NEW r \in RootNames, NEW v \in DOMAIN released[r]
                 PROVE  released[r][v] < now'
      OBVIOUS
    <3>1. released[r][v] \in Nat /\ released[r][v] < now
      BY DEF HistoryInv
    <3>. QED  BY <2>1, <3>1
  <2>3. CASE UNCHANGED <<released, late>>
    BY <2>1, <2>2, <2>3
  <2>4. ASSUME NEW r \in RootNames, released' = [released EXCEPT ![r] = Append(@, now)],
               late' = [late EXCEPT ![r] = Append(@, overdue)]
        PROVE  <1>2!1 /\ <1>2!2 /\ <1>2!3
    <3>1. /\ released'[r] = Append(released[r], now) /\ late'[r] = Append(late[r], overdue)
          /\ \A s \in RootNames \ {r} : released'[s] = released[s] /\ late'[s] = late[s]
          /\ released[r] \in Seq(Nat) /\ late[r] \in Seq(SUBSET Vulnerabilities)
      BY <2>1, <2>4
    <3>2. released' \in [RootNames -> Seq(Nat)]
      BY <2>1, <2>4
    <3>3. late' \in [RootNames -> Seq(SUBSET Vulnerabilities)]
      BY <2>1, <2>4
    <3>4. Len(late'[r]) = Len(released'[r])
      BY <2>1, <3>1
    <3>5. \A v \in DOMAIN released'[r] : released'[r][v] < now'
      BY <2>1, <2>2, <3>1
    <3>. QED  BY <2>1, <2>2, <3>1, <3>2, <3>3, <3>4, <3>5
  <2>. QED  BY <2>3, <2>4
<1>. QED  BY <1>1, <1>2 DEF HistoryInv, Passes

LEMMA HistoryUnchanged ==
  ASSUME HistoryInv, UNCHANGED <<delivery, history>>
  PROVE  HistoryInv'
  BY DEF HistoryInv, EntryRight, LateRight, Violating, Unforgotten, delivery, history

\* The event that takes place.
LEMMA HistoryEvents ==
  ASSUME HistoryInv, rewritten \subseteq rewritten', Passes,
         \/ \E f \in Vulnerabilities :
              Find(f) \/ Disappear(f) \/ DeleteRescoring(f)
                \/ \E effect \in Effects : Rescore(f, effect)
         \/ \E r \in RootNames : Release(r)
         \/ NextDay
  PROVE  HistoryInv'
<1>0. /\ now \in Nat
      /\ found = [f \in Vulnerabilities |-> found[f]]
      /\ rescorings = [f \in Vulnerabilities |-> rescorings[f]]
  BY DEF HistoryInv
<1>1. ASSUME NEW f \in Vulnerabilities, Find(f) PROVE HistoryInv'
  <2>1. PICK day \in {0, Day(now)} :
          found' = [found EXCEPT ![f] = [discovered |-> day, created |-> now]]
    BY <1>1 DEF Find
  <2>2. day \in Nat
    BY <1>0, Days
  <2>3. /\ found'[f] = [discovered |-> day, created |-> now] /\ found[f] = None
        /\ \A g \in Vulnerabilities \ {f} : found'[g] = found[g]
        /\ found' = [g \in Vulnerabilities |-> found'[g]]
        /\ UNCHANGED <<rescorings, released, late>>
    BY <1>0, <1>1, <2>1 DEF Find
  <2>4. Unforgotten(f)' => EntryRight(f)' /\ LateRight(f)'
    <3>1. CASE found'[f] = None
      BY <2>3, <3>1, FindingSame, LateSame
    <3>2. CASE found'[f] # None
      BY <2>2, <2>3, <3>2, FindingFound
    <3>. QED  BY <3>1, <3>2
  <2>5. ASSUME NEW g \in Vulnerabilities \ {f}, Unforgotten(g)'
        PROVE  EntryRight(g)' /\ LateRight(g)'
    BY <2>3, <2>5, FindingSame, LateSame
  <2>. QED  BY <1>0, <2>3, <2>4, <2>5, HistoryKept
<1>2. ASSUME NEW f \in Vulnerabilities, Disappear(f) \/ DeleteRescoring(f) PROVE HistoryInv'
  <2>1. /\ ~Unforgotten(f)'
        /\ \A g \in Vulnerabilities \ {f} : found'[g] = found[g] /\ rescorings'[g] = rescorings[g]
        /\ found' = [g \in Vulnerabilities |-> found'[g]]
        /\ rescorings' = [g \in Vulnerabilities |-> rescorings'[g]]
        /\ UNCHANGED <<released, late>>
    BY <1>0, <1>2 DEF Disappear, DeleteRescoring, Unforgotten
  <2>2. ASSUME NEW g \in Vulnerabilities \ {f}, Unforgotten(g)'
        PROVE  EntryRight(g)' /\ LateRight(g)'
    BY <2>1, <2>2, FindingSame, LateSame
  <2>. QED  BY <2>1, <2>2, HistoryKept
<1>3. ASSUME NEW f \in Vulnerabilities, NEW effect \in Effects, Rescore(f, effect) PROVE HistoryInv'
  <2> DEFINE new == [due |-> effect.due, allowed |-> effect.allowed, at |-> now]
             equal == {i \in DOMAIN rescorings[f] : SameEffect(effect, rescorings[f][i])}
  <2>1. /\ found[f] # None /\ UNCHANGED <<found, released, late>>
        /\ \A g \in Vulnerabilities \ {f} : rescorings'[g] = rescorings[g]
        /\ rescorings' = [g \in Vulnerabilities |-> rescorings'[g]]
        /\ \/ rescorings'[f] = Append(rescorings[f], new)
           \/ f \in rewritten'
    BY <1>0, <1>3 DEF Rescore
  <2>2. new \in Decisions /\ new.at = now
    BY <1>0, SlaAssumption DEF Decisions
  <2>3. ASSUME Unforgotten(f)' PROVE EntryRight(f)' /\ LateRight(f)'
    <3>1. rescorings'[f] = Append(rescorings[f], new) /\ found'[f] = found[f]
      BY <2>1, <2>3 DEF Unforgotten
    <3> HIDE DEF new
    <3>. QED  BY <2>1, <2>2, <2>3, <3>1, FindingRescored
  <2>4. ASSUME NEW g \in Vulnerabilities \ {f}, Unforgotten(g)'
        PROVE  EntryRight(g)' /\ LateRight(g)'
    BY <2>1, <2>4, FindingSame, LateSame
  <2>. QED  BY <1>0, <2>1, <2>3, <2>4, HistoryKept
<1>4. ASSUME NEW r \in RootNames, Release(r) PROVE HistoryInv'
  <2>1. /\ UNCHANGED <<found, rescorings>>
        /\ released' = [released EXCEPT ![r] = Append(@, now)]
        /\ late' = [late EXCEPT ![r] = Append(@, overdue)]
    BY <1>4 DEF Release
  <2>2. ASSUME NEW f \in Vulnerabilities, Unforgotten(f)' PROVE EntryRight(f)' /\ LateRight(f)'
    BY <2>1, <2>2, FindingSame, FindingReleased
  <2>. QED  BY <1>0, <2>1, <2>2, HistoryKept
<1>5. CASE NextDay
  <2>1. UNCHANGED <<found, rescorings, released, late>>
    BY <1>5 DEF NextDay
  <2>2. ASSUME NEW f \in Vulnerabilities, Unforgotten(f)' PROVE EntryRight(f)' /\ LateRight(f)'
    BY <2>1, <2>2, FindingSame, LateSame
  <2>. QED  BY <1>0, <2>1, <2>2, HistoryKept
<1>. QED  BY <1>1, <1>2, <1>3, <1>4, <1>5
-----------------------------------------------------------------------------
(* Records *)

\* Versions come in addition.
Grows ==
  \A r \in RootNames : \A v \in DOMAIN released[r] :
    /\ v \in DOMAIN released'[r]
    /\ released'[r][v] = released[r][v]
    /\ late'[r][v] = late[r][v]

LEMMA EventsGrow ==
  ASSUME HistoryInv,
         \/ \E f \in Vulnerabilities :
              Find(f) \/ Disappear(f) \/ DeleteRescoring(f)
                \/ \E effect \in Effects : Rescore(f, effect)
         \/ \E r \in RootNames : Release(r)
         \/ NextDay
  PROVE  /\ Grows
         /\ rewritten \subseteq rewritten'
         /\ Passes
         /\ UNCHANGED profiled
         /\ \A f \in Vulnerabilities : Unforgotten(f)' =>
              \/ found'[f] = found[f]
              \/ found[f] = None /\ found'[f].created = now
<1>0. /\ now \in Nat
      /\ found = [f \in Vulnerabilities |-> found[f]]
      /\ released \in [RootNames -> Seq(Nat)]
      /\ late \in [RootNames -> Seq(SUBSET Vulnerabilities)]
      /\ \A r \in RootNames : Len(late[r]) = Len(released[r])
  BY DEF HistoryInv
<1>1. ASSUME NEW f \in Vulnerabilities,
             Find(f) \/ Disappear(f) \/ DeleteRescoring(f)
               \/ \E effect \in Effects : Rescore(f, effect)
      PROVE  /\ UNCHANGED <<released, late, profiled>> /\ rewritten \subseteq rewritten'
             /\ \E kind : Event(kind)
             /\ \A g \in Vulnerabilities : Unforgotten(g)' =>
                  \/ found'[g] = found[g]
                  \/ found[g] = None /\ found'[g].created = now
  <2>1. CASE Find(f)
    BY <1>0, <2>1 DEF Find
  <2>2. CASE Disappear(f)
    BY <1>0, <2>2 DEF Disappear, Unforgotten
  <2>3. CASE DeleteRescoring(f)
    BY <1>0, <2>3 DEF DeleteRescoring
  <2>4. CASE \E effect \in Effects : Rescore(f, effect)
    BY <1>0, <2>4 DEF Rescore
  <2>. QED  BY <1>1, <2>1, <2>2, <2>3, <2>4
<1>2. ASSUME NEW r \in RootNames, Release(r)
      PROVE  /\ Grows /\ UNCHANGED <<found, rewritten, profiled>> /\ Event("release")
  <2>1. /\ released' = [released EXCEPT ![r] = Append(@, now)]
        /\ late' = [late EXCEPT ![r] = Append(@, overdue)]
        /\ UNCHANGED <<found, rewritten, profiled>> /\ Event("release")
    BY <1>2 DEF Release
  <2>2. /\ released'[r] = Append(released[r], now) /\ late'[r] = Append(late[r], overdue)
        /\ \A s \in RootNames \ {r} : released'[s] = released[s] /\ late'[s] = late[s]
        /\ released[r] \in Seq(Nat) /\ late[r] \in Seq(SUBSET Vulnerabilities)
        /\ Len(late[r]) = Len(released[r])
    BY <1>0, <2>1
  <2>3. ASSUME NEW v \in DOMAIN released[r]
        PROVE  /\ v \in DOMAIN released'[r]
               /\ released'[r][v] = released[r][v]
               /\ late'[r][v] = late[r][v]
    BY <2>2
  <2>. QED  BY <2>1, <2>2, <2>3 DEF Grows
<1>3. ASSUME NextDay
      PROVE  UNCHANGED <<found, released, late, rewritten, profiled>> /\ Passes
  <2>1. /\ now' = (Day(now) + 1) * TicksPerDay
        /\ overdue' = overdue \union OverdueOn(Day(now'))
        /\ UNCHANGED <<found, released, late, rewritten, profiled>>
    BY <1>3 DEF NextDay
  <2>2. now' \in Nat /\ now < now'
    BY <1>0, <2>1, Days
  <2>. QED  BY <2>1, <2>2 DEF Passes
<1>. QED  BY <1>1, <1>2, <1>3, EventPasses DEF Grows

\* A right record remains right.
LEMMA RightStays ==
  ASSUME Grows, rewritten \subseteq rewritten', NEW x, NEW violating, IsRight(x, violating)
  PROVE  IsRight(x, violating)'
<1>1. PICK r \in RootNames : \E v \in DOMAIN released[r] :
        /\ x = <<r, v>>
        /\ \A f \in Vulnerabilities : Unforgotten(f) => (f \in violating <=> f \in late[r][v])
  BY DEF IsRight
<1>2. PICK v \in DOMAIN released[r] :
        /\ x = <<r, v>>
        /\ \A f \in Vulnerabilities : Unforgotten(f) => (f \in violating <=> f \in late[r][v])
  BY <1>1
<1>3. v \in DOMAIN released'[r] /\ late'[r][v] = late[r][v]
  BY DEF Grows
<1>4. \A f \in Vulnerabilities : Unforgotten(f)' => Unforgotten(f)
  BY DEF Unforgotten
<1>. QED  BY <1>2, <1>3, <1>4 DEF IsRight

\* Events leave the profiler and its records right.
LEMMA ProfilerUndisturbed ==
  ASSUME HistoryInv, ProfilerInv, Grows, rewritten \subseteq rewritten', UNCHANGED profiled,
         \A f \in Vulnerabilities : Unforgotten(f)' =>
           \/ found'[f] = found[f]
           \/ found[f] = None /\ found'[f].created = now
  PROVE  ProfilerInv'
<1>1. UNCHANGED <<records, profiler>>
  BY DEF profiled
<1>2. \A f \in Vulnerabilities : Unforgotten(f)' => Unforgotten(f)
  BY DEF Unforgotten
<1> DEFINE root == Roots[profiler.root]
<1>3. /\ root \in RootNames
      /\ profiler.todo \subseteq DOMAIN released[root]
  BY DEF ProfilerInv, RootNames
<1>4. /\ profiler.todo \subseteq DOMAIN released'[root]
      /\ \A v \in profiler.todo : released'[root][v] = released[root][v] /\ released[root][v] < now
  BY <1>3 DEF Grows, HistoryInv
<1>5. AreRight(records)'
  BY <1>1, RightStays DEF ProfilerInv, AreRight
<1>6. AreRight(profiler.new)'
  BY <1>1, RightStays DEF ProfilerInv, AreRight
<1>7. ASSUME NEW f \in Vulnerabilities, Unforgotten(f)', profiler.pc = "rescorings"
      PROVE  IsRead(f)'
  <2>1. IsRead(f)
    BY <1>2, <1>7 DEF ProfilerInv
  <2>. QED  BY <1>1, <1>4, <1>7, <2>1 DEF IsRead
<1>8. ProfilerInv!1' /\ ProfilerInv!2' /\ ProfilerInv!3' /\ ProfilerInv!4' /\ ProfilerInv!5'
  BY <1>1, <1>4 DEF ProfilerInv
<1>. QED  BY <1>1, <1>5, <1>6, <1>7, <1>8 DEF ProfilerInv
-----------------------------------------------------------------------------
(* Steps of the profiler *)

\* The job goes on with what it has.
LEMMA OnwardJob ==
  ASSUME NEW pc, NEW root \in DOMAIN Roots, NEW todo, NEW entries, NEW new, NEW task,
         task = [pc |-> pc, root |-> root, todo |-> todo, findings |-> entries, new |-> new]
  PROVE  /\ Onward(task) = [pc |-> Onward(task).pc, root |-> Onward(task).root, todo |-> todo,
                            findings |-> entries, new |-> new]
         /\ Onward(task).root \in DOMAIN Roots
         /\ todo # {} => Onward(task).root = root
         /\ Onward(task).pc # "rescorings"
<1>1. Roots \in Seq({Roots[i] : i \in DOMAIN Roots})
  BY SlaAssumption
<1>2. Len(Roots) \in Nat /\ DOMAIN Roots = 1..Len(Roots)
  BY <1>1
<1>3. CASE todo # {}
  BY <1>3 DEF Onward
<1>4. CASE todo = {} /\ root = Len(Roots)
  BY <1>4 DEF Onward
<1>5. CASE todo = {} /\ root # Len(Roots)
  <2>1. root + 1 \in DOMAIN Roots
    BY <1>2, <1>5
  <2>. QED  BY <1>5, <2>1 DEF Onward
<1>. QED  BY <1>3, <1>4, <1>5

\* A version less to do, a record more.
NextJob(task, rest, more) == [task EXCEPT !.todo = rest, !.findings = <<>>, !.new = more]

LEMMA NextJobType ==
  ASSUME NEW task, NEW rest, NEW more,
         task = [pc |-> task.pc, root |-> task.root, todo |-> task.todo, findings |-> task.findings,
                 new |-> task.new]
  PROVE  NextJob(task, rest, more)
           = [pc |-> task.pc, root |-> task.root, todo |-> rest, findings |-> <<>>, new |-> more]
<1> DEFINE one == [task EXCEPT !.todo = rest]
           two == [one EXCEPT !.findings = <<>>]
<1>1. one = [pc |-> task.pc, root |-> task.root, todo |-> rest, findings |-> task.findings,
             new |-> task.new]
  OBVIOUS
<1> HIDE DEF one
<1>2. two = [pc |-> task.pc, root |-> task.root, todo |-> rest, findings |-> <<>>, new |-> task.new]
  BY <1>1
<1> HIDE DEF two
<1>3. [two EXCEPT !.new = more]
        = [pc |-> task.pc, root |-> task.root, todo |-> rest, findings |-> <<>>, new |-> more]
  BY <1>2
<1>. QED  BY <1>3 DEF one, two, NextJob

LEMMA FreshProfiler ==
  /\ 1 \in DOMAIN Roots
  /\ NewProfiler.todo = {} /\ NewProfiler.root = 1 /\ NewProfiler.pc = "list"
  /\ NewProfiler = [pc |-> NewProfiler.pc, root |-> NewProfiler.root, todo |-> NewProfiler.todo,
                    findings |-> NewProfiler.findings, new |-> NewProfiler.new]
  /\ DOMAIN NewProfiler.new = {}
<1>1. Roots \in Seq({Roots[i] : i \in DOMAIN Roots}) /\ Roots # <<>>
  BY SlaAssumption
<1>2. 1 \in DOMAIN Roots
  BY <1>1
<1>. QED  BY <1>2 DEF NewProfiler

\* Nothing that records are about changes.
LEMMA RightUnchanged ==
  ASSUME UNCHANGED <<delivery, history>>, NEW x, NEW violating, IsRight(x, violating)
  PROVE  IsRight(x, violating)'
  BY DEF IsRight, Unforgotten, delivery, history

\* What the profiler makes of the findings it has read.
LEMMA ViolationsRight ==
  ASSUME HistoryInv, ProfilerInv, profiler.pc = "rescorings", NEW v \in profiler.todo
  PROVE  IsRight(<<Roots[profiler.root], v>>,
                 Violations(profiler.findings, released[Roots[profiler.root]][v]))
<1> DEFINE r == Roots[profiler.root]
           t == released[r][v]
           entries == profiler.findings
<1>1. r \in RootNames /\ v \in DOMAIN released[r] /\ t \in Nat
  BY DEF ProfilerInv, RootNames, HistoryInv
<1>2. ASSUME NEW f \in Vulnerabilities, Unforgotten(f)
      PROVE  f \in Violations(entries, t) <=> f \in late[r][v]
  <2>1. f \in Violations(entries, t) <=> Violating(f, entries[f], t)
    BY <1>2 DEF Violations, Violating, Unforgotten
  <2>2. EntryRight(f) /\ LateRight(f) /\ IsRead(f)
    BY <1>2 DEF HistoryInv, ProfilerInv
  <2>3. f \in late[r][v] <=> Violating(f, found[f], t)
    BY <1>1, <2>2 DEF LateRight
  <2>4. CASE entries[f] = found[f]
    BY <2>1, <2>3, <2>4
  <2>5. CASE entries[f] = None /\ t < found[f].created
    <3>1. ~Violating(f, None, t)
      BY DEF Violating
    <3>2. ~Violating(f, found[f], t)
      BY <1>1, <2>2, <2>5 DEF Violating, EntryRight
    <3>. QED  BY <2>1, <2>3, <2>5, <3>1, <3>2
  <2>. QED  BY <2>2, <2>4, <2>5 DEF IsRead
<1>. QED  BY <1>1, <1>2 DEF IsRight

LEMMA ProfilerSteps ==
  ASSUME HistoryInv, ProfilerInv, ProfilerStep \/ AbortProfiler
  PROVE  ProfilerInv'
<1>0. /\ UNCHANGED <<delivery, history>>
      /\ Roots[profiler.root] \in RootNames
  BY DEF ProfilerStep, ListVersions, QueryFindings, QueryRescorings, StoreRecords, AbortProfiler,
         ProfilerInv, RootNames
<1> DEFINE Job(task) ==
      /\ task = [pc |-> task.pc, root |-> task.root, todo |-> task.todo,
                findings |-> task.findings, new |-> task.new]
      /\ task.root \in DOMAIN Roots
      /\ task.todo \subseteq DOMAIN released[Roots[task.root]]
<1>1. Job(profiler)
  BY DEF ProfilerInv
<1>2. CASE ListVersions
  <2> DEFINE todo == Unprofiled(Roots[profiler.root])
             task == [profiler EXCEPT !.todo = todo]
  <2>1. profiler' = Onward(task) /\ UNCHANGED records
    BY <1>2 DEF ListVersions
  <2>2. todo \subseteq DOMAIN released[Roots[profiler.root]]
        /\ \A v \in todo : <<Roots[profiler.root], v>> \notin DOMAIN records
    BY DEF Unprofiled, Newest
  <2>3. task = [pc |-> profiler.pc, root |-> profiler.root, todo |-> todo,
               findings |-> profiler.findings, new |-> profiler.new]
    BY <1>1
  <2> HIDE DEF task, todo
  <2>4. /\ profiler' = [pc |-> profiler'.pc, root |-> profiler'.root, todo |-> todo,
                        findings |-> profiler.findings, new |-> profiler.new]
        /\ profiler'.root \in DOMAIN Roots
        /\ todo # {} => profiler'.root = profiler.root
        /\ profiler'.pc # "rescorings"
    BY <1>1, <2>1, <2>3, OnwardJob
  <2>5. profiler'.todo = todo /\ profiler'.new = profiler.new
    BY <2>4
  <2>6. AreRight(records)' /\ AreRight(profiler.new)'
    BY <1>0, <2>1, <2>5, RightUnchanged DEF ProfilerInv, AreRight
  <2>7. /\ \A v \in todo : v \in DOMAIN released[Roots[profiler'.root]]
        /\ \A v \in todo : <<Roots[profiler'.root], v>> \notin DOMAIN records
    BY <2>2, <2>4
  <2>8. UNCHANGED released
    BY <1>0 DEF delivery
  <2>. QED  BY <2>1, <2>4, <2>5, <2>6, <2>7, <2>8 DEF ProfilerInv
<1>3. CASE QueryFindings
  <2>1. profiler' = [profiler EXCEPT !.pc = "rescorings", !.findings = found]
        /\ UNCHANGED <<records, found, released>>
    BY <1>3 DEF QueryFindings, delivery
  <2>2. profiler' = [pc |-> "rescorings", root |-> profiler.root, todo |-> profiler.todo,
                     findings |-> found, new |-> profiler.new]
    BY <1>1, <2>1
  <2>3. AreRight(records)' /\ AreRight(profiler.new)'
    BY <1>0, <2>1, <2>2, RightUnchanged DEF ProfilerInv, AreRight
  <2>. QED  BY <2>1, <2>2, <2>3 DEF ProfilerInv, IsRead
<1>4. CASE QueryRescorings
  <2> DEFINE r == Roots[profiler.root]
             NewRecord(v) == WithRecord(profiler.new, <<r, v>>,
                                        Violations(profiler.findings, released[r][v]))
  <2>1. PICK v \in profiler.todo :
          profiler' = Onward(NextJob(profiler, profiler.todo \ {v}, NewRecord(v)))
    BY <1>4 DEF QueryRescorings, NextJob
  <2> DEFINE x == <<r, v>>
             violating == Violations(profiler.findings, released[r][v])
             new == NewRecord(v)
             todo == profiler.todo \ {v}
             task == [pc |-> profiler.pc, root |-> profiler.root, todo |-> todo,
                     findings |-> <<>>, new |-> new]
  <2>2. profiler.pc = "rescorings" /\ UNCHANGED <<records, released>>
    BY <1>4 DEF QueryRescorings, delivery
  <2>3. IsRight(x, violating) /\ x \notin DOMAIN records
    BY <2>2, ViolationsRight DEF ProfilerInv
  <2>5. /\ DOMAIN new = DOMAIN profiler.new \union {x}
        /\ new[x] = violating
        /\ \A y \in DOMAIN profiler.new \ {x} : new[y] = profiler.new[y]
    BY DEF WithRecord
  <2> HIDE DEF NewRecord, x, violating
  <2>4. profiler' = Onward(task)
    <3> HIDE DEF new
    <3>1. NextJob(profiler, todo, new) = task
      BY <1>1, NextJobType
    <3> HIDE DEF task
    <3>. QED  BY <2>1, <3>1 DEF new
  <2> HIDE DEF new
  <2>6. /\ profiler' = [pc |-> profiler'.pc, root |-> profiler'.root, todo |-> todo,
                        findings |-> <<>>, new |-> new]
        /\ profiler'.root \in DOMAIN Roots
        /\ todo # {} => profiler'.root = profiler.root
        /\ profiler'.pc # "rescorings"
    <3>1. task = [pc |-> profiler.pc, root |-> profiler.root, todo |-> todo,
                 findings |-> <<>>, new |-> new]
      OBVIOUS
    <3> HIDE DEF task, todo
    <3>. QED  BY <1>1, <2>4, <3>1, OnwardJob
  <2>7. profiler'.todo = todo /\ profiler'.new = new
    BY <2>6
  <2>8. \A y \in DOMAIN new : IsRight(y, new[y])
    BY <2>3, <2>5 DEF ProfilerInv, AreRight
  <2>9. AreRight(records)' /\ AreRight(profiler.new)'
    BY <1>0, <2>2, <2>7, <2>8, RightUnchanged DEF ProfilerInv, AreRight
  <2>10. DOMAIN new \intersect DOMAIN records = {}
    BY <2>3, <2>5 DEF ProfilerInv
  <2>11. /\ \A w \in todo : w \in DOMAIN released[Roots[profiler'.root]]
         /\ \A w \in todo : <<Roots[profiler'.root], w>> \notin DOMAIN records
    BY <2>6 DEF ProfilerInv
  <2>. QED  BY <2>2, <2>6, <2>7, <2>9, <2>10, <2>11 DEF ProfilerInv
<1>5. CASE StoreRecords \/ AbortProfiler
  <2>1. profiler' = NewProfiler
    BY <1>5 DEF StoreRecords, AbortProfiler
  <2>2. \A x \in DOMAIN records' : IsRight(x, records'[x])
    BY <1>5 DEF StoreRecords, AbortProfiler, ProfilerInv, AreRight
  <2>3. AreRight(records)' /\ AreRight(profiler.new)'
    BY <1>0, <2>1, <2>2, RightUnchanged, FreshProfiler DEF AreRight
  <2>. QED  BY <2>1, <2>3, FreshProfiler DEF ProfilerInv
<1>. QED  BY <1>2, <1>3, <1>4, <1>5 DEF ProfilerStep
-----------------------------------------------------------------------------
(* Histories, records and reports together *)

LEMMA SlaInitial ==
  ASSUME SlaInit
  PROVE  SlaInv
<1>1. /\ now = 0 /\ overdue = {}
      /\ found = [f \in Vulnerabilities |-> None]
      /\ rescorings = [f \in Vulnerabilities |-> <<>>]
      /\ released = [r \in RootNames |-> <<>>] /\ late = [r \in RootNames |-> <<>>]
      /\ records = <<>> /\ profiler = NewProfiler
  BY DEF SlaInit
<1>2. ASSUME NEW f \in Vulnerabilities PROVE EntryRight(f) /\ LateRight(f)
  BY <1>1, <1>2 DEF EntryRight, LateRight
<1>3. HistoryInv
  BY <1>1, <1>2 DEF HistoryInv
<1>4. ProfilerInv
  BY <1>1, FreshProfiler DEF ProfilerInv, AreRight
<1>. QED  BY <1>3, <1>4 DEF SlaInv

LEMMA SlaStep ==
  ASSUME SlaInv, [SlaNext]_slaVars
  PROVE  SlaInv'
<1>1. HistoryInv /\ ProfilerInv
  BY DEF SlaInv
<1>2. CASE \/ \E f \in Vulnerabilities :
                Find(f) \/ Disappear(f) \/ DeleteRescoring(f)
                  \/ \E effect \in Effects : Rescore(f, effect)
           \/ \E r \in RootNames : Release(r)
           \/ NextDay
  <2>1. HistoryInv'
    BY <1>1, <1>2, EventsGrow, HistoryEvents
  <2>2. ProfilerInv'
    BY <1>1, <1>2, EventsGrow, ProfilerUndisturbed
  <2>. QED  BY <2>1, <2>2 DEF SlaInv
<1>3. CASE ProfilerStep \/ AbortProfiler
  <2>1. UNCHANGED <<delivery, history>>
    BY <1>3 DEF ProfilerStep, ListVersions, QueryFindings, QueryRescorings, StoreRecords,
                AbortProfiler
  <2>. QED  BY <1>1, <1>3, <2>1, HistoryUnchanged, ProfilerSteps DEF SlaInv
<1>4. CASE ReporterStep \/ UNCHANGED slaVars
  <2>1. UNCHANGED <<delivery, history, profiled>>
    BY <1>4 DEF ReporterStep, WriteReport, MergeReport, slaVars, delivery, history, profiled
  <2>2. Grows
    BY <2>1 DEF Grows, delivery, history
  <2>3. ProfilerInv'
    BY <1>1, <2>1, <2>2, ProfilerUndisturbed DEF delivery, history
  <2>. QED  BY <1>1, <2>1, <2>3, HistoryUnchanged DEF SlaInv
<1>. QED  BY <1>2, <1>3, <1>4 DEF SlaNext

\* What was overdue is what the rescorings in the delivery-db say, as far as it forgot nothing; the
\* records and what the profiler collects for its next request say the same.
THEOREM SlaInvariant == SlaSpec => []SlaInv
<1>1. SlaInit => SlaInv
  BY SlaInitial
<1>2. SlaInv /\ [SlaNext]_slaVars => SlaInv'
  BY SlaStep
<1>. QED  BY <1>1, <1>2, PTL DEF SlaSpec

LEMMA RightRecords ==
  ASSUME SlaInv
  PROVE  RecordsAreRight
<1>1. ASSUME NEW x \in DOMAIN records, NEW f \in Vulnerabilities \ rewritten, Allowed[f] # None
      PROVE  f \in records[x] <=> f \in late[x[1]][x[2]]
  <2>1. IsRight(x, records[x]) /\ Unforgotten(f)
    BY <1>1 DEF SlaInv, ProfilerInv, AreRight, Unforgotten
  <2>2. PICK r \in RootNames : \E v \in DOMAIN released[r] :
          x = <<r, v>> /\ (f \in records[x] <=> f \in late[r][v])
    BY <2>1 DEF IsRight
  <2>3. PICK v \in DOMAIN released[r] : x = <<r, v>> /\ (f \in records[x] <=> f \in late[r][v])
    BY <2>2
  <2>4. x[1] = r /\ x[2] = v
    BY <2>3
  <2>. QED  BY <2>3, <2>4
<1>. QED  BY <1>1 DEF RecordsAreRight

\* For any roots, limits and rescorings, and however often the profiler fails and begins anew: a
\* record names exactly those findings that were overdue before the release, as far as the
\* delivery-db forgot nothing of them (iter_version_sla_violations).
THEOREM RecordsRight == SlaSpec => []RecordsAreRight
<1>1. SlaInv => RecordsAreRight
  BY RightRecords
<1>. QED  BY <1>1, SlaInvariant, PTL

\* No later job, and no finding, rescoring or version that comes or goes later, changes a record.
THEOREM RecordsRemain == SlaSpec => RecordsStay
<1>1. ASSUME SlaInv, [SlaNext]_slaVars, NEW x \in DOMAIN records
      PROVE  x \in DOMAIN records' /\ records'[x] = records[x]
  <2>1. CASE StoreRecords
    BY <1>1, <2>1 DEF StoreRecords, SlaInv, ProfilerInv
  <2>2. CASE UNCHANGED records
    BY <2>2
  <2>3. StoreRecords \/ UNCHANGED records
    BY <1>1 DEF SlaNext, slaVars, Find, Disappear, DeleteRescoring, Rescore, Release, NextDay,
         ProfilerStep, ListVersions, QueryFindings, QueryRescorings, AbortProfiler, ReporterStep,
         WriteReport, MergeReport, profiled
  <2>. QED  BY <2>1, <2>2, <2>3
<1>2. SlaInv /\ [SlaNext]_slaVars
        => [\A x \in DOMAIN records : x \in DOMAIN records' /\ records'[x] = records[x]]_slaVars
  BY <1>1
<1>. QED  BY <1>2, SlaInvariant, PTL DEF SlaSpec, RecordsStay

-----------------------------------------------------------------------------
(* Alerts *)

AlertStates == {None, "open", "resolved"}
GhasTypeOK ==
  /\ alert \in [Alerts -> AlertStates]
  /\ secrets \subseteq AlertFindings
  /\ verdicts \in [AlertFindings -> Seq(AlertStates)]
  /\ job.current \subseteq AlertFindings
  /\ job.pending \subseteq AlertFindings
  /\ job.listed \subseteq Alerts
  /\ job.rescored \in [AlertFindings -> AlertStates]

\* An alert that has been resolved at some time.
WasResolved(a) == alert[a] = "resolved" \/ a \in reopened

\* Whatever is to be stored or has been stored as resolved was so once.
VerdictsAreReal ==
  \A f \in AlertFindings :
    /\ job.rescored[f] = "resolved" => WasResolved(f[1])
    /\ \A i \in DOMAIN verdicts[f] : verdicts[f][i] = "resolved" => WasResolved(f[1])

GhasInv == GhasTypeOK /\ VerdictsAreReal

LEMMA NoJobType ==
  /\ NoJob.current = {} /\ NoJob.pending = {} /\ NoJob.listed = {}
  /\ NoJob.rescored = [f \in AlertFindings |-> None]
  /\ NoJob.rescored \in [AlertFindings -> AlertStates]
BY DEF NoJob, AlertStates

\* None is no resolution.
LEMMA NoneIsNotResolved ==
  ASSUME VerdictsAreReal, job'.rescored = job.rescored \/ job'.rescored = NoJob.rescored,
         UNCHANGED <<alert, reopened, verdicts>>, GhasAssumption
  PROVE  VerdictsAreReal'
BY NoJobType DEF VerdictsAreReal, WasResolved, GhasAssumption

\* The job: it stores as resolved what it has seen resolved.
LEMMA GhasJobInv ==
  ASSUME GhasInv, GhasStep, GhasAssumption
  PROVE  GhasInv'
<1>0. GhasTypeOK /\ VerdictsAreReal
  BY DEF GhasInv
<1>1. UNCHANGED <<alert, reopened>>
  BY DEF GhasStep, StartGhas, ListAlerts, CompareFindings, RequestDetails, DeliverGhas
<1>2. CASE StartGhas \/ ListAlerts \/ CompareFindings
  <2>1. UNCHANGED <<secrets, verdicts>>
    BY <1>2 DEF StartGhas, ListAlerts, CompareFindings
  <2>2. /\ job'.current \subseteq AlertFindings
        /\ job'.pending \subseteq AlertFindings
        /\ job'.listed \subseteq Alerts
        /\ job'.rescored = job.rescored \/ job'.rescored = NoJob.rescored
    <3>1. CASE StartGhas
      <4>1. job' = [NoJob EXCEPT !.pc = "list", !.orgs = AlertOrgs]
        BY <3>1 DEF StartGhas
      <4> QED
        BY <4>1 DEF NoJob
    <3>2. CASE ListAlerts
      <4>1. PICK o \in job.orgs : \E got \in SUBSET OpenAlerts(o) :
              job' = [job EXCEPT !.orgs = @ \ {o}, !.listed = @ \union got,
                                 !.pc = IF job.orgs = {o} THEN "place" ELSE "list"]
        BY <3>2 DEF ListAlerts, Answers
      <4> QED
        BY <1>0, <4>1 DEF GhasTypeOK, OpenAlerts
    <3>3. CASE CompareFindings
      <4> DEFINE current == {<<a, PlaceOf(a)>> : a \in job.listed}
      <4>1. job' = Details(current, Stale(current), job.rescored)
        BY <3>3 DEF CompareFindings
      <4>2. current \subseteq AlertFindings
        BY <1>0 DEF GhasTypeOK, AlertFindings, PlaceOf, Places
      <4>3. Stale(current) \subseteq AlertFindings
        BY <1>0 DEF GhasTypeOK, Stale
      <4> HIDE DEF current
      <4> QED
        BY <4>1, <4>2, <4>3 DEF Details
    <3> QED
      BY <1>2, <3>1, <3>2, <3>3
  <2> QED
    BY <1>0, <1>1, <2>1, <2>2, NoJobType, NoneIsNotResolved DEF GhasInv, GhasTypeOK
<1>3. CASE RequestDetails
  <2>1. UNCHANGED <<secrets, verdicts>>
    BY <1>3 DEF RequestDetails
  <2>2. CASE job' = NoJob
    BY <1>0, <1>1, <2>1, <2>2, NoJobType, NoneIsNotResolved DEF GhasInv, GhasTypeOK
  <2>3. CASE job' # NoJob
    <3>1. PICK f \in job.pending : job' = Details(job.current, job.pending \ {f},
                                          [job.rescored EXCEPT ![f] = Resolution(f[1])])
      BY <1>3, <2>3 DEF RequestDetails
    <3>2. /\ job'.current = job.current /\ job'.pending = job.pending \ {f} /\ job'.listed = {}
          /\ job'.rescored = [job.rescored EXCEPT ![f] = Resolution(f[1])]
      BY <3>1 DEF Details
    <3>3. f \in AlertFindings /\ f[1] \in Alerts /\ Resolution(f[1]) \in AlertStates
      BY <1>0 DEF GhasTypeOK, AlertFindings, Resolution
    <3>4. GhasTypeOK'
      BY <1>0, <1>1, <2>1, <3>2, <3>3 DEF GhasTypeOK
    <3>5. VerdictsAreReal'
      BY <1>0, <1>1, <2>1, <3>2, <3>3 DEF VerdictsAreReal, WasResolved, Resolution, GhasTypeOK
    <3> QED
      BY <3>4, <3>5 DEF GhasInv
  <2> QED
    BY <2>2, <2>3
<1>4. CASE DeliverGhas
  <2>1. job' = NoJob
    BY <1>4 DEF DeliverGhas
  <2>2. CASE UNCHANGED <<secrets, verdicts>>
    BY <1>0, <1>1, <2>1, <2>2, NoJobType, NoneIsNotResolved DEF GhasInv, GhasTypeOK
  <2>3. CASE ~UNCHANGED <<secrets, verdicts>>
    <3>1. /\ secrets' = secrets \union job.current
          /\ verdicts' = [f \in AlertFindings |->
                            IF job.rescored[f] # None
                            THEN WithVerdict(verdicts[f], job.rescored[f]) ELSE verdicts[f]]
      BY <1>4, <2>3 DEF DeliverGhas
    <3>2. ASSUME NEW f \in AlertFindings
          PROVE  /\ verdicts'[f] \in Seq(AlertStates)
                 /\ \A i \in DOMAIN verdicts'[f] :
                      verdicts'[f][i] = "resolved" => WasResolved(f[1])
      <4>1. verdicts[f] \in Seq(AlertStates) /\ job.rescored[f] \in AlertStates
        BY <1>0 DEF GhasTypeOK
      <4>2. verdicts'[f] = verdicts[f] \/ verdicts'[f] = Append(verdicts[f], job.rescored[f])
        BY <3>1 DEF WithVerdict
      <4>3. \A i \in DOMAIN verdicts[f] : verdicts[f][i] = "resolved" => WasResolved(f[1])
        BY <1>0 DEF VerdictsAreReal
      <4>4. job.rescored[f] = "resolved" => WasResolved(f[1])
        BY <1>0, <1>4, <3>1 DEF VerdictsAreReal, DeliverGhas
      <4>5. CASE verdicts'[f] = verdicts[f]
        BY <4>1, <4>3, <4>5
      <4>6. CASE verdicts'[f] = Append(verdicts[f], job.rescored[f])
        <5>1. /\ verdicts'[f] \in Seq(AlertStates)
              /\ DOMAIN verdicts'[f] = 1 .. (Len(verdicts[f]) + 1)
          BY <4>1, <4>6, AppendProperties, LenProperties
        <5>2. \A i \in DOMAIN verdicts'[f] :
                verdicts'[f][i] = job.rescored[f] \/ (i \in DOMAIN verdicts[f]
                                                     /\ verdicts'[f][i] = verdicts[f][i])
          BY <4>1, <4>6, <5>1, AppendProperties, LenProperties
        <5> QED BY <4>3, <4>4, <5>1, <5>2
      <4> QED
        BY <4>2, <4>5, <4>6
    <3>3. GhasTypeOK'
      <4>1. verdicts' \in [AlertFindings -> Seq(AlertStates)]
        BY <3>1, <3>2
      <4> QED
        BY <1>0, <1>1, <2>1, <3>1, <4>1, NoJobType DEF GhasTypeOK
    <3>4. VerdictsAreReal'
      BY <1>1, <2>1, <3>2, NoJobType DEF VerdictsAreReal, WasResolved, GhasAssumption
    <3> QED
      BY <3>3, <3>4 DEF GhasInv
  <2> QED
    BY <2>2, <2>3
<1> QED
  BY <1>2, <1>3, <1>4 DEF GhasStep

\* GitHub: what was resolved is resolved, or has been opened again.
LEMMA GitHubInv ==
  ASSUME GhasInv, NEW a \in Alerts,
         RaiseAlert(a) \/ ResolveAlert(a) \/ ReopenAlert(a) \/ AddComponent(a),
         GhasAssumption
  PROVE  GhasInv'
<1>0. GhasTypeOK /\ VerdictsAreReal
  BY DEF GhasInv
<1>1. UNCHANGED <<secrets, verdicts, job>>
  BY DEF RaiseAlert, ResolveAlert, ReopenAlert, AddComponent
<1>2. alert' \in [Alerts -> AlertStates] /\ \A b \in Alerts : WasResolved(b) => WasResolved(b)'
  BY <1>0 DEF RaiseAlert, ResolveAlert, ReopenAlert, AddComponent, GhasTypeOK, AlertStates,
              WasResolved, GhasAssumption
<1>3. GhasTypeOK'
  BY <1>0, <1>1, <1>2 DEF GhasTypeOK
<1>4. \A f \in AlertFindings : f[1] \in Alerts
  BY DEF AlertFindings
<1>5. VerdictsAreReal'
  BY <1>0, <1>1, <1>2, <1>4 DEF VerdictsAreReal
<1> QED
  BY <1>3, <1>5 DEF GhasInv

\* A rescoring says "resolved" only if its alert has been so at some time.
THEOREM GhasInvariant == ASSUME GhasAssumption PROVE GhasSpec => []GhasInv
<1>1. GhasInit => GhasInv
  <2> SUFFICES ASSUME GhasInit PROVE GhasInv
    OBVIOUS
  <2>1. GhasTypeOK
    BY NoJobType DEF GhasInit, GhasTypeOK, AlertStates
  <2>2. VerdictsAreReal
    <3>1. \A f \in AlertFindings : job.rescored[f] = None /\ verdicts[f] = <<>>
      BY NoJobType DEF GhasInit
    <3> QED
      BY <3>1 DEF VerdictsAreReal, GhasAssumption
  <2> QED
    BY <2>1, <2>2 DEF GhasInv
<1>2. GhasInv /\ [GhasNext]_ghasVars => GhasInv'
  <2> SUFFICES ASSUME GhasInv, [GhasNext]_ghasVars PROVE GhasInv'
    OBVIOUS
  <2>1. CASE UNCHANGED ghasVars
    BY <2>1 DEF ghasVars, GhasInv, GhasTypeOK, VerdictsAreReal, WasResolved
  <2> QED
    BY <2>1, GhasJobInv, GitHubInv DEF GhasNext
<1> QED
  BY <1>1, <1>2, PTL DEF GhasSpec

\* Whatever request to GitHub or the delivery-service fails, and wherever a finding moves: a finding
\* is shown as resolved only if its alert has been resolved at some time.
THEOREM OpenStaysOpen == ASSUME GhasAssumption PROVE GhasSpec => []OpenIsNotResolved
<1>1. GhasInv => OpenIsNotResolved
  <2> SUFFICES ASSUME GhasInv, NEW f \in secrets, Effective(f) = "resolved"
               PROVE  WasResolved(f[1])
    BY DEF OpenIsNotResolved, WasResolved
  <2>1. f \in AlertFindings /\ verdicts[f] \in Seq(AlertStates)
    BY DEF GhasInv, GhasTypeOK
  <2>2. verdicts[f] # <<>> /\ verdicts[f][Len(verdicts[f])] = "resolved"
    BY DEF Effective
  <2>3. Len(verdicts[f]) \in DOMAIN verdicts[f]
    BY <2>1, <2>2
  <2> QED
    BY <2>1, <2>2, <2>3 DEF GhasInv, VerdictsAreReal
<1> QED
  BY <1>1, GhasInvariant, PTL

-----------------------------------------------------------------------------
(* BDBA *)

Postprocessing == {"hints", "triage", "read", "delete", "store"}
BdbaScanTypes ==
  [pc : {"idle", "request", "wait"} \union Postprocessing, owner : Owners \union {None},
   target : Nat \union {None}, result : [Cves -> Nat \union {None}] \union {None},
   existing : [Cves -> Nat \union {None}] \union {None},
   next : {"check", "hints", "read", None}, emptied : BOOLEAN]
Products ==
  [status : {"busy", "ready", "failed"}, engine : Engines, empty : BOOLEAN, kept : BOOLEAN,
   hidden : SUBSET Cves, triaged : SUBSET Cves]
BdbaTypeOK ==
  /\ engine \in Engines
  /\ products \in Seq(Products)
  /\ scans \in [Scanners -> BdbaScanTypes]
  /\ awaiting \subseteq Owners
  /\ hints \subseteq Cves
  /\ scored \in [Cves -> Nat \union {None}]

\* What the products are made of has been there.
ProductsAreReal ==
  \A i \in DOMAIN products : products[i].engine <= engine /\ products[i].hidden \subseteq hints

\* Why v can be missing in a result that is not of an emptied product.
MayBeMissing(v) == v \in hints \/ \E e \in Engines : e <= engine /\ Score[e][v] = 0

\* A pod waits for a product there is, ...
TargetExists(w) ==
  /\ scans[w].target # None => scans[w].target \in DOMAIN products
  /\ scans[w].pc = "wait" => /\ scans[w].target # None
                             /\ scans[w].next \in {"check", "hints", "read"}
\* ... and what its result does not contain is not there, unless the product was emptied.
ResultIsReal(w) ==
  scans[w].pc \in Postprocessing =>
    /\ scans[w].target # None /\ scans[w].result \in [Cves -> Nat \union {None}]
    /\ scans[w].emptied \/ \A v \in Cves : scans[w].result[v] = None => MayBeMissing(v)

BdbaInv ==
  /\ BdbaTypeOK
  /\ ProductsAreReal
  /\ \A w \in Scanners : TargetExists(w) /\ ResultIsReal(w)

-----------------------------------------------------------------------------

LEMMA NotScanningType == NotScanning \in BdbaScanTypes /\ NotScanning.pc = "idle"
BY DEF NotScanning, Unscanned, BdbaScanTypes

\* What a step of pod w has to establish, if it changes no product.
LEMMA PodAlone ==
  ASSUME BdbaInv, NEW w \in Scanners, NEW s \in BdbaScanTypes, scans' = [scans EXCEPT ![w] = s],
         awaiting' \subseteq Owners, scored' \in [Cves -> Nat \union {None}],
         UNCHANGED <<engine, products, hints>>,
         s.target # None => s.target \in DOMAIN products,
         s.pc = "wait" => s.target # None /\ s.next \in {"check", "hints", "read"},
         s.pc \in Postprocessing =>
           /\ s.target # None /\ s.result \in [Cves -> Nat \union {None}]
           /\ s.emptied \/ \A v \in Cves : s.result[v] = None => MayBeMissing(v)
  PROVE  BdbaInv'
<1>1. BdbaTypeOK' /\ ProductsAreReal'
  BY DEF BdbaInv, BdbaTypeOK, ProductsAreReal
<1>2. \A v : MayBeMissing(v)' <=> MayBeMissing(v)
  BY DEF MayBeMissing
<1>3. ASSUME NEW x \in Scanners PROVE TargetExists(x)' /\ ResultIsReal(x)'
  <2>1. CASE x = w
    <3>1. scans'[x] = s
      BY <2>1 DEF BdbaInv, BdbaTypeOK
    <3> QED
      BY <1>2, <3>1 DEF TargetExists, ResultIsReal
  <2>2. CASE x # w
    <3>1. scans'[x] = scans[x] /\ TargetExists(x) /\ ResultIsReal(x)
      BY <2>2 DEF BdbaInv, BdbaTypeOK
    <3> QED
      BY <1>2, <3>1 DEF TargetExists, ResultIsReal
  <2> QED
    BY <2>1, <2>2
<1> QED
  BY <1>1, <1>3 DEF BdbaInv

\* A product is added or changed; pod w waits for it.
LEMMA ProductChanges ==
  ASSUME BdbaAssumption, BdbaInv, NEW w \in Scanners, NEW t, t \in DOMAIN products',
         NEW next \in {"check", "hints", "read"},
         Await(w, t, next), products' \in Seq(Products), Len(products) <= Len(products'),
         ProductsAreReal', UNCHANGED <<engine, awaiting, scored, hints>>
  PROVE  BdbaInv'
<1>1. /\ scans[w] \in BdbaScanTypes
      /\ scans' = [scans EXCEPT ![w] = scans'[w]]
      /\ scans'[w] = [pc |-> "wait", owner |-> scans[w].owner, target |-> t,
                     result |-> scans[w].result, existing |-> None, next |-> next,
                     emptied |-> FALSE]
  BY DEF BdbaInv, BdbaTypeOK, Await, Scanning
<1>2. t \in Nat /\ DOMAIN products \subseteq DOMAIN products'
  BY DEF BdbaInv, BdbaTypeOK
<1>3. scans'[w] \in BdbaScanTypes
  BY <1>1, <1>2 DEF BdbaScanTypes
<1>4. BdbaTypeOK'
  BY <1>1, <1>3 DEF BdbaInv, BdbaTypeOK
<1>5. \A v : MayBeMissing(v)' <=> MayBeMissing(v)
  BY DEF MayBeMissing
<1>6. ASSUME NEW x \in Scanners PROVE TargetExists(x)' /\ ResultIsReal(x)'
  <2>1. CASE x = w
    BY <1>1, <1>2, <2>1 DEF BdbaAssumption, TargetExists, ResultIsReal, Postprocessing
  <2>2. CASE x # w
    <3>1. scans'[x] = scans[x] /\ TargetExists(x) /\ ResultIsReal(x)
      BY <1>1, <2>2 DEF BdbaInv, BdbaTypeOK
    <3> QED
      BY <1>2, <1>5, <3>1 DEF TargetExists, ResultIsReal
  <2> QED
    BY <2>1, <2>2
<1> QED
  BY <1>4, <1>6 DEF BdbaInv

\* The queue of BDBA: nobody else looks at a product until the pod has waited.
LEMMA BdbaRequestInv ==
  ASSUME BdbaAssumption, BdbaInv, NEW w \in Scanners, RequestScan(w)
  PROVE  BdbaInv'
<1>0. BdbaTypeOK /\ ProductsAreReal /\ TargetExists(w)
  BY DEF BdbaInv
<1>1. UNCHANGED <<engine, awaiting, scored, hints>>
  BY DEF RequestScan
<1>2. ASSUME NEW empty \in BOOLEAN PROVE /\ Uploaded(empty) \in Products
                                         /\ Uploaded(empty).engine <= engine
                                         /\ Uploaded(empty).hidden = {}
  <2>1. engine \in Engines
    BY <1>0 DEF BdbaTypeOK
  <2>2. engine <= engine
    BY <2>1 DEF BdbaAssumption
  <2> QED
    BY <1>2, <2>1, <2>2 DEF Uploaded, Products
<1>3. CASE MustUpload(w) /\ scans[w].target = None
  <2>1. PICK empty \in BOOLEAN : /\ products' = Append(products, Uploaded(empty))
                                 /\ Await(w, Len(products) + 1, "check")
    BY <1>3 DEF RequestScan, Upload
  <2>2. /\ products' \in Seq(Products) /\ Len(products') = Len(products) + 1
        /\ \A i \in DOMAIN products : products'[i] = products[i]
        /\ products'[Len(products) + 1] = Uploaded(empty)
        /\ Len(products) + 1 \in DOMAIN products'
        /\ DOMAIN products' = DOMAIN products \union {Len(products) + 1}
    BY <1>0, <1>2, <2>1 DEF BdbaTypeOK
  <2>3. ProductsAreReal'
    <3>1. Uploaded(empty).engine <= engine /\ Uploaded(empty).hidden \subseteq hints
      BY <1>2
    <3> QED
      BY <1>0, <1>1, <2>2, <3>1 DEF ProductsAreReal
  <2> QED
    BY <1>1, <2>1, <2>2, <2>3, ProductChanges DEF BdbaTypeOK
<1>4. CASE MustUpload(w) /\ scans[w].target # None
  <2>1. PICK empty \in BOOLEAN :
          /\ products' = [products EXCEPT ![scans[w].target] = Uploaded(empty)]
          /\ Await(w, scans[w].target, "check")
    BY <1>4 DEF RequestScan, Upload
  <2>2. scans[w].target \in DOMAIN products
    BY <1>0, <1>4 DEF TargetExists
  <2>3. /\ products' \in Seq(Products) /\ Len(products') = Len(products)
        /\ DOMAIN products' = DOMAIN products
        /\ \A i \in DOMAIN products : products'[i] \in {products[i], Uploaded(empty)}
    BY <1>0, <1>2, <2>1, <2>2 DEF BdbaTypeOK
  <2>4. ProductsAreReal'
    <3>1. Uploaded(empty).engine <= engine /\ Uploaded(empty).hidden \subseteq hints
      BY <1>2
    <3> QED
      BY <1>0, <1>1, <2>3, <3>1 DEF ProductsAreReal
  <2> QED
    BY <1>1, <2>1, <2>2, <2>3, <2>4, ProductChanges DEF BdbaTypeOK
<1>5. CASE ~MustUpload(w)
  <2> DEFINE t == scans[w].target
             status == IF ScannedAgain(products[t]) THEN "busy" ELSE products[t].status
  <2>1. products' = [products EXCEPT ![t].status = status] /\ Await(w, t, "check")
    BY <1>5 DEF RequestScan
  <2>2. t \in DOMAIN products
    BY <1>0, <1>5 DEF TargetExists, MustUpload
  <2>3. products[t] \in Products /\ status \in {"busy", "ready", "failed"}
    <3>1. products[t] \in Products
      BY <1>0, <2>2 DEF BdbaTypeOK
    <3>2. products[t].status \in {"busy", "ready", "failed"}
      BY <3>1 DEF Products
    <3> QED
      BY <3>1, <3>2
  <2> HIDE DEF t, status
  <2>4. /\ [products[t] EXCEPT !.status = status] \in Products
        /\ [products[t] EXCEPT !.status = status].engine = products[t].engine
        /\ [products[t] EXCEPT !.status = status].hidden = products[t].hidden
    BY <2>3 DEF Products
  <2>5. /\ products' \in Seq(Products) /\ Len(products') = Len(products)
        /\ DOMAIN products' = DOMAIN products
        /\ \A i \in DOMAIN products : products'[i].engine = products[i].engine
                                      /\ products'[i].hidden = products[i].hidden
    BY <1>0, <2>1, <2>2, <2>4 DEF BdbaTypeOK
  <2>6. ProductsAreReal'
    BY <1>0, <1>1, <2>5 DEF ProductsAreReal
  <2> QED
    BY <1>1, <2>1, <2>2, <2>5, <2>6, ProductChanges DEF BdbaTypeOK
<1> QED
  BY <1>3, <1>4, <1>5

\* The result: what is missing in that of a product that is ready and not empty is not there.
LEMMA ReportedIsReal ==
  ASSUME BdbaAssumption, BdbaInv, NEW i \in DOMAIN products, IsReady(products[i]),
         NEW v \in Cves, v \notin ReportedBy(products[i])
  PROVE  products[i].empty \/ MayBeMissing(v)
<1>1. products[i] \in Products /\ products[i].engine <= engine /\ products[i].hidden \subseteq hints
  BY DEF BdbaInv, BdbaTypeOK, ProductsAreReal
<1>2. products[i].engine \in Engines /\ Score[products[i].engine][v] \in Nat
  BY <1>1 DEF Products, BdbaAssumption
<1>3. \/ products[i].empty
      \/ ~(Score[products[i].engine][v] > 0)
      \/ v \in products[i].hidden
  BY DEF ReportedBy, IsReady
<1> QED
  BY <1>1, <1>2, <1>3 DEF MayBeMissing

LEMMA BdbaResultInv ==
  ASSUME BdbaAssumption, BdbaInv, NEW w \in Scanners, WaitForResult(w)
  PROVE  BdbaInv'
<1> DEFINE t == scans[w].target
           p == products[t]
           next == scans[w].next
           result == [v \in Cves |-> IF v \in ReportedBy(p) THEN Score[p.engine][v] ELSE None]
           s == [pc |-> IF next = "check" THEN "hints" ELSE next, owner |-> scans[w].owner,
                 target |-> t, result |-> result, existing |-> None, next |-> None,
                 emptied |-> next # "check" /\ p.empty]
<1>0. BdbaTypeOK /\ TargetExists(w) /\ scans[w] \in BdbaScanTypes
  BY DEF BdbaInv, BdbaTypeOK
<1>1. UNCHANGED <<engine, products, scored, hints>>
  BY DEF WaitForResult
<1>2. t \in DOMAIN products /\ t # None /\ next \in {"check", "hints", "read"}
  BY <1>0 DEF WaitForResult, TargetExists
<1>3. CASE scans' = [scans EXCEPT ![w] = NotScanning] /\ awaiting' \subseteq Owners
  BY <1>0, <1>1, <1>3, NotScanningType, PodAlone
     DEF BdbaTypeOK, NotScanning, Unscanned, Postprocessing
<1>4. CASE /\ IsReady(p) /\ ~(next = "check" /\ IsEmpty(p))
           /\ scans' = [scans EXCEPT ![w] = s] /\ UNCHANGED awaiting
  <2>1. p \in Products
    BY <1>0, <1>2 DEF BdbaTypeOK
  <2>2. result \in [Cves -> Nat \union {None}]
    BY <2>1 DEF BdbaAssumption, Products
  <2>3. ASSUME NEW v \in Cves, result[v] = None PROVE v \notin ReportedBy(p)
    <3>1. Score[p.engine][v] \in Nat /\ None \notin Nat
      BY <2>1 DEF BdbaAssumption, Products
    <3>2. v \in ReportedBy(p) => result[v] = Score[p.engine][v]
      OBVIOUS
    <3> QED
      BY <2>3, <3>1, <3>2
  <2>4. (next # "check" /\ p.empty) \in BOOLEAN
    OBVIOUS
  <2>5. /\ s.pc \in {"hints", "read"} /\ s.target = t /\ s.result = result
        /\ s.emptied <=> (next # "check" /\ p.empty)
    BY <1>2
  <2>6. s \in BdbaScanTypes
    BY <1>0, <1>2, <2>2, <2>4, Zenon DEF BdbaScanTypes, Postprocessing
  <2>7. s.emptied \/ \A v \in Cves : s.result[v] = None => MayBeMissing(v)
    <3>1. CASE p.empty
      BY <1>4, <2>5, <3>1 DEF IsEmpty
    <3>2. CASE ~p.empty
      BY <1>2, <1>4, <2>3, <2>5, <3>2, ReportedIsReal
    <3> QED
      BY <3>1, <3>2
  <2> HIDE DEF s, result
  <2> QED
    BY <1>0, <1>1, <1>2, <1>4, <2>2, <2>5, <2>6, <2>7, PodAlone DEF BdbaTypeOK, Postprocessing
<1> QED
  BY <1>0, <1>3, <1>4 DEF WaitForResult, Raise, ScanDone, Scanning, BdbaTypeOK

\* What becomes of a product.
LEMMA ProductTypes ==
  ASSUME NEW r \in Products
  PROVE  /\ \A h \in SUBSET Cves, status \in {"busy", "ready", "failed"} :
              LET q == [r EXCEPT !.hidden = h, !.status = status]
              IN q \in Products /\ q.engine = r.engine /\ q.hidden = h
         /\ \A h \in SUBSET Cves :
              LET q == [r EXCEPT !.triaged = h]
              IN q \in Products /\ q.engine = r.engine /\ q.hidden = r.hidden
         /\ \A e \in Engines, status \in {"busy", "ready", "failed"} :
              LET q == [r EXCEPT !.status = status, !.engine = e]
              IN q \in Products /\ q.engine = e /\ q.hidden = r.hidden
         /\ \A status \in {"busy", "ready", "failed"} :
              LET q == [r EXCEPT !.status = status]
              IN q \in Products /\ q.engine = r.engine /\ q.hidden = r.hidden
         /\ \A kept \in BOOLEAN :
              LET q == [r EXCEPT !.kept = kept]
              IN q \in Products /\ q.engine = r.engine /\ q.hidden = r.hidden
BY DEF Products

\* Overrides and triages of a product there is.
LEMMA BdbaPostprocessInv ==
  ASSUME BdbaAssumption, BdbaInv, NEW w \in Scanners, UploadHint(w) \/ AddTriages(w)
  PROVE  BdbaInv'
<1> DEFINE t == scans[w].target
<1>0. /\ BdbaTypeOK /\ ProductsAreReal /\ TargetExists(w) /\ ResultIsReal(w)
      /\ scans[w] \in BdbaScanTypes
  BY DEF BdbaInv, BdbaTypeOK
<1>1. UNCHANGED <<engine, awaiting, scored, hints>>
  BY DEF UploadHint, AddTriages
<1>2. t \in DOMAIN products
  BY <1>0 DEF UploadHint, AddTriages, TargetExists, ResultIsReal, Postprocessing
<1>3. products[t] \in Products /\ products[t].engine <= engine /\ products[t].hidden \subseteq hints
  BY <1>0, <1>2 DEF BdbaTypeOK, ProductsAreReal
<1>4. ASSUME NEW pc \in {"triage", "read"}, Goto(w, pc), UNCHANGED products,
             scans[w].pc \in Postprocessing
      PROVE  BdbaInv'
  <2> DEFINE s == [pc |-> pc, owner |-> scans[w].owner, target |-> t, result |-> scans[w].result,
                   existing |-> scans[w].existing, next |-> scans[w].next,
                   emptied |-> scans[w].emptied]
  <2>1. scans' = [scans EXCEPT ![w] = s]
    BY <1>0, <1>4 DEF Goto, Scanning, BdbaTypeOK
  <2>2. s \in BdbaScanTypes
    BY <1>0 DEF BdbaScanTypes, Postprocessing
  <2>3. s.pc = pc /\ s.target = t /\ s.result = scans[w].result /\ s.emptied = scans[w].emptied
    OBVIOUS
  <2> HIDE DEF s
  <2> QED
    BY <1>0, <1>1, <1>2, <1>4, <2>1, <2>2, <2>3, PodAlone
       DEF BdbaTypeOK, Postprocessing, ResultIsReal
<1>5. ASSUME NEW q \in Products, products' = [products EXCEPT ![t] = q],
             q.engine = products[t].engine, q.hidden \subseteq hints,
             NEW next \in {"hints", "read"}, Await(w, t, next)
      PROVE  BdbaInv'
  <2>1. /\ products' \in Seq(Products) /\ Len(products') = Len(products)
        /\ DOMAIN products' = DOMAIN products
        /\ \A i \in DOMAIN products : products'[i] = IF i = t THEN q ELSE products[i]
    BY <1>0, <1>2, <1>5 DEF BdbaTypeOK
  <2>2. ProductsAreReal'
    BY <1>0, <1>1, <1>3, <1>5, <2>1 DEF ProductsAreReal
  <2> QED
    BY <1>1, <1>2, <1>5, <2>1, <2>2, ProductChanges DEF BdbaTypeOK
<1>6. CASE UploadHint(w)
  <2>1. CASE Goto(w, "triage") /\ UNCHANGED products
    BY <1>4, <1>6, <2>1 DEF UploadHint, Postprocessing
  <2>2. ASSUME NEW v \in hints,
               products' = [products EXCEPT ![t].hidden = @ \union {v}, ![t].status = "busy"],
               Await(w, t, "hints")
        PROVE  BdbaInv'
    <3> DEFINE q == [products[t] EXCEPT !.hidden = products[t].hidden \union {v},
                                        !.status = "busy"]
    <3>1. products[t].hidden \union {v} \in SUBSET Cves
      BY <1>0, <1>3 DEF Products, BdbaTypeOK
    <3>2. q \in Products /\ q.engine = products[t].engine
          /\ q.hidden = products[t].hidden \union {v}
      BY <1>3, <3>1, ProductTypes, Zenon
    <3>3. products' = [products EXCEPT ![t] = q]
      BY <1>0, <1>2, <2>2 DEF BdbaTypeOK
    <3> HIDE DEF q
    <3> QED
      BY <1>3, <1>5, <2>2, <3>2, <3>3
  <2> QED
    BY <1>6, <2>1, <2>2 DEF UploadHint
<1>7. CASE AddTriages(w)
  <2> DEFINE q == [products[t] EXCEPT !.triaged = products[t].triaged \union Irrelevant(w)]
  <2>1. products[t].triaged \union Irrelevant(w) \in SUBSET Cves
    BY <1>3 DEF Products, Irrelevant
  <2>2. q \in Products /\ q.engine = products[t].engine /\ q.hidden = products[t].hidden
    BY <1>3, <2>1, ProductTypes, Zenon
  <2>3. products' = [products EXCEPT ![t] = q]
    BY <1>0, <1>2, <1>7 DEF AddTriages, BdbaTypeOK
  <2>4. CASE Irrelevant(w) # {}
    BY <1>3, <1>5, <1>7, <2>2, <2>3, <2>4 DEF AddTriages
  <2>5. CASE Irrelevant(w) = {}
    <3>1. q = products[t]
      BY <1>3, <2>5 DEF Products
    <3>2. products' = products
      BY <1>0, <1>2, <2>3, <3>1 DEF BdbaTypeOK
    <3> QED
      BY <1>4, <1>7, <2>5, <3>2 DEF AddTriages, Postprocessing
  <2> QED
    BY <2>4, <2>5
<1> QED
  BY <1>6, <1>7

\* An item is claimed, findings are read, deleted and stored, and the pod fails.
LEMMA BdbaFindingsInv ==
  ASSUME BdbaAssumption, BdbaInv, NEW w \in Scanners,
         \/ ClaimArtefact(w) \/ ReadExistingFindings(w) \/ DeleteStale(w) \/ StoreFindings(w)
         \/ RequestFails(w) \/ ScannerFails(w)
  PROVE  BdbaInv'
<1> DEFINE t == scans[w].target
<1>0. BdbaTypeOK /\ TargetExists(w) /\ ResultIsReal(w) /\ scans[w] \in BdbaScanTypes
  BY DEF BdbaInv, BdbaTypeOK
<1>1. UNCHANGED <<engine, products, hints>>
  BY DEF ClaimArtefact, ReadExistingFindings, DeleteStale, StoreFindings, RequestFails,
         ScannerFails
<1>2. awaiting' \subseteq Owners
  BY <1>0 DEF ClaimArtefact, ReadExistingFindings, DeleteStale, StoreFindings, RequestFails,
              ScannerFails, ScanDone, BdbaTypeOK
<1>3. scored' \in [Cves -> Nat \union {None}]
  <2>1. CASE DeleteStale(w)
    BY <1>0, <2>1 DEF DeleteStale, BdbaTypeOK
  <2>2. CASE StoreFindings(w)
    <3>1. scans[w].result \in [Cves -> Nat \union {None}]
      BY <1>0, <2>2 DEF ResultIsReal, StoreFindings, Postprocessing
    <3>2. \A v \in Cves : scans[w].result[v] # None => scans[w].result[v] \in Nat
      BY <3>1
    <3>3. scored' = [v \in Cves |->
                       IF scans[w].result[v] # None THEN scans[w].result[v] ELSE scored[v]]
      BY <2>2 DEF StoreFindings
    <3> QED
      BY <1>0, <3>2, <3>3 DEF BdbaTypeOK
  <2>3. CASE scored' = scored
    BY <1>0, <2>3 DEF BdbaTypeOK
  <2> QED
    BY <2>1, <2>2, <2>3 DEF ClaimArtefact, ReadExistingFindings, RequestFails, ScannerFails
<1>4. ASSUME scans' = [scans EXCEPT ![w] = NotScanning] PROVE BdbaInv'
  BY <1>1, <1>2, <1>3, <1>4, NotScanningType, PodAlone DEF NotScanning, Unscanned, Postprocessing
<1>5. CASE ClaimArtefact(w)
  <2>1. PICK o \in awaiting :
          scans' = [scans EXCEPT ![w] = Unscanned("request", o, Matching)]
    BY <1>5 DEF ClaimArtefact
  <2> DEFINE s == Unscanned("request", o, Matching)
  <2>2. Matching # None => Matching \in DOMAIN products /\ Matching \in Nat
    BY <1>0 DEF Matching, BdbaTypeOK
  <2>3. s \in BdbaScanTypes /\ s.pc = "request" /\ s.target = Matching
    BY <1>0, <2>2 DEF BdbaScanTypes, BdbaTypeOK, Unscanned
  <2> QED
    BY <1>1, <1>2, <1>3, <2>1, <2>2, <2>3, PodAlone DEF Postprocessing
<1>6. ASSUME scans[w].pc \in Postprocessing, NEW pc \in {"delete", "store"},
             NEW existing \in [Cves -> Nat \union {None}] \union {None},
             Scanning(w, pc, t, scans[w].result, existing, scans[w].next, scans[w].emptied)
      PROVE  BdbaInv'
  <2> DEFINE s == [pc |-> pc, owner |-> scans[w].owner, target |-> t, result |-> scans[w].result,
                   existing |-> existing, next |-> scans[w].next, emptied |-> scans[w].emptied]
  <2>1. scans' = [scans EXCEPT ![w] = s]
    BY <1>0, <1>6 DEF Scanning, BdbaTypeOK
  <2>2. s \in BdbaScanTypes
    BY <1>0, <1>6 DEF BdbaScanTypes, Postprocessing
  <2>3. s.pc = pc /\ s.target = t /\ s.result = scans[w].result /\ s.emptied = scans[w].emptied
    OBVIOUS
  <2> HIDE DEF s
  <2> QED
    BY <1>0, <1>1, <1>2, <1>3, <1>6, <2>1, <2>2, <2>3, PodAlone
       DEF Postprocessing, ResultIsReal, TargetExists
<1>7. CASE ReadExistingFindings(w)
  BY <1>0, <1>6, <1>7 DEF ReadExistingFindings, Postprocessing, BdbaTypeOK
<1>8. CASE DeleteStale(w)
  <2>1. scans[w].existing \in [Cves -> Nat \union {None}] \union {None}
    BY <1>0 DEF BdbaScanTypes
  <2> QED
    BY <1>6, <1>8, <2>1 DEF DeleteStale, Goto, Postprocessing
<1> QED
  BY <1>4, <1>5, <1>7, <1>8 DEF StoreFindings, RequestFails, ScannerFails, ScanDone, Raise

\* BDBA, its operators, users and the enumerator.
LEMMA BdbaOutsideInv ==
  ASSUME BdbaAssumption, BdbaInv,
         \/ \E i \in DOMAIN products : FinishProduct(i) \/ FailProduct(i) \/ MaintainProduct(i)
         \/ EngineUpdate
         \/ \E v \in Cves : OverwriteVersion(v)
         \/ \E o \in Owners : ScanIsDue(o)
  PROVE  BdbaInv'
<1>0. BdbaTypeOK /\ ProductsAreReal
  BY DEF BdbaInv
<1>1. UNCHANGED <<scans, scored>>
  BY DEF FinishProduct, FailProduct, MaintainProduct, EngineUpdate, OverwriteVersion, ScanIsDue
<1>2. ASSUME engine' \in Engines, engine <= engine', hints \subseteq hints',
             hints' \subseteq Cves, awaiting' \subseteq Owners,
             products' \in Seq(Products), DOMAIN products' = DOMAIN products,
             ProductsAreReal'
      PROVE  BdbaInv'
  <2>1. BdbaTypeOK'
    BY <1>0, <1>1, <1>2 DEF BdbaTypeOK
  <2>2. \A v : MayBeMissing(v) => MayBeMissing(v)'
    <3>1. engine \in Nat /\ engine' \in Nat /\ Engines \subseteq Nat
      BY <1>0, <1>2 DEF BdbaTypeOK, BdbaAssumption
    <3>2. \A e \in Engines : e <= engine => e <= engine'
      BY <1>2, <3>1
    <3> QED
      BY <1>2, <3>2 DEF MayBeMissing
  <2>3. \A w \in Scanners : TargetExists(w)' /\ ResultIsReal(w)'
    BY <1>1, <1>2, <2>2 DEF BdbaInv, TargetExists, ResultIsReal
  <2> QED
    BY <1>2, <2>1, <2>3 DEF BdbaInv
<1>3. engine \in Nat /\ engine <= engine
  <2>1. engine \in Engines /\ Engines \subseteq Nat
    BY <1>0 DEF BdbaTypeOK, BdbaAssumption
  <2>2. engine \in Nat
    BY <2>1
  <2> QED
    BY <2>2
<1>4. ASSUME NEW i \in DOMAIN products, NEW q \in Products, products' = [products EXCEPT ![i] = q],
             q.engine <= engine, q.hidden = products[i].hidden,
             UNCHANGED <<engine, awaiting, hints>>
      PROVE  BdbaInv'
  <2>1. /\ products' \in Seq(Products) /\ DOMAIN products' = DOMAIN products
        /\ \A j \in DOMAIN products : products'[j] = IF j = i THEN q ELSE products[j]
    BY <1>0, <1>4 DEF BdbaTypeOK
  <2>2. ProductsAreReal'
    BY <1>0, <1>4, <2>1 DEF ProductsAreReal
  <2> QED
    BY <1>0, <1>2, <1>3, <1>4, <2>1, <2>2 DEF BdbaTypeOK
<1>5. ASSUME NEW i \in DOMAIN products, FinishProduct(i) \/ FailProduct(i) \/ MaintainProduct(i)
      PROVE  BdbaInv'
  <2> DEFINE p == products[i]
  <2>1. p \in Products /\ p.engine <= engine /\ engine \in Engines
    BY <1>0, <1>5 DEF BdbaTypeOK, ProductsAreReal
  <2>2. UNCHANGED <<engine, awaiting, hints>>
    BY <1>5 DEF FinishProduct, FailProduct, MaintainProduct
  <2>3. CASE FinishProduct(i)
    <3> DEFINE q == [p EXCEPT !.status = "ready", !.engine = engine]
    <3>1. q \in Products /\ q.engine = engine /\ q.hidden = p.hidden
      BY <2>1, ProductTypes, Zenon
    <3>2. products' = [products EXCEPT ![i] = q]
      BY <1>0, <2>3 DEF FinishProduct, BdbaTypeOK
    <3> HIDE DEF q
    <3> QED
      BY <1>3, <1>4, <2>2, <3>1, <3>2
  <2>4. ASSUME NEW status \in {"busy", "failed"}, products' = [products EXCEPT ![i].status = status]
        PROVE  BdbaInv'
    <3> DEFINE q == [p EXCEPT !.status = status]
    <3>1. q \in Products /\ q.engine = p.engine /\ q.hidden = p.hidden
      BY <2>1, <2>4, ProductTypes, ZenonT(40)
    <3>2. products' = [products EXCEPT ![i] = q]
      BY <1>0, <2>4 DEF BdbaTypeOK
    <3> HIDE DEF q
    <3> QED
      BY <1>4, <2>1, <2>2, <3>1, <3>2
  <2>5. ASSUME products' = [products EXCEPT ![i].kept = FALSE] PROVE BdbaInv'
    <3> DEFINE q == [p EXCEPT !.kept = FALSE]
    <3>1. q \in Products /\ q.engine = p.engine /\ q.hidden = p.hidden
      BY <2>1, ProductTypes, Zenon
    <3>2. products' = [products EXCEPT ![i] = q]
      BY <1>0, <2>5 DEF BdbaTypeOK
    <3> HIDE DEF q
    <3> QED
      BY <1>4, <2>1, <2>2, <3>1, <3>2
  <2> QED
    BY <1>5, <2>3, <2>4, <2>5 DEF FailProduct, MaintainProduct
<1>6. CASE EngineUpdate
  <2>1. engine' \in Engines /\ engine' = engine + 1 /\ UNCHANGED <<products, awaiting, hints>>
    BY <1>6 DEF EngineUpdate
  <2>2. engine <= engine'
    BY <1>3, <2>1
  <2>3. ASSUME NEW i \in DOMAIN products PROVE products[i].engine \in Nat
    <3>1. products[i] \in Products
      BY <1>0 DEF BdbaTypeOK
    <3> QED
      BY <3>1 DEF BdbaAssumption, Products
  <2>4. ProductsAreReal'
    BY <1>0, <1>3, <2>1, <2>3 DEF ProductsAreReal
  <2> QED
    BY <1>0, <1>2, <2>1, <2>2, <2>4 DEF BdbaTypeOK
<1>7. ASSUME NEW v \in Cves, OverwriteVersion(v) PROVE BdbaInv'
  BY <1>0, <1>2, <1>3, <1>7 DEF OverwriteVersion, BdbaTypeOK, ProductsAreReal
<1>8. ASSUME NEW o \in Owners, ScanIsDue(o) PROVE BdbaInv'
  BY <1>0, <1>2, <1>3, <1>8 DEF ScanIsDue, BdbaTypeOK, ProductsAreReal
<1> QED
  BY <1>5, <1>6, <1>7, <1>8

\* A result is that of a product of an engine that was in use, and lacks only what this engine does
\* not report, what users have overwritten, or what went when the product was emptied.
THEOREM BdbaInvariant == ASSUME BdbaAssumption PROVE BdbaSpec => []BdbaInv
<1>1. BdbaInit => BdbaInv
  <2> SUFFICES ASSUME BdbaInit PROVE BdbaInv
    OBVIOUS
  <2>1. \A w \in Scanners : scans[w] = NotScanning
    BY DEF BdbaInit
  <2>2. BdbaTypeOK
    BY NotScanningType DEF BdbaInit, BdbaTypeOK, BdbaAssumption
  <2>3. ProductsAreReal
    BY DEF BdbaInit, ProductsAreReal
  <2>4. \A w \in Scanners : TargetExists(w) /\ ResultIsReal(w)
    BY <2>1 DEF NotScanning, Unscanned, TargetExists, ResultIsReal, Postprocessing
  <2> QED
    BY <2>2, <2>3, <2>4 DEF BdbaInv
<1>2. BdbaInv /\ [BdbaNext]_bdbaVars => BdbaInv'
  <2> SUFFICES ASSUME BdbaInv, [BdbaNext]_bdbaVars PROVE BdbaInv'
    OBVIOUS
  <2>1. CASE UNCHANGED bdbaVars
    <3>1. UNCHANGED <<engine, products, scans, awaiting, scored, hints>>
      BY <2>1 DEF bdbaVars
    <3>2. BdbaTypeOK' /\ ProductsAreReal'
      BY <3>1 DEF BdbaInv, BdbaTypeOK, ProductsAreReal
    <3>3. \A w \in Scanners : TargetExists(w)' /\ ResultIsReal(w)'
      BY <3>1 DEF BdbaInv, TargetExists, ResultIsReal, MayBeMissing
    <3> QED
      BY <3>2, <3>3 DEF BdbaInv
  <2>2. ASSUME NEW w \in Scanners, Work(w) \/ RequestFails(w) \/ ScannerFails(w) PROVE BdbaInv'
    BY <2>2, BdbaRequestInv, BdbaResultInv, BdbaPostprocessInv, BdbaFindingsInv DEF Work
  <2> QED
    BY <2>1, <2>2, BdbaOutsideInv DEF BdbaNext
<1> QED
  BY <1>1, <1>2, PTL DEF BdbaSpec

\* "failed scans do not contain package infos, raise to prevent side effects": whatever pods,
\* scans and requests fail, a finding goes only because some engine does not report it, or because
\* its package's version was overwritten, or with a product that was emptied meanwhile.
THEOREM FailuresDeleteNothing == ASSUME BdbaAssumption PROVE BdbaSpec => FailuresKeepFindings
<1> DEFINE Kept ==
             \A v \in Cves :
               scored[v] # None /\ scored'[v] = None
               => MayBeMissing(v) \/ \E w \in Scanners : scans[w].pc = "delete" /\ scans[w].emptied
<1>1. BdbaInv /\ [BdbaNext]_bdbaVars => [Kept]_bdbaVars
  <2> SUFFICES ASSUME BdbaInv, BdbaNext, NEW v \in Cves, scored[v] # None, scored'[v] = None
               PROVE  MayBeMissing(v)
                      \/ \E w \in Scanners : scans[w].pc = "delete" /\ scans[w].emptied
    OBVIOUS
  <2>1. scored' # scored
    OBVIOUS
  <2>2. PICK w \in Scanners : DeleteStale(w) \/ StoreFindings(w)
    BY <2>1 DEF BdbaNext, Work, ClaimArtefact, RequestScan, WaitForResult, UploadHint, AddTriages,
                ReadExistingFindings, RequestFails, ScannerFails, FinishProduct, FailProduct,
                MaintainProduct, EngineUpdate, OverwriteVersion, ScanIsDue
  <2>3. ~StoreFindings(w)
    BY DEF StoreFindings
  <2>4. scans[w].pc = "delete" /\ scans[w].result[v] = None
    BY <2>2, <2>3 DEF DeleteStale
  <2> QED
    BY <2>4 DEF BdbaInv, ResultIsReal, Postprocessing
<1>2. Kept <=> \A v \in Cves :
                 scored[v] # None /\ scored'[v] = None
                 => \/ v \in hints
                    \/ \E e \in Engines : e <= engine /\ Score[e][v] = 0
                    \/ \E w \in Scanners : scans[w].pc = "delete" /\ scans[w].emptied
  BY DEF MayBeMissing
<1> QED
  BY <1>1, <1>2, BdbaInvariant, PTL DEF BdbaSpec, FailuresKeepFindings
=============================================================================
