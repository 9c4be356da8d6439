---------------------------- MODULE ArtefactScans ----------------------------
(***************************************************************************)
(* The extensions that scan one artefact and report what they find to the  *)
(* delivery-service: vulnerabilities (scanner_utils, trivy_extension),     *)
(* cryptographic assets (crypto_extension), malware (malware), operating   *)
(* systems (osid_extension), missing linters (sast.py).  Findings have no  *)
(* component version: the items of two component versions with the same    *)
(* artefact are processed side by side, by the same extension.             *)
(***************************************************************************)
EXTENDS Faults, FiniteSets

CONSTANTS
  Workers,     \* pods of the extension, each with an item for the artefact
  Findings,    \* keys of findings: a CVE in a package, a malware in a file, an operating system,
               \* a linter
  Statuses,    \* what a finding says; one with the status None is no finding
  Harmless     \* statuses without a categorisation

\* A change of the facts is one of the counted events.
ASSUME ScansAssumption == "fact" \in DOMAIN Limit

VARIABLES
  extension,   \* the extension this behaviour is about
  facts,       \* facts[f]: the status a scan finds for f, now
  unreadable,  \* files clamd answers with an error, now: too large, no memory left
  sbom,        \* the delivery-service has an SBOM of the artefact
  stored,      \* stored[f]: the status of the finding in the delivery-db
  bogus,       \* files with a finding in the delivery-db whose malware is the text of an error
  scanned,     \* there is an artefact_scan_info
  worker       \* locals of a scan

scansVars == <<extension, facts, unreadable, sbom, stored, bogus, scanned, worker, faults>>

NoFinding == [f \in Findings |-> None]
Resting == [pc |-> "idle", todo |-> {}, result |-> NoFinding, errors |-> {}, existing |-> {}]

\* trivy looks up its SBOM first, or fails without one (ScanningMode).  The findings configuration
\* of malware has a category for every text (the default), or only for some names.
Extensions == {"trivy binary", "trivy sbom", "trivy fallback", "crypto", "clamav any",
               "clamav some", "osid", "sast"}
Clamav == {"clamav any", "clamav some"}
Trivy == {"trivy binary", "trivy sbom", "trivy fallback"}

\* What a scan of the artefact results in: a missing linter, an operating system at its end of
\* life, a file with malware.
Facts == [Findings -> Statuses \union {None}]

ScansInit ==
  /\ FaultsInit
  /\ extension \in Extensions
  /\ facts \in Facts
  /\ unreadable \in SUBSET IF extension \in Clamav THEN Findings ELSE {}
  /\ sbom = FALSE
  /\ stored = NoFinding
  /\ bogus = {}
  /\ scanned = FALSE
  /\ worker = [w \in Workers |-> Resting]

Becomes(w, r) == worker' = [worker EXCEPT ![w] = r]

FirstStep == IF extension \in {"trivy sbom", "trivy fallback"} THEN "sbom" ELSE "scan"

BeginScan(w) ==
  /\ worker[w].pc = "idle"
  /\ Becomes(w, [Resting EXCEPT !.pc = FirstStep, !.todo = Findings])
  /\ UNCHANGED <<extension, facts, unreadable, sbom, stored, bogus, scanned, faults>>

\* Mutant: an artefact without an SBOM has no vulnerabilities.
EmptySbom(w) == [worker[w] EXCEPT !.pc = "existing", !.todo = {}]
\* run_scan: the exception SbomNotAvailable.
NoSbom(w) == Resting

\* _fetch_sbom: without an SBOM, scan the artefact itself or give up.
FetchSbom(w) ==
  /\ worker[w].pc = "sbom"
  /\ Becomes(w, IF sbom \/ extension = "trivy fallback"
                THEN [worker[w] EXCEPT !.pc = "scan"] ELSE NoSbom(w))
  /\ UNCHANGED <<extension, facts, unreadable, sbom, stored, bogus, scanned, faults>>

\* ClamAV is asked file by file, the other scanners look at everything at once.
Portions(w) == IF extension \in Clamav THEN {{f} : f \in worker[w].todo} ELSE {worker[w].todo}

\* An error is an answer of clamd like others: the scan goes on with the next file.
Scan(w) ==
  /\ worker[w].pc = "scan"
  /\ worker[w].todo # {}
  /\ \E portion \in Portions(w) :
       Becomes(w, [worker[w] EXCEPT
                     !.todo = @ \ portion,
                     !.result = [f \in Findings |->
                                   IF f \in portion \ unreadable THEN facts[f] ELSE @[f]],
                     !.errors = @ \union (portion \intersect unreadable),
                     !.pc = IF worker[w].todo # portion THEN "scan"
                            ELSE IF extension \in Trivy \union {"crypto"} THEN "existing"
                            ELSE "store"])
  /\ UNCHANGED <<extension, facts, unreadable, sbom, stored, bogus, scanned, faults>>

\* Mutant: files ClamAV gives no answer for are skipped.
FilesSkipped(w) == [worker[w] EXCEPT !.todo = {}, !.pc = "store"]
\* The exception ends the scan: nothing is stored, and the item stays in the backlog.
ScanAborted(w) == Resting

\* A scanner exits with an error, the registry, clamd or the EOL API do not answer in time, clamd
\* closes the connection without an answer.
ScanBreaks(w) ==
  /\ worker[w].pc = "scan"
  /\ Spend("scan")
  /\ Becomes(w, ScanAborted(w))
  /\ UNCHANGED <<extension, facts, unreadable, sbom, stored, bogus, scanned>>

\* The findings of the artefact in the delivery-db.
ReadStored(w) ==
  /\ worker[w].pc = "existing"
  /\ Becomes(w, [worker[w] EXCEPT !.existing = {f \in Findings : stored[f] # None},
                                  !.pc = IF extension = "crypto" THEN "delete" ELSE "store"])
  /\ UNCHANGED <<extension, facts, unreadable, sbom, stored, bogus, scanned, faults>>

\* categorise_finding
Categorised(status) == status \notin Harmless \union {None}
Reported(w) == {f \in Findings : Categorised(worker[w].result[f])}

\* _malware_or_none, categorise_finding: a text other than OK is the name of a malware, also that of
\* an error.  It is a finding of its own, or skipped with a warning if it has no category.
ReportedErrors(files) == IF extension = "clamav any" THEN files ELSE {}

\* Mutant: nothing is compared with the delivery-db, as in the other extensions.
NothingStale(w) == {}
\* Stored before, not found by this scan.
StaleFindings(w) == worker[w].existing \ Reported(w)

AfterDelete == IF extension = "crypto" THEN "store" ELSE "done"
AfterStore == IF extension \in Trivy THEN "delete" ELSE "done"
Goes(w, pc) == Becomes(w, IF pc = "done" THEN Resting ELSE [worker[w] EXCEPT !.pc = pc])

\* crypto deletes first and stores then, the scanners with an SBOM store first.
DeleteStaleFindings(w) ==
  /\ worker[w].pc = "delete"
  /\ stored' = [f \in Findings |-> IF f \in StaleFindings(w) THEN None ELSE stored[f]]
  /\ Goes(w, AfterDelete)
  /\ UNCHANGED <<extension, facts, unreadable, sbom, bogus, scanned, faults>>

StoreResult(w) ==
  /\ worker[w].pc = "store"
  /\ stored' = [f \in Findings |-> IF f \in Reported(w) THEN worker[w].result[f] ELSE stored[f]]
  /\ bogus' = bogus \union ReportedErrors(worker[w].errors)
  /\ scanned' = TRUE
  /\ Goes(w, AfterStore)
  /\ UNCHANGED <<extension, facts, unreadable, sbom, faults>>

\* The delivery-service does not answer, or the pod is killed: the item is claimed again.
WorkerDies(w) ==
  /\ worker[w].pc \in {"existing", "delete", "store"}
  /\ Spend("die")
  /\ Becomes(w, Resting)
  /\ UNCHANGED <<extension, facts, unreadable, sbom, stored, bogus, scanned>>

-----------------------------------------------------------------------------
(* The environment *)

\* New databases of vulnerabilities, signatures or releases, other standards in the
\* configuration; what is known of a linter is part of the component version.
FactChanges(f, status) ==
  /\ extension # "sast"
  /\ facts[f] # status
  /\ Spend("fact")
  /\ facts' = [facts EXCEPT ![f] = status]
  /\ UNCHANGED <<extension, unreadable, sbom, stored, bogus, scanned, worker>>

\* A limit of clamd is changed, its errors come and go.
AnswerChanges(f) ==
  /\ extension \in Clamav
  /\ Spend("fact")
  /\ unreadable' = IF f \in unreadable THEN unreadable \ {f} ELSE unreadable \union {f}
  /\ UNCHANGED <<extension, facts, sbom, stored, bogus, scanned, worker>>

\* SbomStore!Publish
SbomAppears ==
  /\ ~sbom
  /\ sbom' = TRUE
  /\ UNCHANGED <<extension, facts, unreadable, stored, bogus, scanned, worker, faults>>

Working(w) ==
  BeginScan(w) \/ FetchSbom(w) \/ Scan(w) \/ ReadStored(w) \/ DeleteStaleFindings(w)
  \/ StoreResult(w)

ScansNext ==
  \/ \E w \in Workers : Working(w) \/ ScanBreaks(w) \/ WorkerDies(w)
  \/ \E f \in Findings, status \in Statuses \union {None} : FactChanges(f, status)
  \/ \E f \in Findings : AnswerChanges(f)
  \/ SbomAppears

\* Artefacts are scanned again and again, and their SBOM is generated.
ScansFairness ==
  /\ \A w \in Workers : WF_scansVars(Working(w))
  /\ WF_scansVars(SbomAppears)

ScansSpec == ScansInit /\ [][ScansNext]_scansVars /\ ScansFairness

-----------------------------------------------------------------------------
(* Properties *)

\* What a stored scan says of every file, as long as the facts are the same, whatever failed before
\* and whichever scans overlap: all of its facts and nothing else.  A file that clamd answered with
\* an error is the exception, although the scan counts as complete: nothing is known of it, and the
\* error is shown as a malware, if there is a category for such a name.
ScannedIsComplete ==
  scanned /\ Never("fact")
  => /\ \A f \in Findings :
          stored[f] = IF f \notin unreadable /\ Categorised(facts[f]) THEN facts[f] ELSE None
     /\ bogus = ReportedErrors(unreadable)

\* As long as the facts are the same, no finding disappears: neither the clean-up of another scan
\* nor a scan that broke off takes it away.
FindingsStay ==
  [][Never("fact") => \A f \in Findings : stored[f] # None => stored'[f] # None]_scansVars

\* What stays a fact that a scan can see becomes a finding, and stays one, with its present status.
FactsAreReported ==
  \A f \in Findings, status \in Statuses \ Harmless :
    <>[](facts[f] = status /\ f \notin unreadable) => <>[](stored[f] = status)

\* The extensions that compare their result with the delivery-db (vulnerabilities and crypto)
\* delete a finding that is none any more; the others (malware, operating systems) keep it.
GoneFindingsAreDeleted ==
  \A f \in Findings :
    <>[](extension \in Trivy \union {"crypto"} /\ ~Categorised(facts[f]))
    => <>[](stored[f] = None)
=============================================================================
